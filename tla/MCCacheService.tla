----------------------------- MODULE MCCacheService -----------------------------
\* A small instance of CacheService: two calls, and three rows.  Those of acme and
\* of acme:x have one key, and that of globex has the identifiers of acme's, joined.
EXTENDS CacheService

CONSTANTS c1, c2, employees, acme, globex, x, y, blank

Row(tenant, identifiers) ==
  [resource |-> <<employees>>, tenant |-> tenant, identifiers |-> identifiers]

ThreeRows == {Row(<<acme>>, << <<x>>, <<y>> >>),
              Row(<<acme, x>>, << <<y>> >>),
              Row(<<globex>>, << <<x, y>> >>)}
================================================================================

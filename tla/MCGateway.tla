------------------------------- MODULE MCGateway -------------------------------
\* A small instance of Gateway: two tokens of two tenants.
EXTENDS Gateway

CONSTANTS alice, bob, acme, globex

Owner == (alice :> acme) @@ (bob :> globex)
================================================================================

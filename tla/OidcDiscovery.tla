---------------------------- MODULE OidcDiscovery ----------------------------
(***************************************************************************)
(* A Verifier whose discovery reads the provider's document with           *)
(* strictjson.DecodeReader: oidcverifier and strictjson together.  Only    *)
(* one Start ever discovers, so there is one document.                     *)
(***************************************************************************)
EXTENDS OidcVerifier, StrictJson

vars == <<verifierVars, jsonVars>>

TypeOK == VerifierTypeOK /\ JsonTypeOK

Init == VerifierInit /\ JsonInit

(* Discover's call of DecodeReader, and what Start makes of its return.    *)
Discovering(c) ==
    \/ StartDiscover(c) /\ UNCHANGED jsonVars
    \/ /\ start[c] = "decode"
       /\ DecodeBegin \/ JsonStep
       /\ UNCHANGED verifierVars
    \/ StartDecoded(c, phase = "ok") /\ DecodeReturned

Next ==
    \/ \E c \in Starts : Discovering(c)
    \/ /\ \/ \E c \in Starts : StartBegin(c) \/ StartPublish(c)
          \/ Stop
          \/ \E c \in Calls : VerifyStep(c)
          \/ Rotate
       /\ UNCHANGED jsonVars

Spec == Init /\ [][Next]_vars
=============================================================================

----------------------------- MODULE MCSession ------------------------------
(***************************************************************************)
(* Session for TLC.                                                        *)
(***************************************************************************)
EXTENDS Session

\* Failures, revocations and sleeps that may all be too short; and starts that
\* overlap.
SafetySettings ==
    {[overlap |-> FALSE, failures |-> TRUE, revoke |-> TRUE, prompt |-> FALSE],
     [overlap |-> TRUE, failures |-> FALSE, revoke |-> FALSE, prompt |-> TRUE]}

\* Failures, and sleeps that are long enough.
LiveSettings ==
    {[overlap |-> FALSE, failures |-> TRUE, revoke |-> FALSE, prompt |-> TRUE]}
=============================================================================

---------------------------- MODULE MCAMISession ----------------------------
(* Instances of AMISession for TLC. *)
EXTENDS AMISession

(* AMITransport.observe and software_versions; AMITransport.dispatch. *)
MCPlans == {<<"Login", "Read", "Read">>, <<"Login", "Control">>}

=============================================================================

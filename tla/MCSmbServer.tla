---------------------------- MODULE MCSmbServer ----------------------------
(***************************************************************************)
(* Instances of SmbServer for TLC.                                         *)
(***************************************************************************)
EXTENDS SmbServer

OneAccount == [u \in {"alice"} |-> "right"]
RightAndWrong == {"right", "wrong"}
Bounds(a, mids, pieces) == [requireAuth |-> a, sign |-> TRUE, mids |-> mids, pieces |-> pieces]

\* One login and a long print job, or several logins and sessions and a short
\* one.
TheConfigs == {Bounds(TRUE, 3, 3), Bounds(FALSE, 4, 1), Bounds(TRUE, 5, 1)}
OneLogin == {Bounds(TRUE, 3, 1)}
TheOffers == {[dialects |-> {"2.1", "3.1.1"}, ciphers |-> {"ccm", "gcm"}],
              [dialects |-> {"1.0"}, ciphers |-> {}]}
=============================================================================

------------------------------ MODULE MCDoorbell ------------------------------
(***************************************************************************)
(* The doorbell for TLC.  The configurations give the bounds; what is      *)
(* added here is what the comment of connectWebSocket promises and the     *)
(* code does not keep.                                                     *)
(***************************************************************************)
EXTENDS Doorbell

\* "Rejects with WsError (status set for HTTP rejections) on any failure": a
\* handshake is settled one way or the other, and the loop goes on.
HandshakeSettles == pc = "connect" ~> pc # "connect"
=============================================================================

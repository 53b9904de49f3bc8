---------------------------- MODULE MCEddjsonClient ----------------------------
(***************************************************************************)
(* Small instances of EddjsonClient for TLC.                               *)
(***************************************************************************)
EXTENDS EddjsonClient, TLC

MCPayload    == {"empty", "a", "b", "big"}
MCPayloadLen == [p \in MCPayload |->
                   CASE p = "empty" -> 0 [] p = "big" -> 5 [] OTHER -> 1]

Fr(op, fin, ext, masked, payload) ==
  [op |-> op, fin |-> fin, ext |-> ext, masked |-> masked, payload |-> payload]

\* Messages whole and in fragments, with a control frame between them.
MCPlainFrames ==
  { Fr("text", TRUE, 4, FALSE, "a"),   Fr("text", FALSE, 2, FALSE, "b"),
    Fr("cont", TRUE, 2, FALSE, "a"),   Fr("cont", FALSE, 2, FALSE, "empty"),
    Fr("binary", FALSE, 2, FALSE, "a"), Fr("ping", TRUE, 2, TRUE, "empty") }
MCTimeFrames == {Fr("text", TRUE, 2, FALSE, "a"), Fr("ping", TRUE, 2, FALSE, "empty")}

\* Every way consume_frames refuses a frame, at the boundaries of its tests.
MCOddFrames ==
  { Fr("text", TRUE, 2, FALSE, "a"),   Fr("text", FALSE, 2, FALSE, "big"),
    Fr("cont", FALSE, 2, FALSE, "big"), Fr("binary", TRUE, 2, FALSE, "b"),
    Fr("ping", FALSE, 2, TRUE, "empty"), Fr("pong", TRUE, 2, FALSE, "a"),
    Fr("pong", TRUE, 2, FALSE, "big"),  Fr("close", TRUE, 2, FALSE, "a"),
    Fr("reserved", TRUE, 2, FALSE, "empty"), Fr("text", TRUE, 10, FALSE, "a") }

MCFrames == MCPlainFrames \cup MCOddFrames
===============================================================================

---------------------------- MODULE MCMessageStore ----------------------------
(* Two instances: two received messages, so that the backfill has more than *)
(* one page and rows on both sides of the watermark; and one own message,   *)
(* so that every writer is at work on the same index entry.                 *)
EXTENDS MessageStore

CONSTANTS m1, m2, t1, t2

PagesMsgs == {m1, m2}
PagesMine == {}
PagesTexts == {t1}

RacesMsgs == {m1}
RacesTexts == {t1, t2}

=============================================================================

----------------------------- MODULE MCRequests -----------------------------
(* Two chats, two requests at a time, every kind of stored message. *)
EXTENDS Requests

CONSTANTS t, u

MCTexts == {t, u}

File(k, c, e) == [kind |-> k, content |-> c, ext |-> e]

MCOldBodies ==
    {Text(t), Poll(<<"a", "b">>, 1)}
    \cup {[kind |-> "media", file |-> File("image", "image", "png"), link |-> l, once |-> l = "fresh"] :
            l \in {"fresh", "old"}}

MCFiles == {File("image", "other", "png"), File("audio", "frames", "mp3")}
MCForms == {<<"a", "blank", "b">>, <<"a", "A">>}
MCBallots == {{"a"}, {"a", "b"}}

=============================================================================

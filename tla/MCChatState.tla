----------------------------- MODULE MCChatState -----------------------------
(* One person with two ids, a lid and a phone number, and one message under *)
(* each of them.                                                            *)
EXTENDS ChatState

CONSTANTS lid, pn, m1, m2

MCChats == {lid, pn}
MCPhoneOf == [c \in {lid} |-> pn]
MCMsgs == {m1, m2}
OneChat == {pn}
NoLids == [c \in {} |-> pn]
AllPn == [m \in MCMsgs |-> pn]
OneMsg == {m1}
LidRaw == [m \in OneMsg |-> lid]
OneTs == [m \in OneMsg |-> 1]
MCTs == [m \in MCMsgs |-> IF m = m1 THEN 1 ELSE 2]

=============================================================================

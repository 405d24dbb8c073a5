--------------------------- MODULE TuiInputProofs ---------------------------
(* Proofs about what the user does in the TUI: the message box, for any     *)
(* number of chats, the panels over it, for any number of items, and the    *)
(* polls, for any number of options, rows and votes.                        *)
EXTENDS TuiComposer, TuiPanels, TuiPolls, ListsProofs

-----------------------------------------------------------------------------
(* The message box.                                                          *)

Composers ==
    [input : SUBSET Chats, buf : SUBSET Chats, reply : Chats \cup {NoChat},
     edit : Chats \cup {NoChat}, file : Chats \cup {NoChat}]

Posts ==
    [kind : {"text", "edit", "file", "delete", "react"}, chat : Chats,
     text : SUBSET Chats, of : Chats]

\* Everything in ComposerTypeOK but the composer and the request under way.
Fields ==
    /\ active \in Chats \cup {NoChat}
    /\ mode \in {"nav", "search", "msgsearch", "chat"}
    /\ mode = "chat" => active # NoChat
    /\ over \in {"none", "box", "emoji", "files"}
    /\ focused \in BOOLEAN /\ armed \in BOOLEAN /\ pasting \in BOOLEAN
    /\ allowed \subseteq Chats /\ unsent \subseteq Chats
    /\ timers \subseteq {"current", "stale"}
    /\ pick \in {"none", "reply", "edit"}
    /\ {react, clip} \subseteq Chats \cup {NoChat}

TextOf(cm) == cm.input \cup cm.buf

\* The text in the box is that of the open chat, and a draft that of its own.
OwnText ==
    /\ active # NoChat => Text \subseteq {active}
    /\ \A c \in Chats : drafts[c] \subseteq {c}

\* What goes out as a message has a text, and all of it is its chat's.
PostInv ==
    /\ TextStaysInItsChat
    /\ post # NoPost => (post.kind = "text" => post.text = {post.chat})

\* The emoji list is open over a chat, and nothing is while a paste comes in.
OverInv ==
    /\ over = "emoji" => active # NoChat
    /\ pasting => over = "none"

ComposerInv == ComposerTypeOK /\ OwnText /\ DraftsKept /\ PostInv /\ OverInv

LEMMA MergeIs ==
    ASSUME NEW cm \in Composers
    PROVE  MergeBuf(cm) \in Composers /\ TextOf(MergeBuf(cm)) = TextOf(cm)
  BY DEF Composers, MergeBuf, TextOf

LEMMA ClearIs ==
    ASSUME NEW cm \in Composers
    PROVE  ClearText(cm) \in Composers /\ TextOf(ClearText(cm)) = {}
  BY DEF Composers, ClearText, TextOf

LEMMA NoReplyIs ==
    ASSUME NEW cm \in Composers, NEW c \in Chats \cup {NoChat}
    PROVE  /\ [cm EXCEPT !.reply = c] \in Composers
           /\ TextOf([cm EXCEPT !.reply = c]) = TextOf(cm)
  BY DEF Composers, TextOf

LEMMA EditIs ==
    ASSUME NEW cm \in Composers, NEW c \in Chats \cup {NoChat}
    PROVE  /\ [cm EXCEPT !.edit = c] \in Composers
           /\ TextOf([cm EXCEPT !.edit = c]) = TextOf(cm)
  BY DEF Composers, TextOf

LEMMA FileIs ==
    ASSUME NEW cm \in Composers, NEW c \in Chats \cup {NoChat}
    PROVE  /\ [cm EXCEPT !.file = c] \in Composers
           /\ TextOf([cm EXCEPT !.file = c]) = TextOf(cm)
  BY DEF Composers, TextOf

LEMMA ReplyFileIs ==
    ASSUME NEW cm \in Composers, NEW c \in Chats \cup {NoChat}, NEW d \in Chats \cup {NoChat}
    PROVE  /\ [cm EXCEPT !.reply = d, !.file = c] \in Composers
           /\ [cm EXCEPT !.file = c, !.reply = d] \in Composers
           /\ TextOf([cm EXCEPT !.reply = d, !.file = c]) = TextOf(cm)
           /\ TextOf([cm EXCEPT !.file = c, !.reply = d]) = TextOf(cm)
  BY DEF Composers, TextOf

LEMMA ClearComposerIs ==
    ASSUME NEW cm \in Composers
    PROVE  ClearComposer(cm) \in Composers /\ TextOf(ClearComposer(cm)) = {}
<1>1. ClearText(cm) \in Composers /\ TextOf(ClearText(cm)) = {}
  BY ClearIs
<1> QED BY <1>1, ReplyFileIs DEF ClearComposer

LEMMA InputIs ==
    ASSUME NEW cm \in Composers, NEW v \in SUBSET Chats
    PROVE  /\ [cm EXCEPT !.input = v] \in Composers
           /\ TextOf([cm EXCEPT !.input = v]) = v \cup cm.buf
           /\ [cm EXCEPT !.input = v].edit = cm.edit
           /\ [cm EXCEPT !.input = v].file = cm.file
           /\ [cm EXCEPT !.input = v].input = v
  BY DEF Composers, TextOf

LEMMA BufIs ==
    ASSUME NEW cm \in Composers, NEW v \in SUBSET Chats
    PROVE  /\ [cm EXCEPT !.buf = v] \in Composers
           /\ TextOf([cm EXCEPT !.buf = v]) = cm.input \cup v
  BY DEF Composers, TextOf

LEMMA RestoreIs ==
    ASSUME comp \in Composers, NEW kept \in [Chats -> SUBSET Chats], NEW c \in Chats
    PROVE  RestoreDraft(c, kept) \in Composers /\ TextOf(RestoreDraft(c, kept)) = kept[c]
<1>1. kept[c] \in SUBSET Chats
  OBVIOUS
<1>2. [comp EXCEPT !.input = kept[c]] \in Composers
  BY <1>1, InputIs
<1>3. RestoreDraft(c, kept) = [[comp EXCEPT !.input = kept[c]] EXCEPT !.buf = {}]
  BY <1>2 DEF RestoreDraft, Composers
<1>4. PICK cm \in Composers : cm = [comp EXCEPT !.input = kept[c]]
  BY <1>2
<1>5. cm.input = kept[c]
  BY <1>1, <1>4, InputIs
<1>6. RestoreDraft(c, kept) = [cm EXCEPT !.buf = {}]
  BY <1>3, <1>4
<1>7. [cm EXCEPT !.buf = {}] \in Composers /\ TextOf([cm EXCEPT !.buf = {}]) = cm.input \cup {}
  BY BufIs
<1>8. cm.input \cup {} = cm.input
  OBVIOUS
<1> QED BY <1>5, <1>6, <1>7, <1>8

LEMMA SaveIs ==
    ASSUME ComposerInv
    PROVE  /\ SaveDraft \in [Chats -> SUBSET Chats]
           /\ \A c \in Chats : SaveDraft[c] = IF c = active THEN Text ELSE drafts[c]
  BY ComposerAssumption DEF ComposerInv, ComposerTypeOK, SaveDraft, Text

LEMMA Parts ==
    ASSUME ComposerInv
    PROVE  /\ Fields
           /\ comp \in Composers
           /\ drafts \in [Chats -> SUBSET Chats]
           /\ post = NoPost \/ post \in Posts
           /\ Text = TextOf(comp) /\ Text \subseteq Chats
  BY DEF ComposerInv, ComposerTypeOK, Fields, Composers, Posts, Text, TextOf

LEMMA Whole ==
    ASSUME Fields', comp' \in Composers, drafts' \in [Chats -> SUBSET Chats],
           post' = NoPost \/ post' \in Posts,
           OwnText', DraftsKept', PostInv', OverInv'
    PROVE  ComposerInv'
  BY DEF ComposerInv, ComposerTypeOK, Fields, Composers, Posts

\* The chat that is open and the drafts stay; what of the text in the box is
\* not accounted for was unsent before.
LEMMA TextIsKept ==
    ASSUME ComposerInv, active' = active, drafts' = drafts,
           active # NoChat => TextOf(comp') \subseteq {active},
           unsent' \subseteq unsent \cup {active},
           active # NoChat /\ active \in unsent' => active \in TextOf(comp'),
           unsent' \subseteq Chats
    PROVE  OwnText' /\ DraftsKept'
<1>1. Text' = TextOf(comp')
  BY DEF Text, TextOf
<1>2. OwnText'
  BY <1>1 DEF ComposerInv, OwnText
<1>3. DraftsKept'
  BY <1>1, ComposerAssumption DEF ComposerInv, DraftsKept
<1> QED BY <1>2, <1>3

LEMMA SameText ==
    ASSUME ComposerInv, TextOf(comp') = TextOf(comp),
           active' = active, drafts' = drafts, unsent' = unsent
    PROVE  OwnText' /\ DraftsKept'
<1>1. Text = TextOf(comp) /\ unsent \subseteq Chats
  BY Parts DEF Fields
<1> QED BY <1>1, TextIsKept, ComposerAssumption DEF ComposerInv, OwnText, DraftsKept

\* What is in the box goes, and with it what was unsent.
LEMMA TextGoes ==
    ASSUME ComposerInv, TextOf(comp') \subseteq TextOf(comp),
           active' = active, drafts' = drafts, unsent' = unsent \ {active}
    PROVE  OwnText' /\ DraftsKept'
<1>1. Text = TextOf(comp) /\ unsent \subseteq Chats
  BY Parts DEF Fields
<1> QED BY <1>1, TextIsKept DEF ComposerInv, OwnText

LEMMA SamePost ==
    ASSUME ComposerInv, post' = post
    PROVE  PostInv' /\ (post' = NoPost \/ post' \in Posts)
  BY Parts DEF ComposerInv, PostInv, TextStaysInItsChat

LEMMA NewPost ==
    ASSUME ComposerInv, NEW kind \in {"text", "edit", "file", "delete", "react"},
           NEW c \in Chats, NEW text \in SUBSET {c}, NEW of \in Chats,
           kind = "text" => text # {},
           post' = [kind |-> kind, chat |-> c, text |-> text, of |-> of]
    PROVE  PostInv' /\ post' \in Posts
<1>1. post' \in Posts
  BY DEF Posts
<1>2. post'.kind = kind /\ post'.chat = c /\ post'.text = text
  OBVIOUS
<1>3. kind = "text" => text = {c}
  OBVIOUS
<1> QED BY <1>1, <1>2, <1>3 DEF PostInv, TextStaysInItsChat

\* Choosing a chat.  The text of the chat that is left becomes its draft, and
\* the draft of the other becomes the text.
LEMMA Switched ==
    ASSUME ComposerInv, NEW c \in Chats, c # active, active' = c,
           drafts' = SaveDraft, TextOf(comp') = SaveDraft[c], unsent' = unsent
    PROVE  OwnText' /\ DraftsKept'
<1>1. Text' = drafts[c]
  BY SaveIs, Parts DEF Text, TextOf
<1>2. \A d \in Chats : drafts'[d] = IF d = active THEN Text ELSE drafts[d]
  BY SaveIs
<1>3. unsent \subseteq Chats
  BY Parts DEF Fields
<1>4. OwnText'
  BY <1>1, <1>2, ComposerAssumption DEF ComposerInv, OwnText
<1>5. DraftsKept'
  BY <1>1, <1>2, <1>3 DEF ComposerInv, DraftsKept
<1> QED BY <1>4, <1>5

LEMMA OpensChat ==
    ASSUME ComposerInv, NEW c \in Chats \cup {NoChat}, OpenSelectedChat(c)
    PROVE  /\ comp' \in Composers /\ drafts' \in [Chats -> SUBSET Chats]
           /\ OwnText' /\ DraftsKept'
           /\ active' \in Chats \cup {NoChat} /\ unsent' \subseteq unsent
           /\ \/ mode' = mode /\ active' = active
              \/ mode' = "chat" /\ active' # NoChat
           /\ over' = over \/ over' = "none"
           /\ pick' = pick \/ pick' = "none"
<1> USE ComposerAssumption
<1>1. CASE c = NoChat
  <2>1. UNCHANGED <<active, mode, over, comp, drafts, pick, unsent>>
    BY <1>1 DEF OpenSelectedChat
  <2>2. OwnText' /\ DraftsKept'
    BY <2>1, SameText
  <2> QED BY <2>1, <2>2, Parts DEF Fields
<1>2. CASE c # NoChat
  <2>1. active' = c /\ mode' = "chat" /\ c \in Chats
    BY <1>2 DEF OpenSelectedChat
  <2>2. CASE c = active
    <3>1. drafts' = drafts
      BY <1>2, <2>2 DEF OpenSelectedChat
    <3>2. CASE c \in allowed
      BY <1>2, <2>1, <2>2, <3>1, <3>2, Parts, SameText DEF OpenSelectedChat, Fields
    <3>3. CASE c \notin allowed
      <4>1. comp' = ClearComposer(comp) /\ LeaveEmoji /\ LeaveReplyPick /\ unsent' = unsent \ {c}
        BY <1>2, <2>2, <3>3 DEF OpenSelectedChat
      <4>2. comp' \in Composers /\ TextOf(comp') = {}
        BY <4>1, Parts, ClearComposerIs
      <4>3. OwnText' /\ DraftsKept'
        BY <2>1, <2>2, <3>1, <4>1, <4>2, TextGoes
      <4> QED BY <2>1, <3>1, <4>1, <4>2, <4>3, Parts DEF LeaveEmoji, LeaveReplyPick, Fields
    <3> QED BY <3>2, <3>3
  <2>3. CASE c # active
    <3>1. drafts' = SaveDraft /\ SaveDraft \in [Chats -> SUBSET Chats]
      BY <1>2, <2>3, SaveIs DEF OpenSelectedChat
    <3>2. PICK cm \in Composers : cm = RestoreDraft(c, SaveDraft) /\ TextOf(cm) = SaveDraft[c]
      BY <2>1, <3>1, Parts, RestoreIs
    <3>3. CASE c \in allowed
      <4>1. comp' = cm /\ UNCHANGED <<over, pick, unsent>>
        BY <1>2, <2>3, <3>2, <3>3 DEF OpenSelectedChat
      <4> QED BY <2>1, <2>3, <3>1, <3>2, <4>1, Switched, Parts DEF Fields
    <3>4. CASE c \notin allowed
      <4>1. comp' = ClearComposer(cm) /\ LeaveEmoji /\ LeaveReplyPick /\ unsent' = unsent \ {c}
        BY <1>2, <2>3, <3>2, <3>4 DEF OpenSelectedChat
      <4>2. comp' \in Composers /\ TextOf(comp') = {} /\ Text' = {}
        BY <4>1, ClearComposerIs DEF Text, TextOf
      <4>3. \A d \in Chats : drafts'[d] = IF d = active THEN Text ELSE drafts[d]
        BY <3>1, SaveIs
      <4>4. OwnText'
        BY <4>2, <4>3 DEF ComposerInv, OwnText
      <4>5. DraftsKept'
        BY <2>1, <4>1, <4>3, Parts DEF ComposerInv, DraftsKept, Fields
      <4> QED BY <2>1, <3>1, <4>1, <4>2, <4>4, <4>5, Parts DEF LeaveEmoji, LeaveReplyPick, Fields
    <3> QED BY <3>3, <3>4
  <2> QED BY <2>2, <2>3
<1> QED BY <1>1, <1>2

LEMMA SideOpenKeeps ==
    ASSUME ComposerInv, SideOpen  PROVE ComposerInv'
<1>1. PICK c \in Chats \cup {NoChat} : OpenSelectedChat(c)
  BY DEF SideOpen
<1>2. /\ over = "none" /\ ~pasting /\ focused' = FALSE
      /\ UNCHANGED <<allowed, armed, timers, react, clip, post, pasting>>
  BY DEF SideOpen, sends, NoKeysFromPaste
<1>3. Fields' /\ OverInv'
  BY <1>1, <1>2, OpensChat, Parts DEF Fields, OverInv
<1>4. PostInv' /\ (post' = NoPost \/ post' \in Posts)
  BY <1>2, SamePost
<1> QED BY <1>1, <1>3, <1>4, OpensChat, Whole

LEMMA StepToChatKeeps ==
    ASSUME ComposerInv, StepToChat  PROVE ComposerInv'
<1>1. PICK c \in Chats \cup {NoChat} : OpenSelectedChat(c)
  BY DEF StepToChat
<1>2. /\ over = "none" /\ ~pasting /\ armed' = FALSE /\ focused' \in BOOLEAN
      /\ UNCHANGED <<allowed, timers, react, clip, post, pasting>>
  BY DEF StepToChat, BoxHasKeys, InChat
<1>3. Fields' /\ OverInv'
  BY <1>1, <1>2, OpensChat, Parts DEF Fields, OverInv
<1>4. PostInv' /\ (post' = NoPost \/ post' \in Posts)
  BY <1>2, SamePost
<1> QED BY <1>1, <1>3, <1>4, OpensChat, Whole

LEMMA JumpToHitKeeps ==
    ASSUME ComposerInv, JumpToHit  PROVE ComposerInv'
<1> USE ComposerAssumption
<1>1. PICK c \in Chats :
        /\ drafts' = IF c = active THEN drafts ELSE SaveDraft
        /\ active' = c
        /\ comp' = IF c = active THEN comp ELSE RestoreDraft(c, IF c = active THEN drafts ELSE SaveDraft)
  BY DEF JumpToHit
<1>2. /\ over = "none" /\ ~pasting /\ mode' = "chat" /\ focused' = FALSE
      /\ UNCHANGED <<over, allowed, armed, timers, pick, react, clip, post, pasting, unsent>>
  BY DEF JumpToHit, NoKeysFromPaste, sends, picking, ghosts
<1>3. Fields' /\ OverInv'
  BY <1>1, <1>2, Parts DEF Fields, OverInv
<1>4. /\ comp' \in Composers /\ drafts' \in [Chats -> SUBSET Chats]
      /\ OwnText' /\ DraftsKept'
  <2>1. CASE c = active
    BY <1>1, <1>2, <2>1, Parts, SameText
  <2>2. CASE c # active
    <3>1. drafts' = SaveDraft /\ SaveDraft \in [Chats -> SUBSET Chats] /\ comp' = RestoreDraft(c, SaveDraft)
      BY <1>1, <2>2, SaveIs
    <3>2. comp' \in Composers /\ TextOf(comp') = SaveDraft[c]
      BY <3>1, Parts, RestoreIs
    <3> QED BY <1>1, <1>2, <2>2, <3>1, <3>2, Switched
  <2> QED BY <2>1, <2>2
<1>5. PostInv' /\ (post' = NoPost \/ post' \in Posts)
  BY <1>2, SamePost
<1> QED BY <1>3, <1>4, <1>5, Whole

\* A step that leaves the text, the drafts and the request alone.
LEMMA Quiet ==
    ASSUME ComposerInv, comp' \in Composers, TextOf(comp') = TextOf(comp),
           UNCHANGED <<active, drafts, unsent, post>>, Fields', OverInv'
    PROVE  ComposerInv'
<1>1. OwnText' /\ DraftsKept' /\ drafts' \in [Chats -> SUBSET Chats]
  BY SameText, Parts
<1> QED BY <1>1, SamePost, Whole

LEMMA KeysKeep ==
    ASSUME ComposerInv, StartSearch \/ LeaveSearch \/ ShowChats \/ PasteEnds
                        \/ CloseFileBrowser \/ PasteFromClipboard \/ OpenCommandBox
                        \/ StartPick \/ PickEnds \/ CloseEmojiPicker \/ WhitelistLoaded
    PROVE  ComposerInv'
<1> USE DEF place, openChat, sends, picking, ghosts, NoKeysFromPaste
<1>0. Fields /\ OverInv /\ comp \in Composers
  BY Parts DEF ComposerInv
<1>1. comp' = comp /\ UNCHANGED <<active, drafts, unsent, post>>
  BY DEF StartSearch, LeaveSearch, ShowChats, PasteEnds, CloseFileBrowser, PasteFromClipboard,
         OpenCommandBox, StartPick, PickEnds, CloseEmojiPicker, WhitelistLoaded
<1>2. Fields' /\ OverInv'
  <2> USE ComposerAssumption DEF Fields, OverInv, InChat
  <2>1. CASE StartSearch  BY <1>0, <2>1 DEF StartSearch, LeaveCommandBox
  <2>2. CASE LeaveSearch  BY <1>0, <2>2 DEF LeaveSearch
  <2>3. CASE ShowChats  BY <1>0, <2>3 DEF ShowChats, LeaveCommandBox, LeaveReplyPick
  <2>4. CASE PasteEnds  BY <1>0, <2>4 DEF PasteEnds
  <2>5. CASE CloseFileBrowser  BY <1>0, <2>5 DEF CloseFileBrowser
  <2>6. CASE PasteFromClipboard  BY <1>0, <2>6 DEF PasteFromClipboard
  <2>7. CASE OpenCommandBox  BY <1>0, <2>7 DEF OpenCommandBox
  <2>8. CASE StartPick  BY <1>0, <2>8 DEF StartPick
  <2>9. CASE PickEnds  BY <1>0, <2>9 DEF PickEnds
  <2>10. CASE CloseEmojiPicker  BY <1>0, <2>10 DEF CloseEmojiPicker
  <2>11. CASE WhitelistLoaded  BY <1>0, <2>11 DEF WhitelistLoaded
  <2> QED BY <2>1, <2>2, <2>3, <2>4, <2>5, <2>6, <2>7, <2>8, <2>9, <2>10, <2>11
<1> QED BY <1>0, <1>1, <1>2, Quiet

\* A step that gives up the text of the open chat.
LEMMA GivesUp ==
    ASSUME ComposerInv, comp' \in Composers, TextOf(comp') \subseteq TextOf(comp),
           UNCHANGED <<active, drafts, post>>, unsent' = unsent \ {active}, Fields', OverInv'
    PROVE  ComposerInv'
<1>1. OwnText' /\ DraftsKept' /\ drafts' \in [Chats -> SUBSET Chats]
  BY TextGoes, Parts
<1> QED BY <1>1, SamePost, Whole

\* A key that types in the open chat.
LEMMA Types ==
    ASSUME ComposerInv, active # NoChat, comp' \in Composers,
           TextOf(comp') = TextOf(comp) \cup {active},
           UNCHANGED <<active, drafts, post>>, unsent' = unsent \cup {active}, Fields', OverInv'
    PROVE  ComposerInv'
<1>1. Text = TextOf(comp) /\ unsent' \subseteq Chats
  BY Parts DEF Fields
<1>2. OwnText' /\ DraftsKept' /\ drafts' \in [Chats -> SUBSET Chats]
  BY <1>1, TextIsKept, Parts DEF ComposerInv, OwnText
<1> QED BY <1>2, SamePost, Whole

LEMMA TypeTextKeeps ==
    ASSUME ComposerInv, TypeText  PROVE ComposerInv'
<1> USE DEF place, openChat, picking
<1>1. active # NoChat /\ active \in Chats /\ over = "none" /\ comp.buf \subseteq Chats
  BY Parts DEF TypeText, Fields, Composers
<1>2. PICK cm \in Composers :
        /\ TextOf(cm) = TextOf(comp) /\ cm.buf \subseteq Chats
        /\ comp' = [cm EXCEPT !.buf = @ \cup {active}]
  BY Parts, MergeIs DEF TypeText, Composers
<1>3. PICK b \in SUBSET Chats : b = cm.buf \cup {active}
  BY <1>1, <1>2
<1>4. comp' = [cm EXCEPT !.buf = b]
  BY <1>2, <1>3 DEF Composers
<1>5. comp' \in Composers /\ TextOf(comp') = cm.input \cup b
  BY <1>4, BufIs
<1>6. TextOf(comp') = TextOf(comp) \cup {active}
  BY <1>2, <1>3, <1>5 DEF TextOf
<1>7. Fields' /\ OverInv'
  BY <1>1, Parts DEF TypeText, Fields, OverInv
<1>8. UNCHANGED <<active, drafts, post>> /\ unsent' = unsent \cup {active}
  BY DEF TypeText
<1> QED BY <1>1, <1>5, <1>6, <1>7, <1>8, Types

LEMMA MergeKeeps ==
    ASSUME ComposerInv, FlushInput \/ DeferComposerSend \/ LineBreak \/ TabFocus \/ OpenFileBrowser
                        \/ OpenEmojiPicker
    PROVE  ComposerInv'
<1> USE DEF place, openChat, sends, picking, ghosts
<1>1. Fields /\ OverInv /\ comp \in Composers
  BY Parts DEF ComposerInv
<1>2. comp' = comp \/ comp' = MergeBuf(comp)
  BY DEF FlushInput, DeferComposerSend, LineBreak, TabFocus, OpenFileBrowser, OpenEmojiPicker
<1>3. comp' \in Composers /\ TextOf(comp') = TextOf(comp)
  BY <1>1, <1>2, MergeIs
<1>4. UNCHANGED <<active, drafts, unsent, post>>
  BY DEF FlushInput, DeferComposerSend, LineBreak, TabFocus, OpenFileBrowser, OpenEmojiPicker
<1>5. Fields' /\ OverInv'
  <2> USE DEF Fields, OverInv, InChat, BoxHasKeys, TypesInBox
  <2>1. CASE FlushInput  BY <1>1, <2>1 DEF FlushInput
  <2>2. CASE DeferComposerSend
    <3>1. armed' \in BOOLEAN /\ timers' \subseteq {"current", "stale"}
      BY <1>1, <2>2 DEF DeferComposerSend
    <3> QED BY <1>1, <2>2, <3>1 DEF DeferComposerSend
  <2>3. CASE LineBreak  BY <1>1, <2>3 DEF LineBreak
  <2>4. CASE TabFocus
    <3>1. focused' \in BOOLEAN
      BY <1>1, <2>4 DEF TabFocus
    <3> QED BY <1>1, <2>4, <3>1 DEF TabFocus
  <2>5. CASE OpenFileBrowser  BY <1>1, <2>5 DEF OpenFileBrowser
  <2>6. CASE OpenEmojiPicker  BY <1>1, <2>6 DEF OpenEmojiPicker
  <2> QED BY <2>1, <2>2, <2>3, <2>4, <2>5, <2>6
<1> QED BY <1>3, <1>4, <1>5, Quiet

LEMMA BackspaceKeeps ==
    ASSUME ComposerInv, Backspace  PROVE ComposerInv'
<1> USE DEF place, openChat, picking
<1>1. Fields /\ OverInv /\ comp \in Composers
  BY Parts DEF ComposerInv
<1>2. Fields' /\ OverInv'
  BY <1>1 DEF Backspace, TypesInBox, BoxHasKeys, InChat, Fields, OverInv
<1>3. UNCHANGED <<active, drafts, post>>
  BY DEF Backspace
<1>4. CASE comp' = MergeBuf(comp) /\ UNCHANGED unsent
  BY <1>1, <1>2, <1>3, <1>4, MergeIs, Quiet
<1>5. CASE comp' = ClearText(comp) /\ unsent' = unsent \ {active}
  <2>1. comp' \in Composers /\ TextOf(comp') \subseteq TextOf(comp)
    BY <1>1, <1>5, ClearIs
  <2> QED BY <1>2, <1>3, <1>5, <2>1, GivesUp
<1> QED BY <1>4, <1>5 DEF Backspace

LEMMA EscapeChatKeeps ==
    ASSUME ComposerInv, EscapeChat  PROVE ComposerInv'
<1> USE ComposerAssumption
<1>1. Fields /\ OverInv /\ comp \in Composers /\ active \in Chats
  BY Parts DEF ComposerInv, EscapeChat, BoxHasKeys, InChat, Fields
<1>2. /\ over = "none" /\ ~pasting /\ armed' = FALSE
      /\ UNCHANGED <<over, allowed, timers, pick, react, clip, post, pasting>>
  BY DEF EscapeChat, BoxHasKeys, InChat, picking
<1>3. CASE /\ comp' = [ClearText(comp) EXCEPT !.edit = NoChat]
           /\ unsent' = unsent \ {active}
           /\ UNCHANGED <<active, mode, focused, drafts>>
  <2>1. comp' \in Composers /\ TextOf(comp') \subseteq TextOf(comp)
    BY <1>1, <1>3, ClearIs, EditIs
  <2>2. Fields' /\ OverInv'
    BY <1>1, <1>2, <1>3 DEF Fields, OverInv
  <2> QED BY <1>2, <1>3, <2>1, <2>2, GivesUp
<1>4. CASE /\ comp' = comp \/ comp' = [comp EXCEPT !.file = NoChat] \/ comp' = [comp EXCEPT !.reply = NoChat]
           /\ focused' \in BOOLEAN /\ UNCHANGED <<active, mode, drafts, unsent>>
  <2>1. comp' \in Composers /\ TextOf(comp') = TextOf(comp)
    BY <1>1, <1>4, FileIs, NoReplyIs
  <2>2. Fields' /\ OverInv'
    BY <1>1, <1>2, <1>4 DEF Fields, OverInv
  <2> QED BY <1>2, <1>4, <2>1, <2>2, Quiet
<1>5. CASE /\ comp' = [comp EXCEPT !.input = {}]
           /\ unsent' = unsent \ (comp.input \ comp.buf)
           /\ UNCHANGED <<active, mode, focused, drafts>>
  <2>1. comp' \in Composers /\ TextOf(comp') = comp.buf
    <3>1. comp' \in Composers /\ TextOf(comp') = {} \cup comp.buf
      BY <1>1, <1>5, InputIs
    <3> QED BY <3>1
  <2>2. Fields' /\ OverInv'
    BY <1>1, <1>2, <1>5 DEF Fields, OverInv
  <2>3. Text = comp.input \cup comp.buf /\ unsent' \subseteq Chats
    BY <1>1, <1>5 DEF Text, Fields
  <2>4. OwnText' /\ DraftsKept' /\ drafts' \in [Chats -> SUBSET Chats]
    <3>1. TextOf(comp') \subseteq {active}
      BY <1>1, <2>1, <2>3 DEF ComposerInv, OwnText
    <3>2. active \in unsent' => active \in TextOf(comp')
      BY <1>1, <1>5, <2>1, <2>3 DEF ComposerInv, DraftsKept
    <3>3. unsent' \subseteq unsent
      BY <1>5
    <3> QED BY <1>5, <2>3, <3>1, <3>2, <3>3, TextIsKept, Parts
  <2> QED BY <1>2, <2>1, <2>2, <2>4, SamePost, Whole
<1>6. CASE /\ drafts' = SaveDraft /\ active' = NoChat /\ mode' = "nav"
           /\ UNCHANGED <<focused, comp, unsent>>
  <2>1. Fields' /\ OverInv'
    BY <1>1, <1>2, <1>6 DEF Fields, OverInv
  <2>2. /\ drafts' \in [Chats -> SUBSET Chats]
        /\ \A c \in Chats : drafts'[c] = IF c = active THEN Text ELSE drafts[c]
    BY <1>6, SaveIs
  <2>3. OwnText'
    BY <1>1, <1>6, <2>2 DEF ComposerInv, OwnText
  <2>4. DraftsKept'
    BY <1>1, <1>6, <2>2 DEF ComposerInv, DraftsKept, Fields
  <2> QED BY <1>1, <1>2, <1>6, <2>1, <2>2, <2>3, <2>4, SamePost, Whole
<1> QED BY <1>1, <1>3, <1>4, <1>5, <1>6 DEF EscapeChat, Fields

\* The commands of a chat, for a composer whose text is all in the box or gone.
LEMMA CommandKeeps ==
    ASSUME ComposerInv, NEW cm \in Composers, active \in Chats, Fields,
           \/ cm = comp
           \/ cm.input # comp.input /\ TextOf(cm) \subseteq TextOf(comp),
           Blacklist(cm) \/ Whitelist(cm) \/ SendByPath(cm),
           drafts' = drafts, active' = active
    PROVE  /\ comp' \in Composers /\ drafts' \in [Chats -> SUBSET Chats]
           /\ OwnText' /\ DraftsKept' /\ PostInv'
           /\ post' = NoPost \/ post' \in Posts
           /\ allowed' \subseteq Chats /\ unsent' \subseteq Chats
           /\ pick' \in {"none", "reply", "edit"}
<1> USE ComposerAssumption
<1>1. drafts' \in [Chats -> SUBSET Chats]
  BY Parts
<1>2. CASE Blacklist(cm)
  <2>1. /\ comp' = ClearComposer(cm) /\ LeaveReplyPick /\ unsent' = unsent \ {active}
        /\ allowed' = allowed \ {active} /\ post' = post
    BY <1>2 DEF Blacklist
  <2>2. comp' \in Composers /\ TextOf(comp') = {}
    BY <2>1, ClearComposerIs
  <2>3. OwnText' /\ DraftsKept'
    BY <2>1, <2>2, TextGoes
  <2> QED BY <1>1, <2>1, <2>2, <2>3, SamePost DEF Fields, LeaveReplyPick
<1>3. ASSUME TextOf(comp') = TextOf(cm), Consumed(cm)
      PROVE  OwnText' /\ DraftsKept' /\ unsent' \subseteq Chats
  <2>1. CASE cm = comp
    <3>1. unsent' = unsent
      BY <1>3, <2>1 DEF Consumed
    <3> QED BY <1>3, <2>1, <3>1, SameText DEF Fields
  <2>2. CASE cm.input # comp.input /\ TextOf(cm) \subseteq TextOf(comp)
    <3>1. unsent' = unsent \ {active}
      BY <1>3, <2>2 DEF Consumed
    <3> QED BY <1>3, <2>2, <3>1, TextGoes DEF Fields
  <2> QED BY <2>1, <2>2
<1>4. CASE Whitelist(cm)
  <2>1. /\ comp' = cm /\ Consumed(cm) /\ allowed' = allowed \cup {active}
        /\ pick' = pick /\ post' = post
    BY <1>4 DEF Whitelist
  <2> QED BY <1>1, <1>3, <2>1, SamePost DEF Fields
<1>5. CASE SendByPath(cm)
  <2>1. /\ comp' = [cm EXCEPT !.reply = NoChat] /\ Consumed(cm)
        /\ UNCHANGED <<allowed, pick>>
        /\ post' = [kind |-> "file", chat |-> active, text |-> {}, of |-> active]
    BY <1>5 DEF SendByPath, Post
  <2>2. comp' \in Composers /\ TextOf(comp') = TextOf(cm)
    BY <2>1, NoReplyIs
  <2>3. PostInv' /\ post' \in Posts
    BY <2>1, NewPost
  <2> QED BY <1>1, <1>3, <2>1, <2>2, <2>3 DEF Fields
<1> QED BY <1>2, <1>4, <1>5

LEMMA SendKeeps ==
    ASSUME ComposerInv, active \in Chats, ComposerSend, Fields, drafts' = drafts, active' = active
    PROVE  /\ comp' \in Composers /\ drafts' \in [Chats -> SUBSET Chats]
           /\ OwnText' /\ DraftsKept' /\ PostInv'
           /\ post' = NoPost \/ post' \in Posts
           /\ allowed' \subseteq Chats /\ unsent' \subseteq Chats
           /\ pick' \in {"none", "reply", "edit"}
<1> USE ComposerAssumption
<1>1. comp \in Composers /\ drafts' \in [Chats -> SUBSET Chats]
  BY Parts
<1>2. PICK cm \in Composers :
        /\ cm = [comp EXCEPT !.input = {}] /\ cm.input = {}
        /\ TextOf(cm) = {} \cup comp.buf
  BY <1>1, InputIs
<1>3. TextOf(cm) \subseteq TextOf(comp)
  BY <1>2 DEF TextOf
<1>4. comp.input \subseteq {active} /\ comp.edit \in Chats \cup {NoChat} /\ comp.file \in Chats \cup {NoChat}
      /\ comp.reply \in Chats \cup {NoChat}
  BY <1>1 DEF ComposerInv, OwnText, Text, Composers
<1>5. CASE /\ comp.edit # NoChat
           /\ comp' = [cm EXCEPT !.edit = NoChat]
           /\ unsent' = unsent \ {active}
           /\ IF comp.input = {} THEN UNCHANGED post ELSE Post("edit", comp.input, comp.edit)
           /\ UNCHANGED <<allowed, pick>>
  <2>1. comp' \in Composers /\ TextOf(comp') = TextOf(cm)
    BY <1>5, EditIs
  <2>2. OwnText' /\ DraftsKept'
    BY <1>3, <1>5, <2>1, TextGoes
  <2>3. PostInv' /\ (post' = NoPost \/ post' \in Posts)
    <3>1. CASE post' = post
      BY <3>1, SamePost
    <3>2. CASE post' = [kind |-> "edit", chat |-> active, text |-> comp.input, of |-> comp.edit]
      BY <1>4, <1>5, <3>2, NewPost
    <3> QED BY <1>5, <3>1, <3>2 DEF Post
  <2> QED BY <1>1, <1>5, <2>1, <2>2, <2>3 DEF Fields
<1>6. CASE /\ comp.file # NoChat
           /\ comp' = [cm EXCEPT !.file = NoChat, !.reply = NoChat]
           /\ unsent' = unsent \ {active}
           /\ Post("file", comp.input, comp.file)
           /\ UNCHANGED <<allowed, pick>>
  <2>1. comp' \in Composers /\ TextOf(comp') = TextOf(cm)
    BY <1>6, ReplyFileIs
  <2>2. OwnText' /\ DraftsKept'
    BY <1>3, <1>6, <2>1, TextGoes
  <2>3. PostInv' /\ post' \in Posts
    BY <1>4, <1>6, NewPost DEF Post
  <2> QED BY <1>1, <1>6, <2>1, <2>2, <2>3 DEF Fields
<1>7. CASE comp.input # {} /\ (Blacklist(cm) \/ Whitelist(cm) \/ SendByPath(cm))
  BY <1>2, <1>3, <1>7, CommandKeeps
<1>8. CASE /\ comp.input # {}
           /\ comp' = [cm EXCEPT !.reply = NoChat]
           /\ unsent' = unsent \ {active}
           /\ Post("text", comp.input, IF comp.reply = NoChat THEN active ELSE comp.reply)
           /\ UNCHANGED <<allowed, pick>>
  <2>1. comp' \in Composers /\ TextOf(comp') = TextOf(cm)
    BY <1>8, NoReplyIs
  <2>2. OwnText' /\ DraftsKept'
    BY <1>3, <1>8, <2>1, TextGoes
  <2>3. PICK of \in Chats : of = IF comp.reply = NoChat THEN active ELSE comp.reply
    BY <1>4
  <2>4. PostInv' /\ post' \in Posts
    BY <1>4, <1>8, <2>3, NewPost DEF Post
  <2> QED BY <1>1, <1>8, <2>1, <2>2, <2>4 DEF Fields
<1>9. CASE UNCHANGED <<comp, allowed, post, pick, unsent>>
  BY <1>1, <1>9, SameText, SamePost DEF Fields
<1> QED BY <1>2, <1>5, <1>6, <1>7, <1>8, <1>9 DEF ComposerSend

LEMMA TimerFiresKeeps ==
    ASSUME ComposerInv, TimerFires  PROVE ComposerInv'
<1> USE ComposerAssumption DEF place, openChat
<1>1. Fields /\ OverInv /\ comp \in Composers
  BY Parts DEF ComposerInv
<1>2. /\ UNCHANGED <<active, mode, focused, over, drafts, react, clip, pasting>>
      /\ timers' \subseteq timers /\ armed' \in BOOLEAN
  BY <1>1 DEF TimerFires, Fields
<1>3. OverInv'
  BY <1>1, <1>2 DEF OverInv
<1>4. CASE UNCHANGED <<comp, allowed, post, pick, unsent>>
  <2>1. Fields'
    BY <1>1, <1>2, <1>4 DEF Fields
  <2> QED BY <1>1, <1>2, <1>3, <1>4, <2>1, Quiet
<1>5. CASE active # NoChat /\ ComposerSend
  <2>1. active \in Chats
    BY <1>1, <1>5 DEF Fields
  <2>2. /\ comp' \in Composers /\ drafts' \in [Chats -> SUBSET Chats]
        /\ OwnText' /\ DraftsKept' /\ PostInv'
        /\ post' = NoPost \/ post' \in Posts
        /\ allowed' \subseteq Chats /\ unsent' \subseteq Chats
        /\ pick' \in {"none", "reply", "edit"}
    BY <1>1, <1>2, <1>5, <2>1, SendKeeps
  <2>3. Fields'
    BY <1>1, <1>2, <2>2 DEF Fields
  <2> QED BY <1>3, <2>2, <2>3, Whole
<1> QED BY <1>4, <1>5 DEF TimerFires

\* The answer of a request.  The text of a message that failed is the box's
\* or the draft's again, unless there is another by now.
LEMMA PostEndsKeeps ==
    ASSUME ComposerInv, PostEnds  PROVE ComposerInv'
<1> USE ComposerAssumption DEF place, openChat, sends, picking
<1>1. Fields /\ OverInv /\ comp \in Composers /\ drafts \in [Chats -> SUBSET Chats]
  BY Parts DEF ComposerInv
<1>2. /\ post # NoPost /\ post' = NoPost
      /\ UNCHANGED <<active, mode, focused, over, allowed, armed, timers, pick, react, clip, pasting>>
  BY DEF PostEnds
<1>3. PostInv'
  BY <1>2 DEF PostInv, TextStaysInItsChat
<1>4. post \in Posts
  BY <1>2, Parts
<1>5. post.kind = "text" => post.text = {post.chat} /\ post.chat \in Chats
  BY <1>2, <1>4 DEF ComposerInv, PostInv, Posts
<1>6. CASE UNCHANGED <<comp, drafts, unsent>>
  <2>1. Fields' /\ OverInv'
    BY <1>1, <1>2, <1>6 DEF Fields, OverInv
  <2> QED BY <1>1, <1>2, <1>3, <1>6, <2>1, SameText, Whole
<1>7. CASE /\ post.kind = "text" /\ post.chat = active
           /\ comp' = IF Text = {} THEN [comp EXCEPT !.input = post.text] ELSE comp
           /\ unsent' = IF Text = {} THEN unsent \cup {post.chat} ELSE unsent
           /\ UNCHANGED drafts
  <2>1. Fields' /\ OverInv'
    BY <1>1, <1>2, <1>5, <1>7 DEF Fields, OverInv
  <2>2. CASE Text = {}
    <3>1. comp' = [comp EXCEPT !.input = {active}] /\ unsent' = unsent \cup {active} /\ active \in Chats
      BY <1>5, <1>7, <2>2
    <3>2. comp' \in Composers /\ TextOf(comp') = {active} \cup comp.buf
      BY <1>1, <3>1, InputIs
    <3>3. TextOf(comp') = TextOf(comp) \cup {active}
      BY <2>2, <3>2 DEF Text, TextOf
    <3>4. OwnText' /\ DraftsKept'
      BY <1>2, <1>7, <2>1, <2>2, <3>1, <3>2, <3>3, TextIsKept DEF Fields, Text, TextOf
    <3> QED BY <1>1, <1>2, <1>3, <1>7, <2>1, <3>2, <3>4, Whole
  <2>3. CASE Text # {}
    <3>1. comp' = comp /\ unsent' = unsent
      BY <1>7, <2>3
    <3> QED BY <1>1, <1>2, <1>3, <1>7, <2>1, <3>1, SameText, Whole
  <2> QED BY <2>2, <2>3
<1>8. CASE /\ post.kind = "text" /\ post.chat # active
           /\ drafts' = [drafts EXCEPT ![post.chat] = IF @ = {} THEN post.text ELSE @]
           /\ unsent' = unsent \cup {post.chat}
           /\ UNCHANGED comp
  <2>1. PICK c \in Chats : c = post.chat /\ post.text = {c} /\ c # active
    BY <1>5, <1>8
  <2>2. drafts' = [drafts EXCEPT ![c] = IF drafts[c] = {} THEN {c} ELSE drafts[c]]
    BY <1>8, <2>1
  <2>3. /\ drafts' \in [Chats -> SUBSET Chats]
        /\ \A d \in Chats \ {c} : drafts'[d] = drafts[d]
        /\ drafts'[c] = IF drafts[c] = {} THEN {c} ELSE drafts[c]
    BY <1>1, <2>2
  <2>4. OwnText'
    BY <1>2, <1>8, <2>3 DEF ComposerInv, OwnText, Text
  <2>5. c \in drafts'[c]
    BY <2>3 DEF ComposerInv, OwnText
  <2>6. DraftsKept'
    BY <1>1, <1>2, <1>8, <2>1, <2>3, <2>5 DEF ComposerInv, DraftsKept, Text, Fields
  <2>7. Fields' /\ OverInv'
    BY <1>1, <1>2, <1>8, <2>1 DEF Fields, OverInv
  <2> QED BY <1>1, <1>2, <1>3, <1>8, <2>3, <2>4, <2>6, <2>7, Whole
<1> QED BY <1>6, <1>7, <1>8 DEF PostEnds

LEMMA PickTakesKeeps ==
    ASSUME ComposerInv, PickTakes  PROVE ComposerInv'
<1> USE ComposerAssumption DEF place, openChat
<1>1. Fields /\ OverInv /\ comp \in Composers /\ active \in Chats
  BY Parts DEF ComposerInv, PickTakes, PickKeys, InChat, Fields
<1>2. /\ UNCHANGED <<active, mode, focused, over, allowed, drafts, timers, react, clip, post, pasting>>
      /\ armed' \in BOOLEAN /\ pick' = "none"
  BY <1>1 DEF PickTakes, Fields
<1>3. CASE comp' = [comp EXCEPT !.reply = active] /\ UNCHANGED unsent
  <2>1. Fields' /\ OverInv'
    BY <1>1, <1>2, <1>3 DEF Fields, OverInv
  <2> QED BY <1>1, <1>2, <1>3, <2>1, NoReplyIs, Quiet
<1>4. CASE /\ comp' = [comp EXCEPT !.edit = active, !.input = {active}, !.buf = {}]
           /\ unsent' = unsent \ {active}
  <2>1. comp' \in Composers /\ TextOf(comp') = {active}
    BY <1>1, <1>4 DEF Composers, TextOf
  <2>2. Fields' /\ OverInv'
    BY <1>1, <1>2, <1>4 DEF Fields, OverInv
  <2>3. OwnText' /\ DraftsKept'
    BY <1>2, <1>4, <2>1, <2>2, TextIsKept DEF Fields
  <2>4. drafts' \in [Chats -> SUBSET Chats]
    BY <1>2, Parts
  <2> QED BY <1>2, <2>1, <2>2, <2>3, <2>4, SamePost, Whole
<1> QED BY <1>3, <1>4 DEF PickTakes

LEMMA QuoteByMouseKeeps ==
    ASSUME ComposerInv, QuoteByMouse  PROVE ComposerInv'
<1> USE DEF place, openChat, sends, picking, ghosts
<1>1. Fields /\ OverInv /\ comp \in Composers
  BY Parts DEF ComposerInv
<1>2. comp' = [comp EXCEPT !.reply = active] /\ active \in Chats \cup {NoChat}
  BY <1>1 DEF QuoteByMouse, Fields
<1>3. comp' \in Composers /\ TextOf(comp') = TextOf(comp)
  BY <1>1, <1>2, NoReplyIs
<1>4. Fields' /\ OverInv' /\ UNCHANGED <<active, drafts, unsent, post>>
  BY <1>1 DEF QuoteByMouse, Fields, OverInv
<1> QED BY <1>3, <1>4, Quiet

LEMMA PickDeletesKeeps ==
    ASSUME ComposerInv, PickDeletes  PROVE ComposerInv'
<1> USE ComposerAssumption DEF place, openChat, ghosts
<1>1. Fields /\ OverInv /\ comp \in Composers /\ active \in Chats
  BY Parts DEF ComposerInv, PickDeletes, PickKeys, InChat, Fields
<1>2. Fields' /\ OverInv' /\ UNCHANGED <<active, comp, drafts, unsent>>
  BY <1>1 DEF PickDeletes, Fields, OverInv
<1>3. PostInv' /\ post' \in Posts
  BY <1>1, NewPost DEF PickDeletes, Post
<1> QED BY <1>1, <1>2, <1>3, SameText, Parts, Whole

LEMMA ChooseEmojiKeeps ==
    ASSUME ComposerInv, ChooseEmoji  PROVE ComposerInv'
<1> USE ComposerAssumption
<1>1. Fields /\ OverInv /\ comp \in Composers /\ drafts \in [Chats -> SUBSET Chats] /\ active \in Chats
  BY Parts DEF ComposerInv, ChooseEmoji, OverInv, Fields
<1>2. /\ UNCHANGED <<active, mode, focused, allowed, drafts, armed, timers, pick, clip, pasting>>
      /\ over' = "none"
  BY DEF ChooseEmoji, sends
<1>3. CASE react # NoChat
  <2>1. /\ post' = [kind |-> "react", chat |-> react, text |-> {}, of |-> react]
        /\ react' = NoChat /\ UNCHANGED <<comp, unsent>>
    BY <1>3 DEF ChooseEmoji
  <2>2. react \in Chats
    BY <1>1, <1>3 DEF Fields
  <2>3. PostInv' /\ post' \in Posts
    BY <2>1, <2>2, NewPost
  <2>4. Fields' /\ OverInv'
    BY <1>1, <1>2, <2>1 DEF Fields, OverInv
  <2> QED BY <1>1, <1>2, <2>1, <2>3, <2>4, SameText, Whole
<1>4. CASE react = NoChat
  <2>1. /\ comp' = [comp EXCEPT !.input = @ \cup {active}]
        /\ unsent' = unsent \cup {active} /\ UNCHANGED <<react, post>>
    BY <1>4 DEF ChooseEmoji
  <2>2. PICK v \in SUBSET Chats : v = comp.input \cup {active}
    BY <1>1 DEF Composers
  <2>3. comp' = [comp EXCEPT !.input = v]
    BY <1>1, <2>1, <2>2 DEF Composers
  <2>4. comp' \in Composers /\ TextOf(comp') = v \cup comp.buf
    BY <1>1, <2>3, InputIs
  <2>5. TextOf(comp') = TextOf(comp) \cup {active}
    BY <2>2, <2>4 DEF TextOf
  <2>6. Fields' /\ OverInv'
    BY <1>1, <1>2, <2>1 DEF Fields, OverInv
  <2> QED BY <1>1, <1>2, <2>1, <2>4, <2>5, <2>6, Types
<1> QED BY <1>3, <1>4

LEMMA FileKeeps ==
    ASSUME ComposerInv, ChooseFile \/ ClipboardRead  PROVE ComposerInv'
<1> USE ComposerAssumption DEF sends, picking
<1>1. Fields /\ OverInv /\ comp \in Composers /\ drafts \in [Chats -> SUBSET Chats]
  BY Parts DEF ComposerInv
<1>2. CASE ChooseFile
  <2>1. Fields' /\ OverInv' /\ UNCHANGED <<active, drafts, post>> /\ unsent' = unsent \ {active}
    BY <1>1, <1>2 DEF ChooseFile, Fields, OverInv
  <2>2. comp' = [ClearText(comp) EXCEPT !.reply = NoChat, !.file = active] /\ active \in Chats \cup {NoChat}
    BY <1>1, <1>2 DEF ChooseFile, Fields
  <2>3. comp' \in Composers /\ TextOf(comp') = {}
    <3>1. PICK cm \in Composers : cm = ClearText(comp) /\ TextOf(cm) = {}
      BY <1>1, ClearIs
    <3> QED BY <2>2, <3>1, ReplyFileIs
  <2> QED BY <2>1, <2>3, GivesUp
<1>3. CASE ClipboardRead
  <2>1. Fields' /\ OverInv' /\ UNCHANGED <<active, drafts, post>> /\ clip \in Chats
    BY <1>1, <1>3 DEF ClipboardRead, Fields, OverInv
  <2>2. CASE UNCHANGED <<comp, focused, unsent>>
    BY <1>1, <2>1, <2>2, Quiet
  <2>3. CASE comp' = [ClearText(comp) EXCEPT !.file = clip] /\ unsent' = unsent \ Text
    <3>1. comp' \in Composers /\ TextOf(comp') = {}
      BY <1>1, <2>1, <2>3, ClearIs, FileIs
    <3>2. active # NoChat => active \notin unsent'
      BY <2>3 DEF ComposerInv, DraftsKept
    <3>3. unsent' \subseteq Chats /\ unsent' \subseteq unsent
      BY <1>1, <2>3 DEF Fields
    <3>4. OwnText' /\ DraftsKept'
      BY <2>1, <3>1, <3>2, <3>3, TextIsKept
    <3> QED BY <1>1, <2>1, <3>1, <3>4, SamePost, Whole
  <2> QED BY <1>3, <2>2, <2>3 DEF ClipboardRead
<1> QED BY <1>2, <1>3

LEMMA PermissionKeeps ==
    ASSUME ComposerInv, ToggleWhitelistForSelection \/ RunCommand  PROVE ComposerInv'
<1> USE ComposerAssumption DEF sends
<1>1. Fields /\ OverInv /\ comp \in Composers /\ drafts \in [Chats -> SUBSET Chats]
  BY Parts DEF ComposerInv
<1>2. UNCHANGED <<active, mode, focused, drafts, armed, timers, react, clip, pasting>>
  BY DEF ToggleWhitelistForSelection, RunCommand
<1>3. over' = over \/ over' = "none"
  BY DEF ToggleWhitelistForSelection, RunCommand, LeaveEmoji
<1>4. OverInv'
  BY <1>1, <1>2, <1>3 DEF OverInv
<1>5. CASE /\ comp' = ClearComposer(comp) /\ unsent' = unsent \ {active} /\ post' = post
           /\ allowed' \subseteq Chats /\ LeaveReplyPick
  <2>1. comp' \in Composers /\ TextOf(comp') = {}
    BY <1>1, <1>5, ClearComposerIs
  <2>2. Fields'
    BY <1>1, <1>2, <1>3, <1>5 DEF Fields, LeaveReplyPick
  <2> QED BY <1>2, <1>4, <1>5, <2>1, <2>2, GivesUp
<1>6. CASE UNCHANGED <<comp, pick, unsent, post>> /\ allowed' \subseteq Chats
  <2>1. Fields'
    BY <1>1, <1>2, <1>3, <1>6 DEF Fields
  <2> QED BY <1>1, <1>2, <1>4, <1>6, <2>1, Quiet
<1>7. CASE active # NoChat /\ (Whitelist(comp) \/ Blacklist(comp) \/ SendByPath(comp))
  <2>1. active \in Chats
    BY <1>1, <1>7 DEF Fields
  <2>2. /\ comp' \in Composers /\ drafts' \in [Chats -> SUBSET Chats]
        /\ OwnText' /\ DraftsKept' /\ PostInv'
        /\ post' = NoPost \/ post' \in Posts
        /\ allowed' \subseteq Chats /\ unsent' \subseteq Chats
        /\ pick' \in {"none", "reply", "edit"}
    BY <1>1, <1>2, <1>7, <2>1, CommandKeeps
  <2>3. Fields'
    BY <1>1, <1>2, <1>3, <2>2 DEF Fields
  <2> QED BY <1>4, <2>2, <2>3, Whole
<1>8. CASE ToggleWhitelistForSelection
  BY <1>1, <1>5, <1>6, <1>8 DEF ToggleWhitelistForSelection, Fields
<1>9. CASE RunCommand
  <2>1. CASE \E yes \in BOOLEAN : WhitelistAll(yes)
    BY <1>5, <1>6, <2>1 DEF WhitelistAll
  <2>2. CASE UNCHANGED <<allowed, comp, pick, unsent, post>>
    BY <1>1, <1>6, <2>2 DEF Fields
  <2> QED BY <1>7, <1>9, <2>1, <2>2 DEF RunCommand
<1> QED BY <1>8, <1>9

LEMMA ComposerStart ==
    ASSUME ComposerInit  PROVE ComposerInv
<1>1. comp = [input |-> {}, buf |-> {}, reply |-> NoChat, edit |-> NoChat, file |-> NoChat]
  BY DEF ComposerInit
<1>2. comp \in Composers /\ Text = {}
  BY <1>1 DEF Composers, Text
<1>3. drafts \in [Chats -> SUBSET Chats] /\ \A c \in Chats : drafts[c] = {}
  BY DEF ComposerInit
<1>4. ComposerTypeOK
  BY <1>2, <1>3 DEF ComposerInit, ComposerTypeOK, Composers
<1>5. OwnText /\ DraftsKept
  BY <1>2, <1>3 DEF ComposerInit, OwnText, DraftsKept
<1>6. PostInv /\ OverInv
  BY DEF ComposerInit, PostInv, TextStaysInItsChat, OverInv
<1> QED BY <1>4, <1>5, <1>6 DEF ComposerInv

LEMMA ComposerStep ==
    ASSUME ComposerInv, [ComposerNext]_composerVars  PROVE ComposerInv'
<1>1. CASE ComposerNext
  <2>1. CASE ListNext
    BY <2>1, SideOpenKeeps, JumpToHitKeeps, KeysKeep DEF ListNext
  <2>2. CASE BoxNext
    BY <2>2, TypeTextKeeps, KeysKeep, MergeKeeps, BackspaceKeeps, StepToChatKeeps, EscapeChatKeeps,
       TimerFiresKeeps DEF BoxNext
  <2>3. CASE PickNext
    BY <2>3, KeysKeep, PickTakesKeeps, QuoteByMouseKeeps, PickDeletesKeeps, MergeKeeps,
       ChooseEmojiKeeps DEF PickNext
  <2>4. CASE FileNext
    BY <2>4, MergeKeeps, FileKeeps, KeysKeep DEF FileNext
  <2>5. CASE OtherNext
    BY <2>5, PermissionKeeps, KeysKeep DEF OtherNext
  <2> QED BY <1>1, <2>1, <2>2, <2>3, <2>4, <2>5, PostEndsKeeps DEF ComposerNext
<1>2. CASE UNCHANGED composerVars
  BY <1>2 DEF composerVars, place, openChat, sends, picking, ghosts, ComposerInv, ComposerTypeOK,
              OwnText, DraftsKept, Text, PostInv, TextStaysInItsChat, OverInv
<1> QED BY <1>1, <1>2

LEMMA ComposerAlways == ComposerSpec => []ComposerInv
<1>1. ComposerInit => ComposerInv
  BY ComposerStart
<1>2. ComposerInv /\ [ComposerNext]_composerVars => ComposerInv'
  BY ComposerStep
<1> QED BY <1>1, <1>2, PTL DEF ComposerSpec

\* The fields of the composer have values the code can give them (the model of
\* input.go, composer.go, commands.go and sidebar.go).
THEOREM ComposerIsTyped == ComposerSpec => []ComposerTypeOK
<1>1. ComposerInv => ComposerTypeOK
  BY DEF ComposerInv
<1> QED BY <1>1, ComposerAlways, PTL

\* However chats are switched while keys are buffered and a send is delayed,
\* what goes out to a chat was typed in it (sendComposer, openSelectedChat).
THEOREM TextGoesHome == ComposerSpec => []TextStaysInItsChat
<1>1. ComposerInv => TextStaysInItsChat
  BY DEF ComposerInv, PostInv
<1> QED BY <1>1, ComposerAlways, PTL

\* Text that was neither sent nor given up is in the box of the open chat or
\* is the draft of its own (saveDraft, restoreDraft, the failed send).
THEOREM NoDraftIsLost == ComposerSpec => []DraftsKept
<1>1. ComposerInv => DraftsKept
  BY DEF ComposerInv
<1> QED BY <1>1, ComposerAlways, PTL

\* The steps that may put a request under way.
LEMMA Requesting ==
    ASSUME ComposerNext, post' # post, post = NoPost
    PROVE  TimerFires \/ PickDeletes \/ ChooseEmoji \/ RunCommand
<1>1. ~PostEnds
  BY DEF PostEnds
<1>2. ~ListNext
  BY DEF ListNext, SideOpen, JumpToHit, StartSearch, LeaveSearch, ShowChats
<1>3. BoxNext => TimerFires
  BY DEF BoxNext, TypeText, PasteEnds, FlushInput, DeferComposerSend, LineBreak, Backspace, TabFocus,
         StepToChat, EscapeChat
<1>4. PickNext => PickDeletes \/ ChooseEmoji
  BY DEF PickNext, StartPick, PickEnds, PickTakes, QuoteByMouse, OpenEmojiPicker, CloseEmojiPicker
<1>5. ~FileNext
  BY DEF FileNext, OpenFileBrowser, ChooseFile, CloseFileBrowser, PasteFromClipboard, ClipboardRead
<1>6. OtherNext => RunCommand
  BY DEF OtherNext, ToggleWhitelistForSelection, OpenCommandBox, WhitelistLoaded
<1> QED BY <1>1, <1>2, <1>3, <1>4, <1>5, <1>6 DEF ComposerNext

\* A chat that may not be written to gets no text, file or edit: the
\* permission is looked at when the request is made, not when Enter is
\* pressed (composerSendMsg, activeChatLocked).
THEOREM LockedStaysSilent == ComposerSpec => LockedChatGetsNothing
<1>1. ASSUME ComposerInv, [ComposerNext]_composerVars, post = NoPost, post' # NoPost,
             post'.kind \in {"text", "file", "edit"}
      PROVE  post'.chat \in allowed
  <2>1. ComposerNext
    BY <1>1 DEF composerVars
  <2>2. TimerFires \/ PickDeletes \/ ChooseEmoji \/ RunCommand
    BY <1>1, <2>1, Requesting
  <2>3. CASE TimerFires
    <3>1. active \in allowed /\ ComposerSend
      BY <1>1, <2>3 DEF TimerFires, Locked
    <3>2. post'.chat = active
      BY <1>1, <3>1 DEF ComposerSend, Blacklist, Whitelist, SendByPath, Post
    <3> QED BY <3>1, <3>2
  <2>4. CASE PickDeletes
    BY <1>1, <2>4 DEF PickDeletes, Post
  <2>5. CASE ChooseEmoji
    BY <1>1, <2>5 DEF ChooseEmoji
  <2>6. CASE RunCommand
    BY <1>1, <2>6 DEF RunCommand, Whitelist, Blacklist, SendByPath, WhitelistAll, Post
  <2> QED BY <2>2, <2>3, <2>4, <2>5, <2>6
<1>2. ComposerInv /\ [ComposerNext]_composerVars
      => [post = NoPost /\ post' # NoPost /\ post'.kind \in {"text", "file", "edit"}
          => post'.chat \in allowed]_composerVars
  BY <1>1
<1> QED BY <1>2, ComposerAlways, PTL DEF ComposerSpec, LockedChatGetsNothing

\* While the lines of a paste come in, nothing is sent (deferComposerSend).
THEOREM PasteStaysWhole == ComposerSpec => PasteIsOneMessage
<1>1. ASSUME ComposerInv, [ComposerNext]_composerVars, pasting, post = NoPost
      PROVE  post' = NoPost
  <2>1. SUFFICES ASSUME post' # NoPost PROVE FALSE
    OBVIOUS
  <2>2. ComposerNext
    BY <1>1, <2>1 DEF composerVars
  <2>3. TimerFires \/ PickDeletes \/ ChooseEmoji \/ RunCommand
    BY <1>1, <2>1, <2>2, Requesting
  <2>4. ~PickDeletes /\ ~ChooseEmoji
    BY <1>1 DEF PickDeletes, PickKeys, InChat, ChooseEmoji, NoKeysFromPaste
  <2>5. ~RunCommand
    BY <1>1 DEF RunCommand, ComposerInv, OverInv
  <2>6. ~TimerFires
    BY <1>1, <2>1 DEF TimerFires
  <2> QED BY <2>3, <2>4, <2>5, <2>6
<1>2. ComposerInv /\ [ComposerNext]_composerVars
      => [pasting /\ post = NoPost => post' = NoPost]_composerVars
  BY <1>1
<1> QED BY <1>2, ComposerAlways, PTL DEF ComposerSpec, PasteIsOneMessage

-----------------------------------------------------------------------------
(* The panels: where an arrow key leads.                                     *)

\* Induction on a set, with the numbers in their order as the well-founded
\* relation.
LEMMA NatSet ==
    ASSUME NEW S, 0 \in S, \A n \in Nat : n \in S => n + 1 \in S
    PROVE  Nat \subseteq S
<1> DEFINE R == {p \in Nat \X Nat : p[1] < p[2]}
           T == Nat \ S
<1>1. IsWellFoundedOn(R, Nat)
  BY NatLessThanWellFounded DEF OpToRel
<1> SUFFICES ASSUME T # {} PROVE FALSE
  OBVIOUS
<1>2. PICK x \in T : \A y \in T : ~(<<y, x>> \in R)
  <2> HIDE DEF R, T
  <2>1. T \subseteq Nat
    BY DEF T
  <2> QED BY <1>1, <2>1, WFMin
<1>3. x # 0 /\ x - 1 \in Nat /\ x - 1 + 1 = x
  OBVIOUS
<1>4. x - 1 \in T
  BY <1>3
<1>5. <<x - 1, x>> \in R
  BY <1>3
<1> QED BY <1>2, <1>4, <1>5

\* The function GroupOffset is defined by: f counts the items before a group,
\* of the first n groups.
Counts(groups, n, f) ==
    f = [k \in 1 .. n + 1 |-> IF k = 1 THEN 0 ELSE f[k - 1] + groups[k - 1]]

\* It exists, for one group more at a time.
LEMMA CountsExist ==
    ASSUME NEW groups \in Seq(Nat \ {0})
    PROVE  \E f : Counts(groups, Len(groups), f)
<1> DEFINE S == {n \in Nat : n <= Len(groups) =>
                   \E f \in [1 .. n + 1 -> Nat] : Counts(groups, n, f)}
<1>1. 0 \in S
  <2> DEFINE f == [k \in 1 .. 1 |-> 0]
  <2>1. f \in [1 .. 0 + 1 -> Nat] /\ Counts(groups, 0, f)
    BY DEF Counts
  <2> QED BY <2>1
<1>2. ASSUME NEW n \in Nat, n \in S PROVE n + 1 \in S
  <2> SUFFICES ASSUME n + 1 <= Len(groups)
               PROVE  \E f \in [1 .. (n + 1) + 1 -> Nat] : Counts(groups, n + 1, f)
    OBVIOUS
  <2>1. PICK f \in [1 .. n + 1 -> Nat] : Counts(groups, n, f)
    BY <1>2
  <2>2. groups[n + 1] \in Nat
    OBVIOUS
  <2> DEFINE h == [k \in 1 .. (n + 1) + 1 |-> IF k = n + 2 THEN f[n + 1] + groups[n + 1] ELSE f[k]]
  <2>3. h \in [1 .. (n + 1) + 1 -> Nat]
    BY <2>1, <2>2
  <2>4. \A k \in 1 .. (n + 1) + 1 : h[k] = IF k = 1 THEN 0 ELSE h[k - 1] + groups[k - 1]
    <3> TAKE k \in 1 .. (n + 1) + 1
    <3>1. CASE k = n + 2
      BY <2>1, <3>1
    <3>2. CASE k # n + 2
      <4>1. k \in 1 .. n + 1 /\ h[k] = f[k]
        BY <3>2
      <4>2. f[k] = IF k = 1 THEN 0 ELSE f[k - 1] + groups[k - 1]
        BY <2>1, <4>1 DEF Counts
      <4>3. k # 1 => h[k - 1] = f[k - 1]
        BY <4>1
      <4> QED BY <4>1, <4>2, <4>3
    <3> QED BY <3>1, <3>2
  <2>5. Counts(groups, n + 1, h)
    <3> HIDE DEF h
    <3> QED BY <2>3, <2>4 DEF Counts
  <2> QED BY <2>3, <2>5
<1>3. Nat \subseteq S
  <2> HIDE DEF S
  <2> QED BY <1>1, <1>2, NatSet
<1>4. Len(groups) \in S
  BY <1>3
<1> QED BY <1>4

LEMMA OffsetIs ==
    ASSUME NEW groups \in Seq(Nat \ {0})
    PROVE  \E f : Counts(groups, Len(groups), f) /\ \A g : GroupOffset(groups, g) = f[g]
<1> DEFINE f == CHOOSE f : Counts(groups, Len(groups), f)
<1>1. Counts(groups, Len(groups), f)
  BY CountsExist
<1>2. \A g : GroupOffset(groups, g) = f[g]
  BY DEF GroupOffset, Counts
<1> QED BY <1>1, <1>2

LEMMA OffsetSteps ==
    ASSUME NEW groups \in Seq(Nat \ {0})
    PROVE  /\ GroupOffset(groups, 1) = 0
           /\ \A g \in 1 .. Len(groups) :
                 GroupOffset(groups, g + 1) = GroupOffset(groups, g) + groups[g]
<1>1. PICK f : Counts(groups, Len(groups), f) /\ \A g : GroupOffset(groups, g) = f[g]
  BY OffsetIs
<1>2. \A k \in 1 .. Len(groups) + 1 : f[k] = IF k = 1 THEN 0 ELSE f[k - 1] + groups[k - 1]
  BY <1>1 DEF Counts
<1>3. f[1] = 0
  BY <1>2
<1>4. \A g \in 1 .. Len(groups) : f[g + 1] = f[g] + groups[g]
  <2> TAKE g \in 1 .. Len(groups)
  <2>1. g + 1 \in 1 .. Len(groups) + 1 /\ g + 1 # 1 /\ (g + 1) - 1 = g
    OBVIOUS
  <2> QED BY <1>2, <2>1
<1> QED BY <1>1, <1>3, <1>4

LEMMA OffsetNat ==
    ASSUME NEW groups \in Seq(Nat \ {0})
    PROVE  \A g \in 1 .. Len(groups) + 1 : GroupOffset(groups, g) \in Nat
<1> DEFINE S == {n \in Nat : n <= Len(groups) => GroupOffset(groups, n + 1) \in Nat}
<1>1. 0 \in S
  BY OffsetSteps
<1>2. ASSUME NEW n \in Nat, n \in S PROVE n + 1 \in S
  <2> SUFFICES ASSUME n + 1 <= Len(groups) PROVE GroupOffset(groups, (n + 1) + 1) \in Nat
    OBVIOUS
  <2>1. n + 1 \in 1 .. Len(groups) /\ groups[n + 1] \in Nat /\ GroupOffset(groups, n + 1) \in Nat
    BY <1>2
  <2> QED BY <2>1, OffsetSteps
<1>3. Nat \subseteq S
  <2> HIDE DEF S
  <2> QED BY <1>1, <1>2, NatSet
<1> TAKE g \in 1 .. Len(groups) + 1
<1>4. PICK m \in Nat : m = Len(groups)
  OBVIOUS
<1>5. PICK n \in Nat : n <= m /\ n + 1 = g
  <2>1. g \in 1 .. m + 1
    BY <1>4
  <2>2. g - 1 \in Nat /\ g - 1 <= m /\ (g - 1) + 1 = g
    BY <2>1
  <2> QED BY <2>2
<1>6. n \in S
  BY <1>3
<1> QED BY <1>4, <1>5, <1>6

\* The items before a later group are not fewer.
LEMMA OffsetRises ==
    ASSUME NEW groups \in Seq(Nat \ {0})
    PROVE  \A g \in 1 .. Len(groups) + 1 : GroupOffset(groups, g) <= Total(groups)
<1> DEFINE S == {n \in Nat : n <= Len(groups) =>
                   GroupOffset(groups, Len(groups) + 1 - n) <= Total(groups)}
<1>1. 0 \in S
  <2>1. Len(groups) + 1 - 0 = Len(groups) + 1
    OBVIOUS
  <2> QED BY <2>1, OffsetNat DEF Total
<1>2. ASSUME NEW n \in Nat, n \in S PROVE n + 1 \in S
  <2> SUFFICES ASSUME n + 1 <= Len(groups)
               PROVE  GroupOffset(groups, Len(groups) + 1 - (n + 1)) <= Total(groups)
    OBVIOUS
  <2>1. PICK g \in 1 .. Len(groups) : g = Len(groups) + 1 - (n + 1) /\ g + 1 = Len(groups) + 1 - n
    OBVIOUS
  <2>2. GroupOffset(groups, g + 1) <= Total(groups)
    BY <1>2, <2>1
  <2>3. /\ GroupOffset(groups, g) \in Nat /\ groups[g] \in Nat
        /\ GroupOffset(groups, g + 1) = GroupOffset(groups, g) + groups[g]
        /\ Total(groups) \in Nat
    BY OffsetNat, OffsetSteps DEF Total
  <2>4. GroupOffset(groups, g) <= Total(groups)
    BY <2>2, <2>3
  <2> QED BY <2>1, <2>4
<1>3. Nat \subseteq S
  <2> HIDE DEF S
  <2> QED BY <1>1, <1>2, NatSet
<1> TAKE g \in 1 .. Len(groups) + 1
<1>4. CASE g = Len(groups) + 1
  BY <1>1, <1>4 DEF Total
<1>5. CASE g \in 1 .. Len(groups)
  <2>1. PICK m \in Nat : m = Len(groups)
    OBVIOUS
  <2>2. PICK n \in Nat : n <= m /\ m + 1 - n = g
    <3>1. g \in 1 .. m
      BY <1>5, <2>1
    <3>2. m + 1 - g \in Nat /\ m + 1 - g <= m /\ m + 1 - (m + 1 - g) = g
      BY <3>1
    <3> QED BY <3>2
  <2>3. n \in S
    BY <1>3
  <2> QED BY <2>1, <2>2, <2>3
<1> QED BY <1>4, <1>5

LEMMA TotalCounts ==
    ASSUME NEW groups \in Seq(Nat \ {0}) \ {<<>>}
    PROVE  Total(groups) \in Nat \ {0}
<1>1. 1 \in 1 .. Len(groups) /\ groups[1] \in Nat \ {0} /\ 1 + 1 = 2 /\ 2 \in 1 .. Len(groups) + 1
  OBVIOUS
<1>2. GroupOffset(groups, 2) = GroupOffset(groups, 1) + groups[1] /\ GroupOffset(groups, 1) = 0
  BY <1>1, OffsetSteps
<1>3. GroupOffset(groups, 2) <= Total(groups) /\ Total(groups) \in Nat
  BY <1>1, OffsetRises, OffsetNat DEF Total
<1> QED BY <1>1, <1>2, <1>3

\* Every item is in a group.
LEMMA ItemHasGroup ==
    ASSUME NEW groups \in Seq(Nat \ {0}), NEW i \in 1 .. Total(groups)
    PROVE  \E g \in 1 .. Len(groups) :
              GroupOffset(groups, g) < i /\ i <= GroupOffset(groups, g) + groups[g]
<1> DEFINE Found == \E g \in 1 .. Len(groups) :
                       GroupOffset(groups, g) < i /\ i <= GroupOffset(groups, g) + groups[g]
           S == {n \in Nat : n <= Len(groups) /\ i <= GroupOffset(groups, n + 1) => Found}
<1>1. 0 \in S
  BY OffsetSteps
<1>2. ASSUME NEW n \in Nat, n \in S PROVE n + 1 \in S
  <2> SUFFICES ASSUME n + 1 <= Len(groups), i <= GroupOffset(groups, (n + 1) + 1) PROVE Found
    OBVIOUS
  <2>1. PICK g \in 1 .. Len(groups) : g = n + 1
    OBVIOUS
  <2>2. /\ GroupOffset(groups, g) \in Nat /\ groups[g] \in Nat
        /\ GroupOffset(groups, g + 1) = GroupOffset(groups, g) + groups[g]
    BY OffsetNat, OffsetSteps
  <2>3. CASE i <= GroupOffset(groups, g)
    BY <1>2, <2>1, <2>3
  <2>4. CASE ~(i <= GroupOffset(groups, g))
    <3>1. i \in Int /\ GroupOffset(groups, g) < i
      BY <2>2, <2>4, OffsetNat DEF Total
    <3>2. i <= GroupOffset(groups, g) + groups[g]
      BY <2>1, <2>2
    <3> QED BY <3>1, <3>2
  <2> QED BY <2>3, <2>4
<1>3. Nat \subseteq S
  <2> HIDE DEF S
  <2> QED BY <1>1, <1>2, NatSet
<1>4. Len(groups) \in S /\ i <= GroupOffset(groups, Len(groups) + 1)
  BY <1>3 DEF Total
<1> QED BY <1>4

\* An arrow key leads from an item to an item: of a list in titled groups.
LEMMA GroupedIs ==
    ASSUME NEW groups \in Seq(Nat \ {0}), NEW i \in 1 .. Total(groups), NEW arrow \in Arrows
    PROVE  Grouped(groups, i, arrow) \in 1 .. Total(groups)
<1>1. PICK g : /\ g = GroupPos(groups, i) /\ g \in 1 .. Len(groups)
               /\ GroupOffset(groups, g) < i /\ i <= GroupOffset(groups, g) + groups[g]
  <2>1. DOMAIN groups = 1 .. Len(groups)
    OBVIOUS
  <2>2. \E g \in DOMAIN groups :
           GroupOffset(groups, g) < i /\ i <= GroupOffset(groups, g) + groups[g]
    BY <2>1, ItemHasGroup
  <2>3. /\ GroupPos(groups, i) \in DOMAIN groups
        /\ GroupOffset(groups, GroupPos(groups, i)) < i
        /\ i <= GroupOffset(groups, GroupPos(groups, i)) + groups[GroupPos(groups, i)]
    BY <2>2 DEF GroupPos
  <2> QED BY <2>1, <2>3
<1>2. PICK total \in Nat : total = Total(groups)
  BY OffsetNat DEF Total
<1>3. \A h \in 1 .. Len(groups) :
         /\ GroupOffset(groups, h) \in Nat /\ groups[h] \in Nat \ {0}
         /\ GroupOffset(groups, h) + groups[h] <= total
  <2> TAKE h \in 1 .. Len(groups)
  <2>1. h \in 1 .. Len(groups) + 1 /\ h + 1 \in 1 .. Len(groups) + 1 /\ groups[h] \in Nat \ {0}
    OBVIOUS
  <2>2. GroupOffset(groups, h + 1) = GroupOffset(groups, h) + groups[h]
    BY OffsetSteps
  <2>3. GroupOffset(groups, h + 1) <= total
    BY <1>2, <2>1, OffsetRises
  <2> QED BY <2>1, <2>2, <2>3, OffsetNat
<1> DEFINE item(h, l) == GroupOffset(groups, h) + Lesser(l, groups[h] - 1) + 1
<1>4. \A h \in 1 .. Len(groups), l \in Nat : item(h, l) \in 1 .. total
  <2> TAKE h \in 1 .. Len(groups), l \in Nat
  <2>1. PICK o \in Nat, n \in Nat \ {0} : o = GroupOffset(groups, h) /\ n = groups[h] /\ o + n <= total
    BY <1>3
  <2>2. PICK k \in 0 .. n - 1 : k = Lesser(l, n - 1)
    BY DEF Lesser
  <2>3. item(h, l) = o + k + 1
    BY <2>1, <2>2
  <2>4. o + k + 1 \in 1 .. total
    <3>1. \A t, a, b \in Nat : \A c \in 0 .. b - 1 : a + b <= t => a + c + 1 \in 1 .. t
      OBVIOUS
    <3>2. o + n <= total /\ total \in Nat /\ o \in Nat /\ n \in Nat
      BY <1>2, <2>1
    <3> HIDE DEF item
    <3> QED BY <2>2, <3>1, <3>2
  <2> QED BY <2>3, <2>4
<1>5. PICK o \in Nat, n \in Nat \ {0} :
        o = GroupOffset(groups, g) /\ n = groups[g] /\ o + n <= total /\ o < i /\ i <= o + n
  BY <1>1, <1>3
<1>6. PICK local \in Nat : local = i - o - 1 /\ local < n
  <2>1. i - o - 1 \in Nat /\ i - o - 1 < n
    BY <1>5
  <2> QED BY <2>1
<1>7. i \in 1 .. total
  BY <1>2
<1>8. CASE arrow = "right"
  <2>1. Grouped(groups, i, arrow)
          = IF local % Cols < Cols - 1 /\ local + 1 < n THEN i + 1 ELSE i
    BY <1>1, <1>5, <1>6, <1>8 DEF Grouped
  <2>2. local + 1 < n => i + 1 \in 1 .. total
    BY <1>5, <1>6, <1>7
  <2> QED BY <1>2, <1>7, <2>1, <2>2
<1>9. CASE arrow = "left"
  <2>1. Grouped(groups, i, arrow) = IF local % Cols > 0 THEN i - 1 ELSE i
    BY <1>1, <1>5, <1>6, <1>9 DEF Grouped
  <2>2. local % Cols > 0 => i - 1 \in 1 .. total
    <3>1. local = 0 => ~(local % Cols > 0)
      BY DEF Cols
    <3>2. local # 0 => i - 1 \in 1 .. total
      BY <1>5, <1>6, <1>7
    <3> QED BY <3>1, <3>2
  <2> QED BY <1>2, <1>7, <2>1, <2>2
<1>10. CASE arrow = "down"
  <2>1. Grouped(groups, i, arrow)
          = IF local \div Cols < LastRow(n) THEN item(g, local + Cols)
            ELSE IF g < Len(groups) THEN item(g + 1, local % Cols) ELSE i
    BY <1>1, <1>5, <1>6, <1>10 DEF Grouped
  <2>2. local + Cols \in Nat /\ local % Cols \in Nat
    BY DEF Cols
  <2>3. item(g, local + Cols) \in 1 .. total
    BY <1>1, <1>4, <2>2
  <2>4. g < Len(groups) => item(g + 1, local % Cols) \in 1 .. total
    <3>1. g < Len(groups) => g + 1 \in 1 .. Len(groups)
      BY <1>1
    <3> QED BY <1>4, <2>2, <3>1
  <2> QED
    <3> HIDE DEF item
    <3> QED BY <1>2, <1>7, <2>1, <2>3, <2>4
<1>11. CASE arrow = "up"
  <2>1. Grouped(groups, i, arrow)
          = IF local >= Cols THEN i - Cols
            ELSE IF g > 1 THEN item(g - 1, LastRow(groups[g - 1]) * Cols + (local % Cols)) ELSE i
    BY <1>1, <1>5, <1>6, <1>11 DEF Grouped
  <2>2. local >= Cols => i - Cols \in 1 .. total
    BY <1>5, <1>6, <1>7 DEF Cols
  <2>3. g > 1 => item(g - 1, LastRow(groups[g - 1]) * Cols + (local % Cols)) \in 1 .. total
    <3> SUFFICES ASSUME g > 1
                 PROVE  item(g - 1, LastRow(groups[g - 1]) * Cols + (local % Cols)) \in 1 .. total
      OBVIOUS
    <3>1. PICK h \in 1 .. Len(groups) : h = g - 1
      BY <1>1
    <3>2. PICK m \in Nat \ {0} : m = groups[h]
      BY <1>3
    <3>3. LastRow(m) * Cols + (local % Cols) \in Nat
      BY DEF LastRow, Cols
    <3>4. item(h, LastRow(groups[h]) * Cols + (local % Cols)) \in 1 .. total
      BY <1>4, <3>2, <3>3
    <3> QED BY <3>1, <3>4
  <2> QED
    <3> HIDE DEF item
    <3> QED BY <1>2, <1>7, <2>1, <2>2, <2>3
<1> QED BY <1>8, <1>9, <1>10, <1>11 DEF Arrows

\* Of a list that wraps around, and of one in two columns.
LEMMA WrappedIs ==
    ASSUME NEW n \in Nat \ {0}, NEW i \in 1 .. n, NEW by \in Nat
    PROVE  Wrapped(n, i, by) \in 1 .. n
<1>1. (i - 1 + n + by) % n \in 0 .. n - 1
  OBVIOUS
<1> QED BY <1>1 DEF Wrapped

LEMMA OneColumnIs ==
    ASSUME NEW n \in Nat \ {0}, NEW i \in 1 .. n, NEW arrow
    PROVE  OneColumn(n, i, arrow) \in 1 .. n
<1>1. PICK by \in Nat : by = IF arrow \in {"up", "left"} THEN n - 1 ELSE 1
  OBVIOUS
<1> QED BY <1>1, WrappedIs DEF OneColumn

LEMMA HandleIs ==
    ASSUME NEW n \in Nat \ {0}, NEW long \in BOOLEAN, NEW i \in 1 .. n, NEW arrow \in Arrows
    PROVE  Handle(n, long, i, arrow) \in 1 .. n
<1>1. CASE n <= 4 \/ long
  BY <1>1, OneColumnIs DEF Handle
<1>2. CASE ~(n <= 4 \/ long)
  <2>1. Handle(n, long, i, arrow) = TwoColumns(n, i, arrow)
    BY <1>2 DEF Handle
  <2>2. PICK rows \in Nat \ {0} : rows = (n + 1) \div 2 /\ rows < n /\ n - rows <= rows
    <3>1. (n + 1) \div 2 \in Nat \ {0} /\ (n + 1) \div 2 < n /\ n - (n + 1) \div 2 <= (n + 1) \div 2
      BY <1>2
    <3> QED BY <3>1
  <2>3. PICK right \in Nat \ {0} : right = n - rows /\ right <= rows
    BY <2>2
  <2>4. CASE i <= rows
    <3>1. Wrapped(rows, i, rows - 1) \in 1 .. rows /\ Wrapped(rows, i, 1) \in 1 .. rows
      <4>1. i \in 1 .. rows /\ rows - 1 \in Nat
        BY <2>4
      <4> QED BY <4>1, WrappedIs
    <3>2. rows + Lesser(i, right) \in 1 .. n
      BY <2>3, <2>4 DEF Lesser
    <3>3. 1 .. rows \subseteq 1 .. n
      BY <2>2
    <3> QED BY <2>1, <2>2, <2>3, <2>4, <3>1, <3>2, <3>3 DEF TwoColumns
  <2>5. CASE ~(i <= rows)
    <3>1. PICK j \in 1 .. right : j = i - rows
      <4>1. i - rows \in 1 .. right
        BY <2>3, <2>5
      <4> QED BY <4>1
    <3>2. Wrapped(right, j, right - 1) \in 1 .. right /\ Wrapped(right, j, 1) \in 1 .. right
      <4>1. right - 1 \in Nat
        OBVIOUS
      <4> QED BY <4>1, WrappedIs
    <3>3. \A k \in 1 .. right : rows + k \in 1 .. n
      BY <2>3
    <3>4. j \in 1 .. n
      BY <2>3
    <3> QED BY <2>1, <2>2, <2>3, <2>5, <3>1, <3>2, <3>3, <3>4 DEF TwoColumns
  <2> QED BY <2>4, <2>5
<1> QED BY <1>1, <1>2

\* Of the settings.
LEMMA SettingsIs ==
    ASSUME NEW toggles, NEW n \in Nat, NEW i \in 1 .. n, NEW arrow \in Arrows
    PROVE  HandleSettings(toggles, n, i, arrow) \in 1 .. n
<1> DEFINE pos == SettingsPos(toggles, i)
           cell(row, col) == SettingsAt(toggles, n, row, col)
           go(cells) == IF cells = {} THEN i ELSE CHOOSE j \in cells : TRUE
           row(r) == go(IF cell(r, pos.col) # {} THEN cell(r, pos.col) ELSE cell(r, 0))
<1>1. \A cells \in SUBSET (1 .. n) : go(cells) \in 1 .. n
  OBVIOUS
<1>2. \A r, c : cell(r, c) \in SUBSET (1 .. n)
  BY DEF SettingsAt
<1>3. \A r : row(r) \in 1 .. n
  <2> TAKE r
  <2>1. (IF cell(r, pos.col) # {} THEN cell(r, pos.col) ELSE cell(r, 0)) \in SUBSET (1 .. n)
    BY <1>2
  <2> HIDE DEF cell, go
  <2> QED BY <1>1, <2>1
<1>4. \A r, c : go(cell(r, c)) \in 1 .. n
  BY <1>1, <1>2
<1>5. HandleSettings(toggles, n, i, arrow) =
        CASE arrow = "right" -> go(cell(pos.row, pos.col + 1))
          [] arrow = "left"  -> IF pos.col = 0 THEN i ELSE go(cell(pos.row, pos.col - 1))
          [] arrow = "down"  -> row(pos.row + 1)
          [] arrow = "up"    -> IF pos.row = 0 THEN i ELSE row(pos.row - 1)
  BY DEF HandleSettings
<1> QED
  <2> HIDE DEF go, row, cell, pos
  <2> QED BY <1>3, <1>4, <1>5 DEF Arrows

-----------------------------------------------------------------------------
(* The panels: the arrow keys lead everywhere.                               *)

\* Arrow keys that lead from an item to an item; a set of items they do not
\* lead out of; and the items that every such set has which has the first.
Moves(n) == [1 .. n -> [Arrows -> 1 .. n]]
Shut(n, move, S) == \A i \in S, a \in Arrows : move[i][a] \in S
Leads(n, from, move) == \A S \in SUBSET (1 .. n) : from \in S /\ Shut(n, move, S) => S = 1 .. n

\* Where the keys lead from any of these items, and what the next press adds.
Beyond(move, S) == {move[i][a] : i \in S, a \in Arrows}

PressRun(f, n, from, move) ==
  /\ f \in [0 .. n -> SUBSET (1 .. n)]
  /\ f[0] = {from}
  /\ \A k \in 1 .. n : f[k] = f[k - 1] \cup Beyond(move, f[k - 1])

\* Reach presses the keys n times.
LEMMA ReachRuns ==
    ASSUME NEW n \in Nat, NEW from \in 1 .. n, NEW move \in Moves(n)
    PROVE  \E f : PressRun(f, n, from, move) /\ Reach(n, from, move) = f[n]
<1> DEFINE X == SUBSET (1 .. n)
           body(S) == S \cup Beyond(move, S)
           step(f, k) == IF k = 0 THEN {from} ELSE f[k - 1] \cup {move[i][a] : i \in f[k - 1], a \in Arrows}
           s == [p \in (1 .. n) \X X |-> body(p[2])]
           after == CHOOSE f : f = [k \in 0 .. n |-> step(f, k)]
<1>1. \A S \in X : body(S) \in X
  <2>1. \A i \in 1 .. n, a \in Arrows : move[i][a] \in 1 .. n
    BY DEF Moves
  <2>2. \A S \in X : Beyond(move, S) \in X
    BY <2>1 DEF Beyond
  <2> QED BY <2>2
<1>2. s \in [(1 .. n) \X X -> X]
  <2> HIDE DEF body, X
  <2> QED BY <1>1
<1>3. \A k \in 1 .. n, S \in X : s[<<k, S>>] = body(S)
  <2> HIDE DEF body, X
  <2> QED OBVIOUS
<1>4. PICK g \in [0 .. n -> X] : g[0] = {from} /\ \A k \in 1 .. n : g[k] = s[<<k, g[k - 1]>>]
  <2>1. {from} \in X
    OBVIOUS
  <2> HIDE DEF s, X
  <2>2. \E f : LoopRun(f, X, {from}, n, s)
    BY <1>2, <2>1, LoopRuns
  <2> QED BY <2>2 DEF LoopRun
<1>5. \A k \in 1 .. n : k # 0 /\ k \in 0 .. n /\ k - 1 \in 0 .. n
  OBVIOUS
<1>6. \A k \in 1 .. n : g[k] = g[k - 1] \cup Beyond(move, g[k - 1])
  <2> TAKE k \in 1 .. n
  <2>1. g[k - 1] \in X
    <3> HIDE DEF X
    <3> QED BY <1>4, <1>5
  <2>2. g[k] = body(g[k - 1])
    <3> HIDE DEF s, body
    <3> QED BY <1>3, <1>4, <2>1
  <2> QED BY <2>2
<1>7. \A k \in 0 .. n : g[k] = step(g, k)
  <2> TAKE k \in 0 .. n
  <2>1. CASE k = 0
    BY <1>4, <2>1
  <2>2. CASE k # 0
    <3>1. k \in 1 .. n
      BY <2>2
    <3> QED BY <1>6, <2>2, <3>1 DEF Beyond
  <2> QED BY <2>1, <2>2
<1>8. g = [k \in 0 .. n |-> step(g, k)]
  <2> HIDE DEF step
  <2> QED BY <1>4, <1>7
<1>9. after = [k \in 0 .. n |-> step(after, k)]
  <2> HIDE DEF step
  <2> QED BY <1>8
<1>10. \A k \in 0 .. n : after[k] = step(after, k)
  <2> HIDE DEF step, after
  <2> QED BY <1>9
<1>11. after[0] = {from} /\ \A k \in 1 .. n : after[k] = after[k - 1] \cup Beyond(move, after[k - 1])
  <2>1. 0 \in 0 .. n
    OBVIOUS
  <2> HIDE DEF after
  <2>2. after[0] = {from}
    <3>1. step(after, 0) = {from}
      OBVIOUS
    <3> HIDE DEF step
    <3> QED BY <1>10, <2>1, <3>1
  <2>3. ASSUME NEW k \in 1 .. n PROVE after[k] = after[k - 1] \cup Beyond(move, after[k - 1])
    <3>1. k # 0 /\ after[k] = step(after, k)
      <4> HIDE DEF step
      <4> QED BY <1>5, <1>10
    <3> QED BY <3>1 DEF Beyond
  <2> QED BY <2>2, <2>3
<1>12. \A k \in 0 .. n : after[k] = g[k]
  <2> DEFINE Same == {k \in 0 .. n : after[k] = g[k]}
  <2> HIDE DEF after
  <2>1. 0 \in Same
    <3>1. 0 \in 0 .. n
      OBVIOUS
    <3> QED BY <1>4, <1>11, <3>1
  <2>2. \A k \in 1 .. n : k - 1 \in Same => k \in Same
    BY <1>5, <1>6, <1>11
  <2>3. 0 .. n \subseteq Same
    <3> HIDE DEF Same
    <3> QED BY <2>1, <2>2, UpTo
  <2> QED BY <2>3
<1>13. Reach(n, from, move) = after[n]
  BY DEF Reach
<1>14. Reach(n, from, move) = g[n]
  <2>1. n \in 0 .. n
    OBVIOUS
  <2> HIDE DEF after
  <2> QED BY <1>12, <1>13, <2>1
<1> QED BY <1>4, <1>6, <1>14 DEF PressRun

\* Each press adds an item, or there is none to add.
LEMMA ReachIsAll ==
    ASSUME NEW n \in Nat, NEW from \in 1 .. n, NEW move \in Moves(n), Leads(n, from, move)
    PROVE  Reach(n, from, move) = 1 .. n
<1>1. PICK f : PressRun(f, n, from, move) /\ Reach(n, from, move) = f[n]
  BY ReachRuns
<1>2. /\ f \in [0 .. n -> SUBSET (1 .. n)]
      /\ f[0] = {from}
      /\ \A k \in 1 .. n : f[k] = f[k - 1] \cup Beyond(move, f[k - 1])
  BY <1>1 DEF PressRun
<1>3. IsFiniteSet(1 .. n) /\ Cardinality(1 .. n) = n
  <2>1. PICK a, b \in Int : a = 1 /\ b = n
    OBVIOUS
  <2>2. IsFiniteSet(a .. b) /\ Cardinality(a .. b) = IF a > b THEN 0 ELSE b - a + 1
    BY FS_Interval
  <2> QED BY <2>1, <2>2
<1>4. \A S \in SUBSET (1 .. n) : IsFiniteSet(S) /\ Cardinality(S) \in 0 .. n
  <2> TAKE S \in SUBSET (1 .. n)
  <2>1. IsFiniteSet(S) /\ Cardinality(S) <= Cardinality(1 .. n)
    BY <1>3, FS_Subset
  <2>2. Cardinality(S) \in Nat
    BY <2>1, FS_CardinalityType
  <2> QED BY <1>3, <2>1, <2>2
<1> DEFINE Good == {k \in 0 .. n : from \in f[k] /\ (f[k] = 1 .. n \/ Cardinality(f[k]) > k)}
<1>5. 0 \in Good
  <2>1. Cardinality({from}) = 1
    BY FS_Singleton
  <2>2. 0 \in 0 .. n /\ 1 > 0
    OBVIOUS
  <2> QED BY <1>2, <2>1, <2>2
<1>6. ASSUME NEW k \in 1 .. n, k - 1 \in Good PROVE k \in Good
  <2>1. PICK S \in SUBSET (1 .. n) : S = f[k - 1]
    BY <1>2
  <2>2. PICK T \in SUBSET (1 .. n) : T = f[k] /\ T = S \cup Beyond(move, S)
    BY <1>2, <2>1
  <2>3. from \in S /\ from \in T /\ k \in 0 .. n
    BY <1>6, <2>1, <2>2
  <2>4. CASE S = 1 .. n
    <3>1. T = 1 .. n
      BY <2>2, <2>4
    <3> QED BY <2>2, <2>3, <3>1
  <2>5. CASE S # 1 .. n
    <3>1. ~Shut(n, move, S)
      BY <2>3, <2>5 DEF Leads
    <3>2. PICK i \in T : i \notin S
      BY <2>2, <3>1 DEF Shut, Beyond
    <3>3. Cardinality(S) > k - 1
      BY <1>6, <2>1, <2>5
    <3>4. Cardinality(S \cup {i}) = Cardinality(S) + 1
      BY <1>4, <3>2, FS_AddElement
    <3>5. Cardinality(S \cup {i}) <= Cardinality(T)
      <4>1. S \cup {i} \in SUBSET T
        BY <2>2, <3>2
      <4> QED BY <1>4, <4>1, FS_Subset
    <3>6. Cardinality(T) > k
      <4>1. Cardinality(S) \in Nat /\ Cardinality(T) \in Nat
        BY <1>4
      <4> QED BY <3>3, <3>4, <3>5, <4>1
    <3> QED BY <2>2, <2>3, <3>6
  <2> QED BY <2>4, <2>5
<1>7. n \in Good
  <2>1. 0 .. n \subseteq Good
    <3> HIDE DEF Good
    <3> QED BY <1>5, <1>6, UpTo
  <2> QED BY <2>1
<1>8. f[n] = 1 .. n
  <2>1. f[n] \in SUBSET (1 .. n)
    BY <1>2
  <2>2. Cardinality(f[n]) \in 0 .. n
    BY <1>4, <2>1
  <2> QED BY <1>7, <2>2
<1> QED BY <1>1, <1>8

\* A set that has somebody before each of its items but the first, and the next
\* item after every one it has all items up to, is all of them.
LEMMA DownAndUp ==
    ASSUME NEW n \in Nat, NEW S \in SUBSET (1 .. n), S # {},
           \A i \in S : i # 1 => \E j \in S : j < i,
           \A i \in 2 .. n : 1 .. i - 1 \subseteq S => i \in S
    PROVE  S = 1 .. n
<1>1. PICK i \in S : \A j \in S : i <= j
  BY FirstPlace
<1>2. i = 1
  <2>1. \A j \in S : ~(j < i)
    BY <1>1
  <2> QED BY <2>1
<1> DEFINE missing == {j \in 1 .. n : j \notin S}
<1> SUFFICES ASSUME missing # {} PROVE FALSE
  OBVIOUS
<1>3. missing \in SUBSET Nat
  OBVIOUS
<1>4. PICK m \in missing : \A j \in missing : m <= j
  <2> HIDE DEF missing
  <2> QED BY <1>3, FirstPlace
<1>5. m \in 2 .. n
  <2>1. m \in 1 .. n /\ m # 1
    BY <1>2
  <2> QED BY <2>1
<1>6. 1 .. m - 1 \subseteq S
  <2> SUFFICES ASSUME NEW j \in 1 .. m - 1 PROVE j \in S
    OBVIOUS
  <2>1. j \in 1 .. n /\ ~(m <= j)
    BY <1>5
  <2> QED BY <1>4, <2>1
<1> QED BY <1>5, <1>6

\* A later group begins where this one ends, or later.
LEMMA OffsetApart ==
    ASSUME NEW groups \in Seq(Nat \ {0}), NEW g \in 1 .. Len(groups), NEW h \in 1 .. Len(groups), g < h
    PROVE  GroupOffset(groups, g) + groups[g] <= GroupOffset(groups, h)
<1>1. PICK len \in Nat : len = Len(groups)
  OBVIOUS
<1>2. PICK o : o = [k \in 1 .. len + 1 |-> GroupOffset(groups, k)]
  OBVIOUS
<1>3. \A k \in 1 .. len : o[k] \in Nat /\ o[k + 1] \in Nat /\ groups[k] \in Nat /\ o[k + 1] = o[k] + groups[k]
  <2> SUFFICES ASSUME NEW k \in 1 .. len
               PROVE  o[k] \in Nat /\ o[k + 1] \in Nat /\ groups[k] \in Nat /\ o[k + 1] = o[k] + groups[k]
    OBVIOUS
  <2>1. k \in 1 .. len + 1 /\ k + 1 \in 1 .. len + 1
    OBVIOUS
  <2>2. o[k] = GroupOffset(groups, k) /\ o[k + 1] = GroupOffset(groups, k + 1)
    BY <1>2, <2>1
  <2>3. GroupOffset(groups, k) \in Nat /\ GroupOffset(groups, k + 1) \in Nat
    BY <1>1, <2>1, OffsetNat
  <2>4. GroupOffset(groups, k + 1) = GroupOffset(groups, k) + groups[k]
    BY <1>1, OffsetSteps
  <2>5. groups[k] \in Nat
    BY <1>1
  <2> QED BY <2>2, <2>3, <2>4, <2>5
<1>4. PICK d \in Nat : d = len - (g + 1)
  <2>1. len - (g + 1) \in Nat
    BY <1>1
  <2> QED BY <2>1
<1> DEFINE S == {k \in 0 .. d : o[g + 1] <= o[g + 1 + k]}
<1>5. 0 \in S
  BY <1>1, <1>3
<1>6. ASSUME NEW k \in 1 .. d, k - 1 \in S PROVE k \in S
  <2>1. PICK j \in 1 .. len : j = g + 1 + (k - 1) /\ j + 1 = g + 1 + k
    <3>1. g + 1 + (k - 1) \in 1 .. len /\ (g + 1 + (k - 1)) + 1 = g + 1 + k
      BY <1>1, <1>4
    <3> QED BY <3>1
  <2>2. o[g + 1] <= o[j] /\ o[g + 1] \in Nat
    BY <1>1, <1>3, <1>6, <2>1
  <2>3. o[g + 1] <= o[j + 1]
    <3>1. o[j] \in Nat /\ groups[j] \in Nat /\ o[j + 1] = o[j] + groups[j]
      BY <1>3
    <3> QED BY <2>2, <3>1
  <2> QED BY <2>1, <2>3
<1>7. 0 .. d \subseteq S
  <2> HIDE DEF S
  <2> QED BY <1>5, <1>6, UpTo
<1>8. PICK k \in 0 .. d : g + 1 + k = h
  <2>1. g \in 1 .. len /\ h \in 1 .. len
    BY <1>1
  <2>2. h - (g + 1) \in 0 .. d /\ g + 1 + (h - (g + 1)) = h
    <3>1. \A a, b \in 1 .. len : a < b => b - (a + 1) \in 0 .. len - (a + 1) /\ a + 1 + (b - (a + 1)) = b
      OBVIOUS
    <3> QED BY <1>4, <2>1, <3>1
  <2> QED BY <2>2
<1>9. o[g + 1] <= o[h]
  BY <1>7, <1>8
<1>10. o[g + 1] = o[g] + groups[g]
  BY <1>1, <1>3
<1>11. o[g] = GroupOffset(groups, g) /\ o[h] = GroupOffset(groups, h)
  <2>1. g \in 1 .. len + 1 /\ h \in 1 .. len + 1
    BY <1>1
  <2> QED BY <1>2, <2>1
<1> QED BY <1>9, <1>10, <1>11

\* Which group an item is in.
LEMMA GroupAt ==
    ASSUME NEW groups \in Seq(Nat \ {0}), NEW g \in 1 .. Len(groups), NEW i \in Nat,
           GroupOffset(groups, g) < i, i <= GroupOffset(groups, g) + groups[g]
    PROVE  GroupPos(groups, i) = g
<1>1. \A h \in 1 .. Len(groups) : GroupOffset(groups, h) \in Nat /\ groups[h] \in Nat
  BY OffsetNat
<1>2. ASSUME NEW h \in 1 .. Len(groups),
             GroupOffset(groups, h) < i, i <= GroupOffset(groups, h) + groups[h]
      PROVE  h = g
  <2>1. CASE g < h
    BY <1>1, <1>2, <2>1, OffsetApart
  <2>2. CASE h < g
    BY <1>1, <1>2, <2>2, OffsetApart
  <2> QED BY <2>1, <2>2
<1>3. DOMAIN groups = 1 .. Len(groups)
  OBVIOUS
<1> QED BY <1>2, <1>3 DEF GroupPos

\* Item l, from 0, of group g, whose n items come after the first o.
ItemOf(groups, g, o, n, l) ==
  /\ g \in 1 .. Len(groups) /\ o \in Nat /\ n \in Nat \ {0}
  /\ o = GroupOffset(groups, g) /\ n = groups[g]
  /\ l \in 0 .. n - 1

\* Where the arrow keys lead from it.
KeysAt(groups, g, o, n, l) ==
  /\ l % 2 = 0 /\ l + 1 < n => Grouped(groups, o + l + 1, "right") = o + l + 2
  /\ l % 2 = 1 => Grouped(groups, o + l + 1, "left") = o + l
  /\ l + 2 < n /\ l % 2 = 0 => Grouped(groups, o + l + 1, "down") = o + l + 3
  /\ g < Len(groups) /\ l = ((n - 1) \div 2) * 2
       => Grouped(groups, o + l + 1, "down") = GroupOffset(groups, g + 1) + 1
  /\ l >= 2 => Grouped(groups, o + l + 1, "up") = o + l - 1
  /\ l = 0 /\ g > 1 => Grouped(groups, o + l + 1, "up") <= o

LEMMA GroupedAt ==
    ASSUME NEW groups \in Seq(Nat \ {0}), NEW g \in 1 .. Len(groups), NEW o \in Nat, NEW n \in Nat \ {0},
           NEW l \in Nat, ItemOf(groups, g, o, n, l)
    PROVE  KeysAt(groups, g, o, n, l)
<1> SUFFICES ASSUME o = GroupOffset(groups, g), n = groups[g], l <= n - 1
             PROVE  KeysAt(groups, g, o, n, l)
  BY DEF ItemOf
<1> USE DEF KeysAt
<1>1. PICK i \in Nat : i = o + l + 1 /\ i - o - 1 = l
  OBVIOUS
<1>2. GroupPos(groups, i) = g
  <2>1. o < i /\ i <= o + n
    <3>1. \A a, b, c \in Nat : b <= c - 1 => a < a + b + 1 /\ a + b + 1 <= a + c
      OBVIOUS
    <3>2. n \in Nat /\ l <= n - 1
      OBVIOUS
    <3> QED BY <1>1, <3>1, <3>2
  <2>2. GroupOffset(groups, g) < i /\ i <= GroupOffset(groups, g) + groups[g]
    BY <2>1
  <2> QED BY <1>1, <2>2, GroupAt
<1> DEFINE item(h, k) == GroupOffset(groups, h) + Lesser(k, groups[h] - 1) + 1
<1>3. /\ Grouped(groups, i, "right") = IF l % Cols < Cols - 1 /\ l + 1 < n THEN i + 1 ELSE i
      /\ Grouped(groups, i, "left") = IF l % Cols > 0 THEN i - 1 ELSE i
  BY <1>1, <1>2 DEF Grouped
<1>4. Grouped(groups, i, "down")
        = IF l \div Cols < LastRow(n) THEN item(g, l + Cols)
          ELSE IF g < Len(groups) THEN item(g + 1, l % Cols) ELSE i
  BY <1>1, <1>2 DEF Grouped
<1>5. Grouped(groups, i, "up")
        = IF l >= Cols THEN i - Cols
          ELSE IF g > 1 THEN item(g - 1, LastRow(groups[g - 1]) * Cols + (l % Cols)) ELSE i
  BY <1>1, <1>2 DEF Grouped
<1> HIDE DEF item
<1>6. l % 2 = 0 /\ l + 1 < n => Grouped(groups, i, "right") = o + l + 2
  <2>1. l % 2 = 0 /\ l + 1 < n => Grouped(groups, i, "right") = i + 1
    BY <1>3 DEF Cols
  <2> QED BY <1>1, <2>1
<1>7. l % 2 = 1 => Grouped(groups, i, "left") = o + l
  <2>1. l % 2 = 1 => Grouped(groups, i, "left") = i - 1
    BY <1>3 DEF Cols
  <2> QED BY <1>1, <2>1
<1>8. l + 2 < n /\ l % 2 = 0 => Grouped(groups, i, "down") = o + l + 3
  <2> SUFFICES ASSUME l + 2 < n, l % 2 = 0 PROVE Grouped(groups, i, "down") = o + l + 3
    OBVIOUS
  <2>1. l \div Cols < LastRow(n)
    <3>1. l \div 2 < (n - 1) \div 2
      OBVIOUS
    <3> QED BY <3>1 DEF LastRow, Cols
  <2>2. item(g, l + Cols) = o + l + 3
    <3>1. Lesser(l + 2, n - 1) = l + 2
      BY DEF Lesser
    <3> QED BY <3>1, SMTT(30) DEF item, Cols
  <2> QED BY <1>4, <2>1, <2>2
<1>9. g < Len(groups) /\ l = ((n - 1) \div 2) * 2
        => Grouped(groups, i, "down") = GroupOffset(groups, g + 1) + 1
  <2> SUFFICES ASSUME g < Len(groups), l = ((n - 1) \div 2) * 2
               PROVE  Grouped(groups, i, "down") = GroupOffset(groups, g + 1) + 1
    OBVIOUS
  <2>1. ~(l \div Cols < LastRow(n)) /\ l % Cols = 0
    <3>1. PICK m \in Nat : m = (n - 1) \div 2
      OBVIOUS
    <3>2. l = m * 2
      BY <3>1
    <3>3. (m * 2) \div 2 = m /\ (m * 2) % 2 = 0
      OBVIOUS
    <3> QED BY <3>1, <3>2, <3>3 DEF LastRow, Cols
  <2>2. PICK h \in 1 .. Len(groups) : h = g + 1
    OBVIOUS
  <2>3. PICK q \in Nat \ {0}, c \in Nat : q = groups[h] /\ c = GroupOffset(groups, h)
    <3>1. groups[h] \in Nat \ {0} /\ h \in 1 .. Len(groups) + 1
      BY SMTT(30)
    <3> QED BY <3>1, OffsetNat
  <2>4. item(h, 0) = c + 1
    <3>1. Lesser(0, q - 1) = 0
      BY DEF Lesser
    <3> QED BY <2>3, <3>1 DEF item
  <2> QED BY <1>4, <2>1, <2>2, <2>3, <2>4
<1>10. l >= 2 => Grouped(groups, i, "up") = o + l - 1
  <2>1. l >= 2 => Grouped(groups, i, "up") = i - 2
    BY <1>5 DEF Cols
  <2> QED BY <1>1, <2>1
<1>11. l = 0 /\ g > 1 => Grouped(groups, i, "up") <= o
  <2> SUFFICES ASSUME l = 0, g > 1 PROVE Grouped(groups, i, "up") <= o
    OBVIOUS
  <2>1. PICK h \in 1 .. Len(groups) : h = g - 1 /\ h + 1 = g
    OBVIOUS
  <2>2. PICK q \in Nat \ {0}, c \in Nat : q = groups[h] /\ c = GroupOffset(groups, h) /\ o = c + q
    <3>1. GroupOffset(groups, h + 1) = GroupOffset(groups, h) + groups[h]
      BY OffsetSteps
    <3>2. groups[h] \in Nat \ {0} /\ h \in 1 .. Len(groups) + 1
      OBVIOUS
    <3>3. GroupOffset(groups, h) \in Nat
      BY <3>2, OffsetNat
    <3> QED BY <2>1, <3>1, <3>2, <3>3
  <2>3. PICK k \in Nat : k = LastRow(groups[g - 1]) * Cols + (l % Cols)
    <3>1. LastRow(q) * Cols + (l % Cols) \in Nat
      <4>1. PICK m \in Nat : m = (q - 1) \div 2
        OBVIOUS
      <4>2. l % 2 = 0
        OBVIOUS
      <4> QED BY <4>1, <4>2 DEF LastRow, Cols
    <3> QED BY <2>1, <2>2, <3>1
  <2>4. item(h, k) <= o
    <3>1. Lesser(k, q - 1) \in 0 .. q - 1
      BY DEF Lesser
    <3> QED BY <2>2, <3>1, SMTT(30) DEF item
  <2>5. Grouped(groups, i, "up") = item(h, k)
    <3>1. ~(l >= Cols)
      BY DEF Cols
    <3> QED BY <1>5, <2>1, <2>3, <3>1
  <2> QED BY <2>4, <2>5
<1> QED BY <1>1, <1>6, <1>7, <1>8, <1>9, <1>10, <1>11

\* The arrow keys lead everywhere in titled groups: from an item one can go to
\* one before it, until it is the first, and from all before an item to it.
LEMMA GroupsLead ==
    ASSUME NEW groups \in Seq(Nat \ {0}), NEW from \in 1 .. Total(groups)
    PROVE  Leads(Total(groups), from, InGroups(groups))
<1>1. PICK n \in Nat : n = Total(groups)
  BY OffsetNat DEF Total
<1>2. ASSUME NEW S \in SUBSET (1 .. n), from \in S, Shut(n, InGroups(groups), S)
      PROVE  S = 1 .. n
  <2>1. \A i \in S, a \in Arrows : Grouped(groups, i, a) \in S
    <3>1. \A i \in 1 .. n, a \in Arrows : InGroups(groups)[i][a] = Grouped(groups, i, a)
      BY <1>1 DEF InGroups
    <3> QED BY <1>2, <3>1 DEF Shut
  <2>2. \A i \in 1 .. n : \E g \in 1 .. Len(groups), o \in Nat, l \in Nat, size \in Nat \ {0} : ItemOf(groups, g, o, size, l) /\ i = o + l + 1
    <3> SUFFICES ASSUME NEW i \in 1 .. n
                 PROVE  \E g \in 1 .. Len(groups), o \in Nat, l \in Nat, size \in Nat \ {0} : ItemOf(groups, g, o, size, l) /\ i = o + l + 1
      OBVIOUS
    <3>1. PICK g \in 1 .. Len(groups) :
            GroupOffset(groups, g) < i /\ i <= GroupOffset(groups, g) + groups[g]
      BY <1>1, ItemHasGroup
    <3>2. PICK o \in Nat, size \in Nat \ {0} : o = GroupOffset(groups, g) /\ size = groups[g]
      <4>1. groups[g] \in Nat \ {0} /\ g \in 1 .. Len(groups) + 1
        OBVIOUS
      <4> QED BY <4>1, OffsetNat
    <3>3. i - o - 1 \in Nat /\ i - o - 1 \in 0 .. size - 1 /\ i = o + (i - o - 1) + 1
      BY <3>1, <3>2
    <3> QED BY <3>2, <3>3 DEF ItemOf
  <2>3. \A i \in S : i # 1 => \E j \in S : j < i
    <3> SUFFICES ASSUME NEW i \in S, i # 1 PROVE \E j \in S : j < i
      OBVIOUS
    <3>1. PICK g \in 1 .. Len(groups), o \in Nat, l \in Nat, size \in Nat \ {0} : ItemOf(groups, g, o, size, l) /\ i = o + l + 1
      BY <2>2
    <3>2. g \in 1 .. Len(groups) /\ o \in Nat /\ l \in Nat /\ o = GroupOffset(groups, g)
      BY <3>1 DEF ItemOf
    <3>3. PICK up, left \in S : up = Grouped(groups, i, "up") /\ left = Grouped(groups, i, "left")
      BY <2>1 DEF Arrows
    <3>4. /\ l % 2 = 1 => left = o + l
          /\ l >= 2 => up = o + l - 1
          /\ l = 0 /\ g > 1 => up <= o
      BY <3>1, <3>3, GroupedAt DEF KeysAt
    <3>5. l = 0 => g > 1
      <4>1. g = 1 => o = 0
        BY <3>2, OffsetSteps
      <4> QED BY <3>1, <3>2, <4>1
    <3>6. l = 0 \/ l % 2 = 1 \/ l >= 2
      BY <3>2
    <3>7. up < i \/ left < i
      <4>1. up \in Nat /\ left \in Nat
        OBVIOUS
      <4> QED BY <3>1, <3>2, <3>4, <3>5, <3>6, <4>1
    <3> QED BY <3>7
  <2>4. \A i \in 2 .. n : 1 .. i - 1 \subseteq S => i \in S
    <3>1. SUFFICES ASSUME NEW i \in 2 .. n, 1 .. i - 1 \subseteq S PROVE i \in S
      OBVIOUS
    <3>2. i \in 1 .. n
      BY <3>1
    <3>3. PICK g \in 1 .. Len(groups), o \in Nat, l \in Nat, size \in Nat \ {0} : ItemOf(groups, g, o, size, l) /\ i = o + l + 1
      BY <2>2, <3>2
    <3>4. /\ g \in 1 .. Len(groups) /\ o \in Nat /\ o = GroupOffset(groups, g)
          /\ size \in Nat \ {0} /\ l \in 0 .. size - 1
      BY <3>3 DEF ItemOf
    <3>5. \A j \in Nat : 1 <= j /\ j < i => \A a \in Arrows : Grouped(groups, j, a) \in S
      <4>1. \A j \in Nat : 1 <= j /\ j < i => j \in S
        BY <3>1
      <4> QED BY <2>1, <4>1
    <3>6. CASE l % 2 = 1
      <4>1. PICK k \in Nat : l = k + 1 /\ k % 2 = 0
        <5>1. l - 1 \in Nat /\ l = (l - 1) + 1 /\ (l - 1) % 2 = 0
          BY <3>4, <3>6
        <5> QED BY <5>1
      <4>2. ItemOf(groups, g, o, size, k) /\ k + 1 < size
        BY <3>3, <3>4, <4>1, SMTT(30) DEF ItemOf
      <4>3. Grouped(groups, o + k + 1, "right") = o + k + 2
        <5>1. ItemOf(groups, g, o, size, k)
          BY <4>2
        <5>2. KeysAt(groups, g, o, size, k)
          BY <5>1, GroupedAt
        <5> QED BY <4>1, <4>2, <5>2 DEF KeysAt
      <4>4. o + k + 1 \in Nat /\ 1 <= o + k + 1 /\ o + k + 1 < i /\ o + k + 2 = i
        <5>1. i = o + (k + 1) + 1
          BY <3>3, <4>1
        <5> QED BY <5>1
      <4> QED BY <3>5, <4>3, <4>4 DEF Arrows
    <3>7. CASE l % 2 = 0 /\ l >= 2
      <4>1. PICK k \in Nat : l = k + 2 /\ k % 2 = 0
        <5>1. l - 2 \in Nat /\ l = (l - 2) + 2 /\ (l - 2) % 2 = 0
          BY <3>4, <3>7
        <5> QED BY <5>1
      <4>2. ItemOf(groups, g, o, size, k) /\ k + 2 < size
        BY <3>3, <3>4, <4>1, SMTT(30) DEF ItemOf
      <4>3. Grouped(groups, o + k + 1, "down") = o + k + 3
        <5>1. ItemOf(groups, g, o, size, k)
          BY <4>2
        <5>2. KeysAt(groups, g, o, size, k)
          BY <5>1, GroupedAt
        <5> QED BY <4>1, <4>2, <5>2 DEF KeysAt
      <4>4. o + k + 1 \in Nat /\ 1 <= o + k + 1 /\ o + k + 1 < i /\ o + k + 3 = i
        <5>1. i = o + (k + 2) + 1
          BY <3>3, <4>1
        <5> QED BY <5>1
      <4> QED BY <3>5, <4>3, <4>4 DEF Arrows
    <3>8. CASE l = 0
      <4>1. g # 1
        <5>1. g = 1 => o = 0
          BY <3>4, OffsetSteps
        <5>2. i > 1
          BY <3>1
        <5> QED BY <3>3, <3>4, <3>8, <5>1, <5>2
      <4>2. PICK h \in 1 .. Len(groups) : h + 1 = g /\ h < Len(groups)
        <5>1. g - 1 \in 1 .. Len(groups) /\ (g - 1) + 1 = g /\ g - 1 < Len(groups)
          BY <3>4, <4>1
        <5> QED BY <5>1
      <4>3. PICK q \in Nat \ {0}, c \in Nat : q = groups[h] /\ c = GroupOffset(groups, h) /\ o = c + q
        <5>1. GroupOffset(groups, h + 1) = GroupOffset(groups, h) + groups[h]
          BY OffsetSteps
        <5>2. groups[h] \in Nat \ {0} /\ h \in 1 .. Len(groups) + 1
          OBVIOUS
        <5>3. GroupOffset(groups, h) \in Nat
          BY <5>2, OffsetNat
        <5> QED BY <3>4, <4>2, <5>1, <5>2, <5>3
      <4>4. PICK k \in 0 .. q - 1 : k = ((q - 1) \div 2) * 2
        <5>1. ((q - 1) \div 2) * 2 \in 0 .. q - 1
          OBVIOUS
        <5> QED BY <5>1
      <4>5. ItemOf(groups, h, c, q, k)
        BY <4>3 DEF ItemOf
      <4>6. Grouped(groups, c + k + 1, "down") = GroupOffset(groups, h + 1) + 1
        BY <4>2, <4>4, <4>5, GroupedAt DEF KeysAt
      <4>7. GroupOffset(groups, h + 1) + 1 = i
        BY <3>3, <3>4, <3>8, <4>2
      <4>8. c + k + 1 \in Nat /\ 1 <= c + k + 1 /\ c + k + 1 < i
        <5>1. i = c + q + 1
          BY <3>3, <3>8, <4>3
        <5>2. k \in Nat /\ k < q
          OBVIOUS
        <5> QED BY <5>1, <5>2
      <4> QED BY <3>5, <4>6, <4>7, <4>8 DEF Arrows
    <3>9. l % 2 = 1 \/ (l % 2 = 0 /\ l >= 2) \/ l = 0
      OBVIOUS
    <3> QED BY <3>6, <3>7, <3>8, <3>9
  <2> QED BY <1>2, <2>3, <2>4, DownAndUp
<1> QED BY <1>1, <1>2 DEF Leads

\* A number that was wrapped around.
LEMMA WrapsOnce ==
    ASSUME NEW n \in Nat \ {0}, NEW r \in Nat, r < n
    PROVE  (n + r) % n = r /\ (n + n + r) % n = r
<1>1. ASSUME NEW k \in {1, 2} PROVE (k * n + r) % n = r
  <2>1. PICK a \in Nat : a = k * n + r
    BY <1>1
  <2>2. PICK q \in Int, m \in 0 .. n - 1 : q = a \div n /\ m = a % n /\ a = n * q + m
    OBVIOUS
  <2>3. k * n + r = n * q + m
    BY <2>1, <2>2
  <2>4. q = k
    <3>1. \A d \in Int : d >= 1 => n * d >= n
      OBVIOUS
    <3>2. PICK d \in Int : d = q - k
      BY <1>1
    <3>3. n * d = n * q - n * k
      BY <1>1, <3>2
    <3>4. n * d = r - m
      BY <1>1, <2>3, <3>3
    <3>5. ~(d >= 1)
      BY <3>1, <3>4
    <3>6. ~(-d >= 1)
      <4>1. n * (-d) = m - r
        BY <3>4
      <4>2. -d >= 1 => n * (-d) >= n
        BY <3>1
      <4> QED BY <4>1, <4>2
    <3> QED BY <1>1, <3>2, <3>5, <3>6
  <2>5. m = r
    BY <1>1, <2>3, <2>4
  <2> QED BY <2>1, <2>2, <2>5
<1>2. 1 * n + r = n + r /\ 2 * n + r = n + n + r
  OBVIOUS
<1> QED BY <1>1, <1>2

\* A wrapped list goes on by one item or back by one.
LEMMA WrapsByOne ==
    ASSUME NEW n \in Nat \ {0}, NEW i \in 1 .. n
    PROVE  /\ i < n => Wrapped(n, i, 1) = i + 1
           /\ i > 1 => Wrapped(n, i, n - 1) = i - 1
<1>1. ASSUME i < n PROVE Wrapped(n, i, 1) = i + 1
  <2>1. i - 1 + n + 1 = n + i
    OBVIOUS
  <2>2. (n + i) % n = i
    BY <1>1, WrapsOnce
  <2> QED BY <2>1, <2>2 DEF Wrapped
<1>2. ASSUME i > 1 PROVE Wrapped(n, i, n - 1) = i - 1
  <2>1. PICK r \in Nat : i = r + 2 /\ r < n
    <3>1. i - 2 \in Nat /\ i = (i - 2) + 2 /\ i - 2 < n
      BY <1>2
    <3> QED BY <3>1
  <2>2. i - 1 + n + (n - 1) = n + n + r
    BY <2>1
  <2>3. (n + n + r) % n = r
    BY <2>1, WrapsOnce
  <2> QED BY <2>1, <2>2, <2>3 DEF Wrapped
<1> QED BY <1>1, <1>2

\* The arrow keys lead everywhere in one column and in two.
LEMMA ColumnsLead ==
    ASSUME NEW n \in Nat \ {0}, NEW long \in BOOLEAN, NEW from \in 1 .. n
    PROVE  Leads(n, from, InColumns(n, long))
<1>1. ASSUME NEW S \in SUBSET (1 .. n), from \in S, Shut(n, InColumns(n, long), S)
      PROVE  S = 1 .. n
  <2>1. \A i \in S, a \in Arrows : Handle(n, long, i, a) \in S
    <3>1. \A i \in 1 .. n, a \in Arrows : InColumns(n, long)[i][a] = Handle(n, long, i, a)
      BY DEF InColumns
    <3> QED BY <1>1, <3>1 DEF Shut
  <2>2. CASE n <= 4 \/ long
    <3>1. \A i \in 1 .. n : /\ i < n => Handle(n, long, i, "down") = i + 1
                            /\ i > 1 => Handle(n, long, i, "up") = i - 1
      BY <2>2, WrapsByOne DEF Handle, OneColumn
    <3>2. \A i \in S : i # 1 => \E j \in S : j < i
      <4> SUFFICES ASSUME NEW i \in S, i # 1 PROVE \E j \in S : j < i
        OBVIOUS
      <4>1. i - 1 \in S
        BY <2>1, <3>1 DEF Arrows
      <4> QED BY <4>1
    <3>3. \A i \in 2 .. n : 1 .. i - 1 \subseteq S => i \in S
      <4> SUFFICES ASSUME NEW i \in 2 .. n, 1 .. i - 1 \subseteq S PROVE i \in S
        OBVIOUS
      <4>1. i - 1 \in S /\ i - 1 \in 1 .. n /\ i - 1 < n /\ (i - 1) + 1 = i
        OBVIOUS
      <4> QED BY <2>1, <3>1, <4>1 DEF Arrows
    <3> QED BY <1>1, <3>2, <3>3, DownAndUp
  <2>3. CASE ~(n <= 4 \/ long)
    <3>1. PICK rows \in Nat \ {0}, right \in Nat \ {0} :
            rows = (n + 1) \div 2 /\ right = n - rows /\ rows > 1 /\ right > 1 /\ right <= rows
      <4>1. PICK rows \in Nat : rows = (n + 1) \div 2 /\ rows > 1 /\ n - rows > 1 /\ n - rows <= rows
        <5>1. (n + 1) \div 2 \in Nat /\ (n + 1) \div 2 > 1 /\ n - (n + 1) \div 2 > 1
                /\ n - (n + 1) \div 2 <= (n + 1) \div 2
          BY <2>3
        <5> QED BY <5>1
      <4>2. n - rows \in Nat \ {0}
        BY <4>1
      <4> QED BY <4>1, <4>2
    <3>2. \A i \in 1 .. n, a \in Arrows : Handle(n, long, i, a) = TwoColumns(n, i, a)
      BY <2>3 DEF Handle
    <3>3. \A i \in 1 .. rows : /\ i < rows => TwoColumns(n, i, "down") = i + 1
                               /\ i > 1 => TwoColumns(n, i, "up") = i - 1
      <4> SUFFICES ASSUME NEW i \in 1 .. rows
                   PROVE  /\ i < rows => TwoColumns(n, i, "down") = i + 1
                          /\ i > 1 => TwoColumns(n, i, "up") = i - 1
        OBVIOUS
      <4>1. TwoColumns(n, i, "down") = Wrapped(rows, i, 1) /\ TwoColumns(n, i, "up") = Wrapped(rows, i, rows - 1)
        BY <3>1 DEF TwoColumns
      <4> QED BY <4>1, WrapsByOne
    <3>4. TwoColumns(n, 1, "right") = rows + 1
      <4>1. TwoColumns(n, 1, "right") = rows + Lesser(1, right)
        BY <3>1 DEF TwoColumns
      <4>2. Lesser(1, right) = 1
        BY <3>1 DEF Lesser
      <4> QED BY <4>1, <4>2
    <3>5. \A j \in 1 .. right : /\ TwoColumns(n, rows + j, "left") = j
                                /\ j < right => TwoColumns(n, rows + j, "down") = rows + j + 1
      <4> SUFFICES ASSUME NEW j \in 1 .. right
                   PROVE  /\ TwoColumns(n, rows + j, "left") = j
                          /\ j < right => TwoColumns(n, rows + j, "down") = rows + j + 1
        OBVIOUS
      <4>1. PICK i \in Nat : i = rows + j /\ ~(i <= rows) /\ i - rows = j
        <5>1. rows + j \in Nat /\ ~(rows + j <= rows) /\ (rows + j) - rows = j
          OBVIOUS
        <5> QED BY <5>1
      <4>2. TwoColumns(n, i, "left") = j /\ TwoColumns(n, i, "down") = rows + Wrapped(right, j, 1)
        BY <3>1, <4>1 DEF TwoColumns
      <4>3. j < right => Wrapped(right, j, 1) = j + 1
        BY WrapsByOne
      <4> QED BY <4>1, <4>2, <4>3
    <3>6. \A i \in 1 .. n : i \in 1 .. rows \/ \E j \in 1 .. right : i = rows + j
      <4> SUFFICES ASSUME NEW i \in 1 .. n, ~(i <= rows) PROVE \E j \in 1 .. right : i = rows + j
        OBVIOUS
      <4>1. i - rows \in 1 .. right /\ i = rows + (i - rows)
        BY <3>1
      <4> QED BY <4>1
    <3>7. \A i \in S : i # 1 => \E j \in S : j < i
      <4> SUFFICES ASSUME NEW i \in S, i # 1 PROVE \E j \in S : j < i
        OBVIOUS
      <4>1. TwoColumns(n, i, "up") \in S /\ TwoColumns(n, i, "left") \in S
        BY <2>1, <3>2 DEF Arrows
      <4>2. CASE i \in 1 .. rows
        <5>1. i - 1 \in S
          BY <3>3, <4>1, <4>2
        <5> QED BY <5>1
      <4>3. CASE \E j \in 1 .. right : i = rows + j
        <5>1. PICK j \in 1 .. right : i = rows + j
          BY <4>3
        <5>2. j \in S /\ j < i
          BY <3>5, <4>1, <5>1
        <5> QED BY <5>2
      <4> QED BY <3>6, <4>2, <4>3
    <3>8. \A i \in 2 .. n : 1 .. i - 1 \subseteq S => i \in S
      <4>1. SUFFICES ASSUME NEW i \in 2 .. n, 1 .. i - 1 \subseteq S PROVE i \in S
        OBVIOUS
      <4>2. \A j \in 1 .. n : j < i => TwoColumns(n, j, "down") \in S /\ TwoColumns(n, j, "right") \in S
        <5>1. \A j \in 1 .. n : j < i => j \in S
          BY <4>1
        <5> QED BY <2>1, <3>2, <5>1 DEF Arrows
      <4>3. i \in 1 .. rows \/ \E j \in 1 .. right : i = rows + j
        <5>1. i \in 1 .. n
          BY <4>1
        <5> QED BY <3>6, <5>1
      <4>4. CASE i \in 1 .. rows
        <5>1. PICK k \in Nat : i = k + 1 /\ k \in 1 .. rows /\ k < rows /\ k \in 1 .. n
          <6>1. i - 1 \in Nat /\ i = (i - 1) + 1 /\ i - 1 \in 1 .. rows /\ i - 1 < rows /\ i - 1 \in 1 .. n
            BY <4>1, <4>4
          <6> QED BY <6>1
        <5> QED BY <3>3, <4>2, <5>1
      <4>5. CASE \E j \in 1 .. right : i = rows + j
        <5>1. PICK j \in 1 .. right : i = rows + j
          BY <4>5
        <5>2. CASE j = 1
          <6>1. 1 \in 1 .. n /\ 1 < i
            BY <4>1
          <6> QED BY <3>4, <4>2, <5>1, <5>2, <6>1
        <5>3. CASE j # 1
          <6>1. PICK k \in 1 .. right : j = k + 1 /\ k < right
            <7>1. j - 1 \in 1 .. right /\ j = (j - 1) + 1 /\ j - 1 < right
              BY <5>3
            <7> QED BY <7>1
          <6>2. rows + k \in 1 .. n /\ rows + k < i /\ i = rows + k + 1
            BY <3>1, <5>1, <6>1
          <6> QED BY <3>5, <4>2, <6>1, <6>2
        <5> QED BY <5>2, <5>3
      <4> QED BY <4>3, <4>4, <4>5
    <3> QED BY <1>1, <3>7, <3>8, DownAndUp
  <2> QED BY <2>2, <2>3
<1> QED BY <1>1 DEF Leads

\* Item i is in row r and column c of the settings: t toggles, then selectors.
Placed(t, i, r, c) ==
  /\ SettingsPos(t, i) = [row |-> r, col |-> c]
  /\ i <= t => i = 2 * r + c + 1 /\ r < (t + 1) \div 2
  /\ i > t => i = t + 2 * (r - ((t + 1) \div 2)) + c + 1 /\ r >= (t + 1) \div 2

LEMMA PosIs ==
    ASSUME NEW t \in Nat \ {0}, NEW i \in Nat \ {0}
    PROVE  \E r \in Nat, c \in {0, 1} : Placed(t, i, r, c)
<1>1. PICK R \in Nat : R = SectionRows(t) /\ R = (t + 1) \div 2
  <2>1. (t + 1) \div 2 \in Nat /\ t + 2 - 1 = t + 1
    OBVIOUS
  <2> QED BY <2>1 DEF SectionRows, Cols
<1>2. CASE i <= t
  <2>1. PICK k \in Nat : k = i - 1
    OBVIOUS
  <2>2. PICK r \in Nat, c \in {0, 1} : r = k \div 2 /\ c = k % 2 /\ k = 2 * r + c
    <3>1. k \div 2 \in Nat /\ k % 2 \in {0, 1} /\ k = 2 * (k \div 2) + (k % 2)
      OBVIOUS
    <3> QED BY <3>1
  <2>3. SettingsPos(t, i) = [row |-> r, col |-> c]
    BY <1>2, <2>1, <2>2 DEF SettingsPos, Cols
  <2>4. i = 2 * r + c + 1 /\ r < R
    BY <1>1, <1>2, <2>1, <2>2
  <2> QED BY <1>1, <1>2, <2>3, <2>4 DEF Placed
<1>3. CASE ~(i <= t)
  <2>1. PICK k \in Nat : i = t + k + 1 /\ i - t - 1 = k
    <3>1. i - t - 1 \in Nat /\ i = t + (i - t - 1) + 1
      BY <1>3
    <3> QED BY <3>1
  <2>2. PICK r \in Nat, c \in {0, 1} : r = k \div 2 /\ c = k % 2 /\ k = 2 * r + c
    <3>1. k \div 2 \in Nat /\ k % 2 \in {0, 1} /\ k = 2 * (k \div 2) + (k % 2)
      OBVIOUS
    <3> QED BY <3>1
  <2>3. PICK q \in Nat : q = R + r /\ q - R = r /\ q >= R
    <3>1. R + r \in Nat /\ (R + r) - R = r /\ R + r >= R
      OBVIOUS
    <3> QED BY <3>1
  <2>4. SettingsPos(t, i) = [row |-> q, col |-> c]
    BY <1>1, <1>3, <2>1, <2>2, <2>3 DEF SettingsPos, Cols
  <2>5. i = t + 2 * (q - R) + c + 1
    <3>1. i = t + (2 * r + c) + 1
      BY <2>1, <2>2
    <3> QED BY <2>3, <3>1
  <2> QED BY <1>1, <1>3, <2>3, <2>4, <2>5 DEF Placed
<1> QED BY <1>2, <1>3

\* No two items share a place.
LEMMA PlacesDiffer ==
    ASSUME NEW t \in Nat \ {0}, NEW i \in Nat \ {0}, NEW j \in Nat \ {0},
           SettingsPos(t, i) = SettingsPos(t, j)
    PROVE  i = j
<1>1. PICK r \in Nat, c \in {0, 1} : Placed(t, i, r, c)
  BY PosIs
<1>2. PICK q \in Nat, d \in {0, 1} : Placed(t, j, q, d)
  BY PosIs
<1>3. q = r /\ d = c
  <2>1. PICK pos : pos = SettingsPos(t, i) /\ pos = [row |-> r, col |-> c] /\ pos = [row |-> q, col |-> d]
    BY <1>1, <1>2 DEF Placed
  <2>2. pos.row = r /\ pos.col = c
    BY <2>1
  <2>3. pos.row = q /\ pos.col = d
    BY <2>1
  <2> QED BY <2>2, <2>3
<1>4. PICK R \in Nat : R = (t + 1) \div 2
  OBVIOUS
<1>5. /\ i <= t => i = 2 * r + c + 1 /\ r < R
      /\ i > t => i = t + 2 * (r - R) + c + 1 /\ r >= R
  BY <1>1, <1>4 DEF Placed
<1>6. /\ j <= t => j = 2 * r + c + 1 /\ r < R
      /\ j > t => j = t + 2 * (r - R) + c + 1 /\ r >= R
  BY <1>2, <1>3, <1>4 DEF Placed
<1> QED BY <1>5, <1>6

\* So a place holds the one item that is there.
LEMMA PlaceHolds ==
    ASSUME NEW t \in Nat \ {0}, NEW n \in Nat, NEW j \in 1 .. n, NEW r, NEW c,
           SettingsPos(t, j) = [row |-> r, col |-> c]
    PROVE  SettingsAt(t, n, r, c) = {j}
<1>1. \A i \in 1 .. n : SettingsPos(t, i) = SettingsPos(t, j) => i = j
  <2> SUFFICES ASSUME NEW i \in 1 .. n, SettingsPos(t, i) = SettingsPos(t, j) PROVE i = j
    OBVIOUS
  <2>1. i \in Nat \ {0} /\ j \in Nat \ {0}
    OBVIOUS
  <2> QED BY <2>1, PlacesDiffer
<1> QED BY <1>1 DEF SettingsAt

\* Above an item in the left column there is one, but above the first.
LEMMA PlaceAbove ==
    ASSUME NEW t \in Nat \ {0}, NEW i \in Nat \ {0}, NEW r \in Nat, i # 1, Placed(t, i, r, 0)
    PROVE  r # 0 /\ \E j \in Nat \ {0} : j < i /\ SettingsPos(t, j) = [row |-> r - 1, col |-> 0]
<1>1. PICK R \in Nat : R = (t + 1) \div 2 /\ R >= 1 /\ 2 * R - 1 <= t /\ t <= 2 * R
  <2>1. (t + 1) \div 2 \in Nat /\ (t + 1) \div 2 >= 1 /\ 2 * ((t + 1) \div 2) - 1 <= t /\ t <= 2 * ((t + 1) \div 2)
    OBVIOUS
  <2> QED BY <2>1
<1>2. /\ i <= t => i = 2 * r + 1 /\ r < R
      /\ i > t => i = t + 2 * (r - R) + 1 /\ r >= R
  BY <1>1 DEF Placed
<1>3. r # 0
  BY <1>1, <1>2
<1>4. PICK j \in Nat \ {0} : j < i /\ (j <= t => j = 2 * (r - 1) + 1) /\ (j > t => j = t + 2 * (r - 1 - R) + 1)
  <2>1. CASE i <= t
    <3>1. i - 2 \in Nat \ {0} /\ i - 2 < i /\ i - 2 <= t /\ i - 2 = 2 * (r - 1) + 1
      BY <1>2, <1>3, <2>1
    <3> QED BY <2>1, <3>1
  <2>2. CASE i > t /\ r = R
    <3>1. 2 * R - 1 \in Nat \ {0} /\ 2 * R - 1 < i /\ 2 * R - 1 <= t /\ 2 * R - 1 = 2 * (r - 1) + 1
      BY <1>1, <2>2
    <3> QED BY <2>2, <3>1
  <2>3. CASE i > t /\ r # R
    <3>1. PICK k \in Nat : r = R + 1 + k
      <4>1. r - R - 1 \in Nat /\ r = R + 1 + (r - R - 1)
        BY <1>2, <2>3
      <4> QED BY <4>1
    <3>2. i = t + 2 * (k + 1) + 1
      BY <1>2, <2>3, <3>1
    <3>3. PICK j \in Nat \ {0} : j = t + 2 * k + 1 /\ j < i /\ ~(j <= t)
      <4>1. t + 2 * k + 1 \in Nat \ {0} /\ t + 2 * k + 1 < i /\ ~(t + 2 * k + 1 <= t)
        BY <3>2
      <4> QED BY <4>1
    <3>4. j = t + 2 * (r - 1 - R) + 1
      BY <3>1, <3>3
    <3> QED BY <3>3, <3>4
  <2>4. i <= t \/ (i > t /\ r = R) \/ (i > t /\ r # R)
    OBVIOUS
  <2> QED BY <2>1, <2>2, <2>3, <2>4
<1>5. PICK q \in Nat, c \in {0, 1} : Placed(t, j, q, c)
  BY PosIs
<1>6. /\ j <= t => j = 2 * q + c + 1
      /\ j > t => j = t + 2 * (q - R) + c + 1
  BY <1>1, <1>5 DEF Placed
<1>7. q = r - 1 /\ c = 0
  BY <1>4, <1>6
<1>8. SettingsPos(t, j) = [row |-> r - 1, col |-> 0]
  BY <1>5, <1>7 DEF Placed
<1> QED BY <1>3, <1>4, <1>8

\* Beside an item in the right column is the one before it.
LEMMA PlaceBeside ==
    ASSUME NEW t \in Nat \ {0}, NEW i \in Nat \ {0}, NEW r \in Nat, Placed(t, i, r, 1)
    PROVE  \E j \in Nat \ {0} : j < i /\ SettingsPos(t, j) = [row |-> r, col |-> 0]
<1>1. PICK R \in Nat : R = (t + 1) \div 2
  OBVIOUS
<1>2. /\ i <= t => i = 2 * r + 2
      /\ i > t => i = t + 2 * (r - R) + 2 /\ r >= R
  BY <1>1 DEF Placed
<1>3. PICK j \in Nat \ {0} : j + 1 = i /\ (j <= t <=> i <= t)
  <2>1. i - 1 \in Nat \ {0} /\ (i - 1) + 1 = i /\ (i - 1 <= t <=> i <= t)
    BY <1>2
  <2> QED BY <2>1
<1>4. PICK q \in Nat, c \in {0, 1} : Placed(t, j, q, c)
  BY PosIs
<1>5. /\ j <= t => j = 2 * q + c + 1
      /\ j > t => j = t + 2 * (q - R) + c + 1
  BY <1>1, <1>4 DEF Placed
<1>6. q = r /\ c = 0
  BY <1>2, <1>3, <1>5
<1> QED BY <1>3, <1>4, <1>6 DEF Placed

\* The arrow keys lead everywhere in the settings.
LEMMA SectionsLead ==
    ASSUME NEW t \in Nat \ {0}, NEW n \in Nat, NEW from \in 1 .. n
    PROVE  Leads(n, from, InSections(t, n))
<1>1. ASSUME NEW S \in SUBSET (1 .. n), from \in S, Shut(n, InSections(t, n), S)
      PROVE  S = 1 .. n
  <2>1. \A i \in S, a \in Arrows : HandleSettings(t, n, i, a) \in S
    <3>1. \A i \in 1 .. n, a \in Arrows : InSections(t, n)[i][a] = HandleSettings(t, n, i, a)
      BY DEF InSections
    <3> QED BY <1>1, <3>1 DEF Shut
  <2>2. ASSUME NEW i \in 1 .. n, NEW j \in 1 .. n, NEW r \in Nat,
               SettingsPos(t, i) = [row |-> r, col |-> 1], SettingsPos(t, j) = [row |-> r, col |-> 0]
        PROVE  HandleSettings(t, n, i, "left") = j /\ HandleSettings(t, n, j, "right") = i
    <3>1. SettingsAt(t, n, r, 0) = {j}
      BY <2>2, PlaceHolds
    <3>2. SettingsAt(t, n, r, 1) = {i}
      BY <2>2, PlaceHolds
    <3>3. 1 - 1 = 0 /\ 0 + 1 = 1 /\ 1 # 0
      OBVIOUS
    <3>4. HandleSettings(t, n, i, "left") = j
      BY <2>2, <3>1, <3>3 DEF HandleSettings
    <3>5. HandleSettings(t, n, j, "right") = i
      BY <2>2, <3>2, <3>3 DEF HandleSettings
    <3> QED BY <3>4, <3>5
  <2>3. ASSUME NEW i \in 1 .. n, NEW j \in 1 .. n, NEW r \in Nat, NEW q \in Int, q = r - 1, r # 0,
               SettingsPos(t, i) = [row |-> r, col |-> 0], SettingsPos(t, j) = [row |-> q, col |-> 0]
        PROVE  HandleSettings(t, n, i, "up") = j /\ HandleSettings(t, n, j, "down") = i
    <3>1. SettingsAt(t, n, q, 0) = {j}
      BY <2>3, PlaceHolds
    <3>2. SettingsAt(t, n, r, 0) = {i}
      BY <2>3, PlaceHolds
    <3>3. q + 1 = r
      BY <2>3
    <3>4. HandleSettings(t, n, i, "up") = j
      BY <2>3, <3>1 DEF HandleSettings
    <3>5. HandleSettings(t, n, j, "down") = i
      BY <2>3, <3>2, <3>3 DEF HandleSettings
    <3> QED BY <3>4, <3>5
  <2>4. \A i \in 1 .. n : i # 1 =>
           \/ \E j \in 1 .. n : j < i /\ HandleSettings(t, n, i, "left") = j /\ HandleSettings(t, n, j, "right") = i
           \/ \E j \in 1 .. n : j < i /\ HandleSettings(t, n, i, "up") = j /\ HandleSettings(t, n, j, "down") = i
    <3> SUFFICES ASSUME NEW i \in 1 .. n, i # 1
                 PROVE  \/ \E j \in 1 .. n : j < i /\ HandleSettings(t, n, i, "left") = j /\ HandleSettings(t, n, j, "right") = i
                        \/ \E j \in 1 .. n : j < i /\ HandleSettings(t, n, i, "up") = j /\ HandleSettings(t, n, j, "down") = i
      OBVIOUS
    <3>1. i \in Nat \ {0}
      OBVIOUS
    <3>2. PICK r \in Nat, c \in {0, 1} : Placed(t, i, r, c)
      BY <3>1, PosIs
    <3>3. CASE c = 0
      <4>1. Placed(t, i, r, 0)
        BY <3>2, <3>3
      <4>2. PICK q \in Int : q = r - 1
        OBVIOUS
      <4>3. PICK j \in Nat \ {0} : j < i /\ SettingsPos(t, j) = [row |-> q, col |-> 0]
        BY <3>1, <4>1, <4>2, PlaceAbove
      <4>4. r # 0
        BY <3>1, <4>1, PlaceAbove
      <4>5. j \in 1 .. n
        BY <4>3
      <4>6. SettingsPos(t, i) = [row |-> r, col |-> 0]
        BY <4>1 DEF Placed
      <4> QED BY <2>3, <4>2, <4>3, <4>4, <4>5, <4>6
    <3>4. CASE c = 1
      <4>1. Placed(t, i, r, 1)
        BY <3>2, <3>4
      <4>2. PICK j \in Nat \ {0} : j < i /\ SettingsPos(t, j) = [row |-> r, col |-> 0]
        BY <3>1, <4>1, PlaceBeside
      <4>3. j \in 1 .. n
        BY <4>2
      <4>4. SettingsPos(t, i) = [row |-> r, col |-> 1]
        BY <4>1 DEF Placed
      <4> QED BY <2>2, <4>2, <4>3, <4>4
    <3> QED BY <3>3, <3>4
  <2>5. \A i \in S : i # 1 => \E j \in S : j < i
    BY <2>1, <2>4 DEF Arrows
  <2>6. \A i \in 2 .. n : 1 .. i - 1 \subseteq S => i \in S
    <3>1. SUFFICES ASSUME NEW i \in 2 .. n, 1 .. i - 1 \subseteq S PROVE i \in S
      OBVIOUS
    <3>2. i \in 1 .. n /\ i # 1
      BY <3>1
    <3>3. \A j \in 1 .. n : j < i => j \in S
      BY <3>1
    <3> QED BY <2>1, <2>4, <3>2, <3>3 DEF Arrows
  <2> QED BY <1>1, <2>5, <2>6, DownAndUp
<1> QED BY <1>1 DEF Leads

-----------------------------------------------------------------------------
(* The panels: what a look leaves behind.                                    *)

PanelSet == {"confirm", "theme", "pointer", "forward", "reaction", "help", "settings", "style"}

Configs == [theme : 1..Themes, style : 1..StyleCount, pointer : 1..PointerCount, mouse : BOOLEAN]

\* Every highlight is on an item of its list, and so is what Esc puts back.
AtInv ==
    /\ at \in [PanelSet -> Nat]
    /\ \A p \in PanelSet : at[p] \in 0 .. Size[p]

OriginalInv ==
    /\ original \in [Previews -> Nat]
    /\ \A p \in Previews : original[p] \in 1 .. Size[p]

MemoryInv ==
    /\ config \in Configs /\ disk \in Configs
    /\ icon \in 1 .. PointerCount /\ settingsReturnIdx \in 1 .. Settings
    /\ hits \in 0 .. ListCount /\ mixed \in BOOLEAN

\* What the file says is shown or, under a preview, what Esc puts back.
Undoable ==
    /\ config.mouse = disk.mouse /\ config.pointer = disk.pointer
    /\ disk.theme = IF IsOpen("theme") THEN original["theme"] ELSE config.theme
    /\ disk.style = IF IsOpen("style") THEN original["style"] ELSE config.style
    /\ disk.pointer = IF IsOpen("pointer") THEN original["pointer"] ELSE icon

PanelsInv == AtInv /\ OriginalInv /\ MemoryInv /\ (~mixed => Undoable)

LEMMA PanelNames == Range(Panels) = PanelSet
<1>1. /\ DOMAIN Panels = 1 .. 8
      /\ Panels[1] = "confirm" /\ Panels[2] = "theme" /\ Panels[3] = "pointer" /\ Panels[4] = "forward"
      /\ Panels[5] = "reaction" /\ Panels[6] = "help" /\ Panels[7] = "settings" /\ Panels[8] = "style"
  BY DEF Panels
<1>2. \A i \in 1 .. 8 : i = 1 \/ i = 2 \/ i = 3 \/ i = 4 \/ i = 5 \/ i = 6 \/ i = 7 \/ i = 8
  OBVIOUS
<1> QED BY <1>1, <1>2 DEF Range, PanelSet

LEMMA MarksCount ==
    /\ ThemeGroups \in Seq(Nat \ {0}) /\ HelpGroups \in Seq(Nat \ {0})
    /\ Themes = Total(ThemeGroups) /\ HelpCount = Total(HelpGroups)
    /\ Themes \in Nat \ {0} /\ HelpCount \in Nat \ {0} /\ Settings \in Nat \ {0}
    /\ PointerCount \in Nat \ {0} /\ StyleCount \in Nat \ {0} /\ ListCount \in Nat \ {0}
    /\ Toggles \in Nat \ {0} /\ Selectors \in Nat \ {0}
<1>1. \A groups \in Seq(Nat \ {0}) \ {<<>>} : Total(groups) \in Nat \ {0}
  BY TotalCounts
<1> QED BY <1>1, PanelAssumption DEF Themes, HelpCount, Settings, Total

LEMMA SizeIs ==
    /\ Size["confirm"] = 2 /\ Size["theme"] = Themes /\ Size["pointer"] = PointerCount
    /\ Size["style"] = StyleCount /\ Size["reaction"] = ListCount /\ Size["help"] = HelpCount
    /\ Size["settings"] = Settings /\ Size["forward"] = IF hits = 0 THEN 1 ELSE hits
  BY PanelNames DEF Size, PanelSet

LEMMA SizeStays ==
    /\ \A p \in PanelSet \ {"forward"} : Size'[p] = Size[p]
    /\ hits' = hits => Size' = Size
    /\ (Size["forward"])' = IF hits' = 0 THEN 1 ELSE hits'
<1>1. /\ Size'["confirm"] = 2 /\ Size'["theme"] = Themes /\ Size'["pointer"] = PointerCount
      /\ Size'["style"] = StyleCount /\ Size'["reaction"] = ListCount /\ Size'["help"] = HelpCount
      /\ Size'["settings"] = Settings /\ Size'["forward"] = IF hits' = 0 THEN 1 ELSE hits'
  BY PanelNames DEF Size, PanelSet
<1>2. \A p \in PanelSet \ {"forward"} : Size'[p] = Size[p]
  BY <1>1, SizeIs DEF PanelSet
<1>3. hits' = hits => Size' = Size
  BY DEF Size
<1> QED BY <1>1, <1>2, <1>3

LEMMA SizesCount ==
    ASSUME MemoryInv  PROVE \A p \in PanelSet : Size[p] \in Nat \ {0}
<1>1. (IF hits = 0 THEN 1 ELSE hits) \in Nat \ {0}
  BY MarksCount DEF MemoryInv
<1> QED BY <1>1, SizeIs, MarksCount DEF PanelSet

LEMMA PanelsAreTyped ==
    ASSUME PanelsInv  PROVE PanelsTypeOK
  BY PanelNames DEF PanelsInv, AtInv, MemoryInv, PanelsTypeOK, Configs

LEMMA UndoneIs ==
    ASSUME PanelsInv  PROVE PreviewIsUndone
<1> SUFFICES ASSUME ~mixed, \A p \in Previews : ~IsOpen(p)
             PROVE  config = disk /\ icon = disk.pointer
  BY DEF PreviewIsUndone
<1>1. ~IsOpen("theme") /\ ~IsOpen("style") /\ ~IsOpen("pointer")
  BY DEF Previews
<1>2. Undoable
  BY DEF PanelsInv
<1>3. /\ config.mouse = disk.mouse /\ config.pointer = disk.pointer
      /\ config.theme = disk.theme /\ config.style = disk.style /\ icon = disk.pointer
  BY <1>1, <1>2 DEF Undoable
<1>4. config \in Configs /\ disk \in Configs
  BY DEF PanelsInv, MemoryInv
<1> QED BY <1>3, <1>4 DEF Configs

LEMMA PanelsStart ==
    ASSUME PanelsInit  PROVE PanelsInv
<1> USE MarksCount
<1>1. config \in Configs /\ disk \in Configs /\ disk = config
  BY DEF PanelsInit, Configs
<1>2. at \in [PanelSet -> Nat] /\ \A p \in PanelSet : at[p] = 0
  BY PanelNames DEF PanelsInit
<1>3. original \in [Previews -> Nat] /\ \A p \in Previews : original[p] = 1
  BY DEF PanelsInit
<1>4. MemoryInv
  <2>1. hits = ListCount /\ icon = 1 /\ settingsReturnIdx = 1
    BY DEF PanelsInit
  <2>2. mixed \in BOOLEAN
    BY DEF PanelsInit
  <2>3. hits \in 0 .. ListCount
    BY <2>1
  <2> QED BY <1>1, <2>1, <2>2, <2>3 DEF MemoryInv
<1>6. AtInv /\ OriginalInv
  <2>1. \A p \in PanelSet : Size[p] \in Nat \ {0}
    BY <1>4, SizesCount
  <2>2. Previews \subseteq PanelSet
    BY DEF Previews, PanelSet
  <2> QED BY <1>2, <1>3, <2>1, <2>2 DEF AtInv, OriginalInv
<1>5. Undoable
  <2>1. disk.theme = 1 /\ disk.style = 1 /\ disk.pointer = 1
    BY DEF PanelsInit
  <2> QED BY <1>1, <1>2, <2>1 DEF PanelsInit, Undoable, IsOpen, PanelSet
<1> QED BY <1>4, <1>5, <1>6 DEF PanelsInv

\* A highlight moves, a panel is opened or closed.
LEMMA Moved ==
    ASSUME AtInv, Size' = Size, NEW p \in PanelSet, NEW i \in 0 .. Size[p], Size[p] \in Nat,
           at' = [at EXCEPT ![p] = i]
    PROVE  AtInv' /\ at'[p] = i /\ \A q \in PanelSet \ {p} : at'[q] = at[q]
  BY DEF AtInv

\* One panel is closed and another one opened.
LEMMA MovedTwo ==
    ASSUME AtInv, Size' = Size, NEW p \in PanelSet, NEW q \in PanelSet, p # q,
           NEW i \in 0 .. Size[p], NEW j \in 0 .. Size[q], Size[p] \in Nat, Size[q] \in Nat,
           at' = [at EXCEPT ![p] = i, ![q] = j]
    PROVE  AtInv' /\ at'[p] = i /\ at'[q] = j /\ \A r \in PanelSet \ {p, q} : at'[r] = at[r]
  BY DEF AtInv

LEMMA OriginalSet ==
    ASSUME OriginalInv, \A p \in Previews : Size'[p] = Size[p],
           NEW p \in Previews, NEW i \in 1 .. Size[p], Size[p] \in Nat,
           original' = [original EXCEPT ![p] = i]
    PROVE  OriginalInv' /\ original'[p] = i /\ \A q \in Previews \ {p} : original'[q] = original[q]
  BY DEF OriginalInv

LEMMA PreviewPanels ==
    /\ Previews \subseteq PanelSet \ {"forward"}
    /\ "theme" \in Previews /\ "style" \in Previews /\ "pointer" \in Previews
  BY DEF Previews, PanelSet

LEMMA ThemeSet ==
    ASSUME NEW c \in Configs, NEW t \in 1 .. Themes
    PROVE  /\ [c EXCEPT !.theme = t] \in Configs /\ [c EXCEPT !.theme = t].theme = t
           /\ [c EXCEPT !.theme = t].style = c.style /\ [c EXCEPT !.theme = t].pointer = c.pointer
           /\ [c EXCEPT !.theme = t].mouse = c.mouse
  BY DEF Configs

LEMMA StyleSet ==
    ASSUME NEW c \in Configs, NEW t \in 1 .. StyleCount
    PROVE  /\ [c EXCEPT !.style = t] \in Configs /\ [c EXCEPT !.style = t].style = t
           /\ [c EXCEPT !.style = t].theme = c.theme /\ [c EXCEPT !.style = t].pointer = c.pointer
           /\ [c EXCEPT !.style = t].mouse = c.mouse
  BY DEF Configs

LEMMA PointerSet ==
    ASSUME NEW c \in Configs, NEW t \in 1 .. PointerCount
    PROVE  [c EXCEPT !.pointer = t] \in Configs /\ [c EXCEPT !.pointer = t].pointer = t
  BY DEF Configs

LEMMA MouseSet ==
    ASSUME NEW c \in Configs, NEW b \in BOOLEAN
    PROVE  [c EXCEPT !.mouse = b] \in Configs /\ [c EXCEPT !.mouse = b].pointer = c.pointer
  BY DEF Configs

\* What is saved while no preview is open is what is shown.
LEMMA SavedWhole ==
    ASSUME disk' = config', icon' = config'.pointer, \A p \in Previews : at'[p] = 0
    PROVE  Undoable'
  BY PreviewPanels DEF Undoable, IsOpen

LEMMA NotBusy ==
    ASSUME NEW p, ~Busy(p)  PROVE \A q \in Previews \ {p} : at[q] = 0
  BY DEF Busy, IsOpen

LEMMA BusyIs ==
    ASSUME NEW p, mixed \in BOOLEAN, mixed' = (mixed \/ Busy(p))
    PROVE  mixed' \in BOOLEAN /\ (~mixed' => ~mixed /\ ~Busy(p))
  OBVIOUS

LEMMA ReopenIs ==
    ASSUME NEW p, mixed \in BOOLEAN, mixed' = (mixed \/ IsOpen(p))
    PROVE  mixed' \in BOOLEAN /\ (~mixed' => ~mixed /\ ~IsOpen(p))
  OBVIOUS

\* Saving in the middle of nothing: Alt+M, the toggles and the theme command.
LEMMA SaveKeeps ==
    ASSUME PanelsInv, config' \in Configs, config'.pointer = config.pointer, disk' = config',
           mixed' = (mixed \/ Busy("none")),
           UNCHANGED <<at, original, hits, icon, settingsReturnIdx>>
    PROVE  PanelsInv'
<1>1. mixed' \in BOOLEAN /\ (~mixed' => ~mixed /\ ~Busy("none"))
  BY BusyIs DEF PanelsInv, MemoryInv
<1>2. AtInv' /\ OriginalInv' /\ MemoryInv'
  BY <1>1, SizeStays DEF PanelsInv, AtInv, OriginalInv, MemoryInv
<1>3. ASSUME ~mixed' PROVE Undoable'
  <2>1. \A p \in Previews : at[p] = 0
    BY <1>1, <1>3, NotBusy DEF Previews
  <2>2. icon = disk.pointer /\ config.pointer = disk.pointer
    BY <1>1, <1>3, <2>1, PreviewPanels DEF PanelsInv, Undoable, IsOpen
  <2> QED BY <2>1, <2>2, SavedWhole
<1> QED BY <1>2, <1>3 DEF PanelsInv

LEMMA AltMKeeps ==
    ASSUME PanelsInv, AltM  PROVE PanelsInv'
<1>1. PICK b \in BOOLEAN : b = ~config.mouse
  OBVIOUS
<1>2. config' = [config EXCEPT !.mouse = b]
  BY <1>1 DEF AltM, PanelsInv, MemoryInv, Configs
<1>3. config \in Configs
  BY DEF PanelsInv, MemoryInv
<1>4. config' \in Configs /\ config'.pointer = config.pointer
  BY <1>2, <1>3, MouseSet
<1> QED BY <1>4, SaveKeeps DEF AltM, SaveConfig, return

LEMMA RunThemeCommandKeeps ==
    ASSUME PanelsInv, RunThemeCommand  PROVE PanelsInv'
<1>1. config \in Configs
  BY DEF PanelsInv, MemoryInv
<1>2. config' \in Configs /\ config'.pointer = config.pointer
  BY <1>1, ThemeSet DEF RunThemeCommand
<1> QED BY <1>2, SaveKeeps DEF RunThemeCommand, SaveConfig, return

\* A panel that shows no preview moves, opens or closes.
LEMMA Aside ==
    ASSUME PanelsInv, NEW p \in PanelSet \ Previews, NEW i \in 0 .. Size'[p],
           at' = [at EXCEPT ![p] = i],
           hits' = hits \/ (p = "forward" /\ hits' \in 0 .. ListCount),
           UNCHANGED <<original, config, icon, disk, settingsReturnIdx, mixed>>
    PROVE  PanelsInv'
<1>1. AtInv'
  <2>1. \A q \in PanelSet \ {p} : Size'[q] = Size[q]
    BY SizeStays
  <2>2. MemoryInv'
    BY DEF PanelsInv, MemoryInv
  <2>3. i \in Nat
    BY SizeStays, SizeIs, MarksCount, <2>2 DEF PanelSet, MemoryInv
  <2> QED BY <2>1, <2>3 DEF PanelsInv, AtInv
<1>2. OriginalInv' /\ MemoryInv'
  BY SizeStays, PreviewPanels DEF PanelsInv, OriginalInv, MemoryInv
<1>3. \A q \in Previews : at'[q] = at[q]
  BY PreviewPanels DEF PanelsInv, AtInv
<1>4. Undoable => Undoable'
  BY <1>3, PreviewPanels DEF Undoable, IsOpen
<1> QED BY <1>1, <1>2, <1>4 DEF PanelsInv

LEMMA PreviewSizes ==
    ASSUME PanelsInv
    PROVE  /\ \A p \in PanelSet : Size[p] \in Nat \ {0}
           /\ config.theme \in 1 .. Size["theme"] /\ config.style \in 1 .. Size["style"]
           /\ config.pointer \in 1 .. Size["pointer"] /\ icon \in 1 .. Size["pointer"]
           /\ original["theme"] \in 1 .. Size["theme"] /\ original["style"] \in 1 .. Size["style"]
           /\ original["pointer"] \in 1 .. Size["pointer"]
           /\ mixed \in BOOLEAN /\ config \in Configs /\ disk \in Configs
<1>1. MemoryInv /\ OriginalInv
  BY DEF PanelsInv
<1>2. config.theme \in 1 .. Themes /\ config.style \in 1 .. StyleCount /\ config.pointer \in 1 .. PointerCount
  BY <1>1 DEF MemoryInv, Configs
<1> QED BY <1>1, <1>2, SizesCount, SizeIs, PreviewPanels DEF MemoryInv, OriginalInv

\* A preview opens at what is shown.
LEMMA PreviewOpens ==
    ASSUME PanelsInv, NEW p \in Previews, NEW v \in 1 .. Size[p],
           p = "theme" => v = config.theme, p = "style" => v = config.style, p = "pointer" => v = icon,
           AtInv', at'[p] = v, \A q \in Previews \ {p} : at'[q] = at[q],
           original' = [original EXCEPT ![p] = v], mixed' = (mixed \/ IsOpen(p)),
           UNCHANGED <<hits, config, icon, disk>>, settingsReturnIdx' \in 1 .. Settings
    PROVE  PanelsInv'
<1>1. mixed' \in BOOLEAN /\ (~mixed' => ~mixed /\ ~IsOpen(p))
  BY ReopenIs, PreviewSizes
<1>2. OriginalInv' /\ original'[p] = v /\ \A q \in Previews \ {p} : original'[q] = original[q]
  BY SizeStays, PreviewSizes, PreviewPanels, OriginalSet DEF PanelsInv
<1>3. MemoryInv'
  BY <1>1 DEF PanelsInv, MemoryInv
<1>4. v # 0
  BY PreviewPanels, PreviewSizes
<1>5. ASSUME ~mixed' PROVE Undoable'
  <2>1. Undoable /\ at[p] = 0
    BY <1>1, <1>5 DEF PanelsInv, IsOpen
  <2> QED BY <1>2, <1>4, <2>1 DEF Undoable, IsOpen, Previews
<1> QED BY <1>2, <1>3, <1>5 DEF PanelsInv

\* A preview follows the highlight.
LEMMA PreviewMoves ==
    ASSUME PanelsInv, NEW p \in Previews, IsOpen(p), NEW i \in 1 .. Size[p],
           at' = [at EXCEPT ![p] = i],
           \/ p = "theme" /\ config' = [config EXCEPT !.theme = i] /\ icon' = icon
           \/ p = "style" /\ config' = [config EXCEPT !.style = i] /\ icon' = icon
           \/ p = "pointer" /\ config' = config /\ icon' = i,
           UNCHANGED <<original, hits, disk, mixed, settingsReturnIdx>>
    PROVE  PanelsInv'
<1>1. Size[p] \in Nat \ {0} /\ i \in 0 .. Size[p] /\ i # 0 /\ p \in PanelSet /\ Size' = Size
  BY PreviewSizes, PreviewPanels, SizeStays
<1>2. AtInv' /\ at'[p] = i /\ \A q \in PanelSet \ {p} : at'[q] = at[q]
  BY <1>1, Moved DEF PanelsInv
<1>3. OriginalInv'
  BY <1>1 DEF PanelsInv, OriginalInv
<1>4. config \in Configs /\ i \in 1 .. (IF p = "theme" THEN Themes ELSE IF p = "style" THEN StyleCount ELSE PointerCount)
  BY PreviewSizes, SizeIs DEF Previews
<1>5. CASE p = "theme"
  <2>1. config' = [config EXCEPT !.theme = i] /\ icon' = icon /\ i \in 1 .. Themes
    BY <1>4, <1>5
  <2>2. /\ config' \in Configs /\ config'.style = config.style /\ config'.pointer = config.pointer
        /\ config'.mouse = config.mouse
    BY <1>4, <2>1, ThemeSet
  <2>3. MemoryInv'
    BY <2>1, <2>2 DEF PanelsInv, MemoryInv
  <2>4. Undoable => Undoable'
    BY <1>1, <1>2, <1>5, <2>1, <2>2, PreviewPanels DEF Undoable, IsOpen
  <2> QED BY <1>2, <1>3, <2>3, <2>4 DEF PanelsInv
<1>6. CASE p = "style"
  <2>1. config' = [config EXCEPT !.style = i] /\ icon' = icon /\ i \in 1 .. StyleCount
    BY <1>4, <1>6
  <2>2. /\ config' \in Configs /\ config'.theme = config.theme /\ config'.pointer = config.pointer
        /\ config'.mouse = config.mouse
    BY <1>4, <2>1, StyleSet
  <2>3. MemoryInv'
    BY <2>1, <2>2 DEF PanelsInv, MemoryInv
  <2>4. Undoable => Undoable'
    BY <1>1, <1>2, <1>6, <2>1, <2>2, PreviewPanels DEF Undoable, IsOpen
  <2> QED BY <1>2, <1>3, <2>3, <2>4 DEF PanelsInv
<1>7. CASE p = "pointer"
  <2>1. config' = config /\ icon' = i /\ i \in 1 .. PointerCount
    BY <1>4, <1>7
  <2>2. MemoryInv'
    BY <2>1 DEF PanelsInv, MemoryInv
  <2>3. Undoable => Undoable'
    BY <1>1, <1>2, <1>7, <2>1, PreviewPanels DEF Undoable, IsOpen
  <2> QED BY <1>2, <1>3, <2>2, <2>3 DEF PanelsInv
<1> QED BY <1>5, <1>6, <1>7 DEF Previews

\* Esc puts back what was shown when the preview was opened.
LEMMA PreviewIsLeft ==
    ASSUME PanelsInv, NEW p \in Previews, IsOpen(p), AtInv', OriginalInv',
           at'[p] = 0, \A q \in Previews \ {p} : at'[q] = at[q],
           \A q \in Previews \ {p} : original'[q] = original[q],
           \/ p = "theme" /\ config' = [config EXCEPT !.theme = original["theme"]] /\ icon' = icon
           \/ p = "style" /\ config' = [config EXCEPT !.style = original["style"]] /\ icon' = icon
           \/ p = "pointer" /\ config' = config /\ icon' = original["pointer"],
           UNCHANGED <<hits, disk, mixed, settingsReturnIdx>>
    PROVE  PanelsInv'
<1>1. /\ config \in Configs /\ original["theme"] \in 1 .. Themes /\ original["style"] \in 1 .. StyleCount
      /\ original["pointer"] \in 1 .. PointerCount
  BY PreviewSizes, SizeIs
<1>2. CASE p = "theme"
  <2>1. config' = [config EXCEPT !.theme = original["theme"]] /\ icon' = icon
    BY <1>2
  <2>2. /\ config' \in Configs /\ config'.style = config.style /\ config'.pointer = config.pointer
        /\ config'.mouse = config.mouse /\ config'.theme = original["theme"]
    BY <1>1, <2>1, ThemeSet
  <2>3. MemoryInv'
    BY <2>1, <2>2 DEF PanelsInv, MemoryInv
  <2>4. Undoable => Undoable'
    BY <1>2, <2>1, <2>2, PreviewPanels DEF Undoable, IsOpen
  <2> QED BY <2>3, <2>4 DEF PanelsInv
<1>3. CASE p = "style"
  <2>1. config' = [config EXCEPT !.style = original["style"]] /\ icon' = icon
    BY <1>3
  <2>2. /\ config' \in Configs /\ config'.theme = config.theme /\ config'.pointer = config.pointer
        /\ config'.mouse = config.mouse /\ config'.style = original["style"]
    BY <1>1, <2>1, StyleSet
  <2>3. MemoryInv'
    BY <2>1, <2>2 DEF PanelsInv, MemoryInv
  <2>4. Undoable => Undoable'
    BY <1>3, <2>1, <2>2, PreviewPanels DEF Undoable, IsOpen
  <2> QED BY <2>3, <2>4 DEF PanelsInv
<1>4. CASE p = "pointer"
  <2>1. config' = config /\ icon' = original["pointer"]
    BY <1>4
  <2>2. MemoryInv'
    BY <1>1, <2>1 DEF PanelsInv, MemoryInv
  <2>3. Undoable => Undoable'
    BY <1>4, <2>1, PreviewPanels DEF Undoable, IsOpen
  <2> QED BY <2>2, <2>3 DEF PanelsInv
<1> QED BY <1>2, <1>3, <1>4 DEF Previews

\* Enter saves what is shown, under another preview or not.
LEMMA PreviewIsTaken ==
    ASSUME PanelsInv, NEW p \in Previews, IsOpen(p), AtInv', OriginalInv',
           at'[p] = 0, \A q \in Previews \ {p} : at'[q] = at[q],
           config' \in Configs, disk' = config', mixed' = (mixed \/ Busy(p)),
           \/ icon' = config'.pointer
           \/ config'.pointer = config.pointer /\ icon' = icon /\ p # "pointer",
           icon' \in 1 .. PointerCount, UNCHANGED <<hits, settingsReturnIdx>>
    PROVE  PanelsInv'
<1>1. mixed' \in BOOLEAN /\ (~mixed' => ~mixed /\ ~Busy(p))
  BY BusyIs, PreviewSizes
<1>2. MemoryInv'
  BY <1>1 DEF PanelsInv, MemoryInv
<1>3. ASSUME ~mixed' PROVE Undoable'
  <2>1. \A q \in Previews : at'[q] = 0
    BY <1>1, <1>3, NotBusy
  <2>2. CASE p # "pointer" /\ config'.pointer = config.pointer /\ icon' = icon
    <3>1. at["pointer"] = 0
      BY <2>1, <2>2, PreviewPanels
    <3>2. icon = config.pointer
      BY <1>1, <1>3, <3>1 DEF PanelsInv, Undoable, IsOpen
    <3> QED BY <2>1, <2>2, <3>2, SavedWhole
  <2> QED BY <2>1, <2>2, SavedWhole
<1> QED BY <1>2, <1>3 DEF PanelsInv

LEMMA PanelCloses ==
    ASSUME PanelsInv, hits' = hits, NEW p \in Previews, Close(p) \/ ReopenSettings(p)
    PROVE  /\ AtInv' /\ OriginalInv' /\ at'[p] = 0
           /\ \A q \in Previews \ {p} : at'[q] = at[q]
           /\ \A q \in Previews \ {p} : original'[q] = original[q]
<1>1. /\ Size' = Size /\ p \in PanelSet /\ Size[p] \in Nat \ {0} /\ 0 \in 0 .. Size[p] /\ 1 \in 1 .. Size[p]
      /\ Previews \subseteq PanelSet
  BY PreviewSizes, PreviewPanels, SizeStays
<1>2. original' = [original EXCEPT ![p] = 1]
  BY DEF Close, ReopenSettings
<1>3. OriginalInv' /\ \A q \in Previews \ {p} : original'[q] = original[q]
  BY <1>1, <1>2, OriginalSet DEF PanelsInv
<1>4. CASE Close(p)
  <2>1. at' = [at EXCEPT ![p] = 0]
    BY <1>4 DEF Close
  <2> QED BY <1>1, <1>3, <2>1, Moved DEF PanelsInv
<1>5. CASE ReopenSettings(p)
  <2>1. at' = [at EXCEPT ![p] = 0, !["settings"] = settingsReturnIdx]
    BY <1>5 DEF ReopenSettings
  <2>2. /\ "settings" \in PanelSet /\ "settings" # p /\ "settings" \notin Previews
        /\ settingsReturnIdx \in 0 .. Size["settings"] /\ Size["settings"] \in Nat
    BY SizeIs, MarksCount DEF Previews, PanelSet, PanelsInv, MemoryInv
  <2>3. AtInv' /\ at'[p] = 0 /\ \A r \in PanelSet \ {p, "settings"} : at'[r] = at[r]
    <3>1. AtInv /\ Size[p] \in Nat
      BY <1>1 DEF PanelsInv
    <3> QED BY <1>1, <2>1, <2>2, <3>1, MovedTwo
  <2>4. \A q \in Previews \ {p} : q \in PanelSet \ {p, "settings"}
    BY <1>1, <2>2
  <2> QED BY <1>3, <2>3, <2>4
<1> QED BY <1>4, <1>5

LEMMA ThemeKeyKeeps ==
    ASSUME PanelsInv, ThemeKey  PROVE PanelsInv'
<1>1. IsOpen("theme") /\ UNCHANGED <<hits, icon, settingsReturnIdx>>
  BY DEF ThemeKey, Owner
<1>2. config \in Configs /\ Size["theme"] = Themes /\ icon \in 1 .. PointerCount /\ "theme" \in Previews
  BY SizeIs, PreviewPanels DEF PanelsInv, MemoryInv
<1>3. at["theme"] \in 1 .. Themes
  BY <1>1, <1>2, PreviewPanels, MarksCount DEF PanelsInv, AtInv, IsOpen
<1>4. ASSUME NEW arrow \in Arrows, NEW item, item = Grouped(ThemeGroups, at["theme"], arrow),
             at' = [at EXCEPT !["theme"] = item], config' = [config EXCEPT !.theme = item],
             NoSave, UNCHANGED <<original, mixed>>
      PROVE  PanelsInv'
  <2>1. item \in 1 .. Themes
    BY <1>3, <1>4, MarksCount, GroupedIs
  <2> QED BY <1>1, <1>2, <1>4, <2>1, PreviewMoves DEF NoSave
<1>5. CASE config' = [config EXCEPT !.theme = at["theme"]] /\ SaveConfig(config')
           /\ CloseTheme /\ mixed' = (mixed \/ Busy("theme"))
  <2>1. Close("theme") \/ ReopenSettings("theme")
    BY <1>5 DEF CloseTheme
  <2>2. config' \in Configs /\ config'.pointer = config.pointer
    BY <1>2, <1>3, <1>5, ThemeSet
  <2>3. /\ AtInv' /\ OriginalInv' /\ at'["theme"] = 0
        /\ \A q \in Previews \ {"theme"} : at'[q] = at[q]
    BY <1>1, <1>2, <2>1, PanelCloses
  <2> QED BY <1>1, <1>2, <1>5, <2>2, <2>3, PreviewIsTaken DEF SaveConfig
<1>6. CASE config' = [config EXCEPT !.theme = original["theme"]] /\ CloseTheme /\ NoSave /\ UNCHANGED mixed
  <2>1. Close("theme") \/ ReopenSettings("theme")
    BY <1>6 DEF CloseTheme
  <2> QED BY <1>1, <1>2, <1>6, <2>1, PanelCloses, PreviewIsLeft DEF NoSave
<1> QED BY <1>4, <1>5, <1>6 DEF ThemeKey

LEMMA StyleKeyKeeps ==
    ASSUME PanelsInv, StyleKey  PROVE PanelsInv'
<1>1. IsOpen("style") /\ UNCHANGED <<hits, icon, settingsReturnIdx>>
  BY DEF StyleKey, Owner, return
<1>2. config \in Configs /\ Size["style"] = StyleCount /\ icon \in 1 .. PointerCount /\ "style" \in Previews
  BY SizeIs, PreviewPanels DEF PanelsInv, MemoryInv
<1>3. at["style"] \in 1 .. StyleCount
  BY <1>1, <1>2, PreviewPanels, MarksCount DEF PanelsInv, AtInv, IsOpen
<1>4. ASSUME NEW arrow \in Arrows, NEW long \in BOOLEAN, NEW item,
             item = Handle(StyleCount, long, at["style"], arrow),
             at' = [at EXCEPT !["style"] = item], config' = [config EXCEPT !.style = item],
             NoSave, UNCHANGED <<original, mixed>>
      PROVE  PanelsInv'
  <2>1. item \in 1 .. StyleCount
    BY <1>3, <1>4, MarksCount, HandleIs
  <2> QED BY <1>1, <1>2, <1>4, <2>1, PreviewMoves DEF NoSave
<1>5. CASE config' = [config EXCEPT !.style = at["style"]] /\ SaveConfig(config')
           /\ ReopenSettings("style") /\ mixed' = (mixed \/ Busy("style"))
  <2>1. config' \in Configs /\ config'.pointer = config.pointer
    BY <1>2, <1>3, <1>5, StyleSet
  <2>2. /\ AtInv' /\ OriginalInv' /\ at'["style"] = 0
        /\ \A q \in Previews \ {"style"} : at'[q] = at[q]
    BY <1>1, <1>2, <1>5, PanelCloses
  <2> QED BY <1>1, <1>2, <1>5, <2>1, <2>2, PreviewIsTaken DEF SaveConfig
<1>6. CASE config' = [config EXCEPT !.style = original["style"]] /\ ReopenSettings("style")
           /\ NoSave /\ UNCHANGED mixed
  BY <1>1, <1>2, <1>6, PanelCloses, PreviewIsLeft DEF NoSave
<1> QED BY <1>4, <1>5, <1>6 DEF StyleKey

LEMMA PointerKeyKeeps ==
    ASSUME PanelsInv, PointerKey  PROVE PanelsInv'
<1>1. IsOpen("pointer") /\ UNCHANGED <<hits, settingsReturnIdx>>
  BY DEF PointerKey, Owner, return
<1>2. /\ config \in Configs /\ Size["pointer"] = PointerCount /\ "pointer" \in Previews
      /\ original["pointer"] \in 1 .. PointerCount
  BY SizeIs, PreviewPanels, PreviewSizes
<1>3. at["pointer"] \in 1 .. PointerCount
  BY <1>1, <1>2, PreviewPanels, MarksCount DEF PanelsInv, AtInv, IsOpen
<1>4. ASSUME NEW arrow \in Arrows, NEW item,
             item = IF PointerCount <= 4 THEN OneColumn(PointerCount, at["pointer"], arrow)
                    ELSE Grouped(<<PointerCount>>, at["pointer"], arrow),
             at' = [at EXCEPT !["pointer"] = item], icon' = item,
             NoSave, UNCHANGED <<original, config, mixed>>
      PROVE  PanelsInv'
  <2>1. <<PointerCount>> \in Seq(Nat \ {0}) /\ Len(<<PointerCount>>) = 1 /\ <<PointerCount>>[1] = PointerCount
    BY MarksCount
  <2>2. Total(<<PointerCount>>) = PointerCount
    <3>1. PICK groups \in Seq(Nat \ {0}) : groups = <<PointerCount>>
      BY <2>1
    <3>2. Len(groups) = 1 /\ groups[1] = PointerCount
      BY <2>1, <3>1
    <3>3. GroupOffset(groups, 1) = 0 /\ GroupOffset(groups, 1 + 1) = GroupOffset(groups, 1) + groups[1]
      BY <3>2, OffsetSteps, SMTT(20)
    <3>4. Total(groups) = PointerCount
      BY <3>2, <3>3, MarksCount DEF Total
    <3> QED BY <3>1, <3>4
  <2>3. Grouped(<<PointerCount>>, at["pointer"], arrow) \in 1 .. PointerCount
    BY <1>3, <2>1, <2>2, GroupedIs
  <2>4. OneColumn(PointerCount, at["pointer"], arrow) \in 1 .. PointerCount
    BY <1>3, MarksCount, OneColumnIs
  <2>5. item \in 1 .. PointerCount
    BY <1>4, <2>3, <2>4
  <2> QED BY <1>1, <1>2, <1>4, <2>5, PreviewMoves DEF NoSave
<1>5. CASE icon' = at["pointer"] /\ Close("pointer") /\ config' = [config EXCEPT !.pointer = icon']
           /\ SaveConfig(config') /\ mixed' = (mixed \/ Busy("pointer"))
  <2>1. config' = [config EXCEPT !.pointer = at["pointer"]]
    BY <1>5
  <2>2. config' \in Configs /\ config'.pointer = icon'
    BY <1>2, <1>3, <1>5, <2>1, PointerSet
  <2>3. /\ AtInv' /\ OriginalInv' /\ at'["pointer"] = 0
        /\ \A q \in Previews \ {"pointer"} : at'[q] = at[q]
    BY <1>1, <1>2, <1>5, PanelCloses
  <2> QED BY <1>1, <1>2, <1>3, <1>5, <2>2, <2>3, PreviewIsTaken DEF SaveConfig
<1>6. CASE icon' = original["pointer"] /\ Close("pointer") /\ NoSave /\ UNCHANGED <<config, mixed>>
  BY <1>1, <1>2, <1>6, PanelCloses, PreviewIsLeft DEF NoSave
<1> QED BY <1>4, <1>5, <1>6 DEF PointerKey

\* The panels without a preview.
LEMMA AsideKeeps ==
    ASSUME PanelsInv, OpenForwardPicker \/ OpenReactionList \/ QuestionMark \/ ForwardKey \/ ReactionKey
                      \/ HelpKey \/ ConfirmKey
    PROVE  PanelsInv'
<1> USE DEF memory, return
<1>1. /\ "forward" \in PanelSet \ Previews /\ "reaction" \in PanelSet \ Previews
      /\ "help" \in PanelSet \ Previews /\ "confirm" \in PanelSet \ Previews
  BY DEF PanelSet, Previews
<1>2. /\ Size'["confirm"] = 2 /\ Size'["reaction"] = ListCount /\ Size'["help"] = HelpCount
      /\ Size'["forward"] = IF hits' = 0 THEN 1 ELSE hits'
  BY SizeStays, SizeIs, <1>1
<1>3. /\ hits \in 0 .. ListCount /\ at \in [PanelSet -> Nat]
      /\ at["forward"] \in 0 .. (IF hits = 0 THEN 1 ELSE hits)
      /\ at["help"] \in 0 .. HelpCount /\ at["confirm"] \in 0 .. 2
  BY <1>1, SizeIs DEF PanelsInv, MemoryInv, AtInv
<1>4. CASE OpenForwardPicker
  <2>1. hits' = ListCount /\ hits' \in 0 .. ListCount /\ 1 \in 0 .. Size'["forward"]
    BY <1>2, <1>4, MarksCount DEF OpenForwardPicker
  <2> QED BY <1>1, <1>4, <2>1, Aside DEF OpenForwardPicker, Open
<1>5. CASE OpenReactionList
  <2>1. 1 \in 0 .. Size'["reaction"]
    BY <1>2, MarksCount
  <2> QED BY <1>1, <1>5, <2>1, Aside DEF OpenReactionList, Open
<1>6. CASE QuestionMark
  <2>1. 1 \in 0 .. Size'["help"]
    BY <1>2, MarksCount
  <2> QED BY <1>1, <1>6, <2>1, Aside DEF QuestionMark, Open
<1>7. CASE ForwardKey
  <2>1. UNCHANGED <<original, config, icon, disk, settingsReturnIdx, mixed>> /\ IsOpen("forward")
    BY <1>7 DEF ForwardKey, Owner
  <2>2. ASSUME NEW by \in {1, hits - 1}, hits > 0,
               at' = [at EXCEPT !["forward"] = Wrapped(hits, at["forward"], by)], hits' = hits
        PROVE  PanelsInv'
    <3>1. hits \in Nat \ {0} /\ by \in Nat /\ at["forward"] \in 1 .. hits
      BY <1>3, <2>1, <2>2 DEF IsOpen
    <3>2. PICK i \in 1 .. hits : i = Wrapped(hits, at["forward"], by)
      BY <3>1, WrappedIs
    <3>3. i \in 0 .. Size'["forward"] /\ at' = [at EXCEPT !["forward"] = i]
      BY <1>2, <2>2, <3>1, <3>2
    <3> QED BY <1>1, <2>1, <2>2, <3>3, Aside
  <2>3. CASE hits' \in Hits /\ at' = [at EXCEPT !["forward"] = 1]
    <3>1. hits' \in 0 .. ListCount
      BY <2>3, PanelAssumption
    <3>2. 1 \in 0 .. Size'["forward"]
      BY <1>2, <3>1, MarksCount
    <3> QED BY <1>1, <2>1, <2>3, <3>1, <3>2, Aside
  <2>4. CASE at' = [at EXCEPT !["forward"] = 0] /\ hits' = ListCount
    <3>1. hits' \in 0 .. ListCount /\ 0 \in 0 .. Size'["forward"]
      BY <1>2, <2>4, MarksCount
    <3> QED BY <1>1, <2>1, <2>4, <3>1, Aside
  <2>5. \/ \E by \in {1, hits - 1} :
              hits > 0 /\ at' = [at EXCEPT !["forward"] = Wrapped(hits, @, by)] /\ hits' = hits
        \/ hits' \in Hits /\ at' = [at EXCEPT !["forward"] = 1]
        \/ at' = [at EXCEPT !["forward"] = 0] /\ hits' = ListCount
    BY <1>7 DEF ForwardKey
  <2> QED BY <1>1, <1>3, <2>2, <2>3, <2>4, <2>5
<1>8. CASE ReactionKey
  <2>1. PICK i \in {0, 1, ListCount, at["reaction"] - 1, at["reaction"] + 1} \cap 0 .. ListCount :
           at' = [at EXCEPT !["reaction"] = i]
    BY <1>8 DEF ReactionKey
  <2>2. i \in 0 .. Size'["reaction"]
    BY <1>2, <2>1
  <2> QED BY <1>1, <1>8, <2>1, <2>2, Aside DEF ReactionKey
<1>9. CASE HelpKey
  <2>1. IsOpen("help") /\ UNCHANGED <<original, hits, config, icon, disk, settingsReturnIdx, mixed>>
    BY <1>9 DEF HelpKey, Owner
  <2>2. at["help"] \in 1 .. Total(HelpGroups)
    BY <1>3, <2>1, MarksCount DEF IsOpen
  <2>3. PICK i \in 0 .. HelpCount : at' = [at EXCEPT !["help"] = i]
    <3>1. CASE at' = [at EXCEPT !["help"] = 0]
      <4>1. 0 \in 0 .. HelpCount
        BY MarksCount
      <4> QED BY <3>1, <4>1
    <3>2. ASSUME NEW arrow \in Arrows, at' = [at EXCEPT !["help"] = Grouped(HelpGroups, at["help"], arrow)]
          PROVE  \E i \in 0 .. HelpCount : at' = [at EXCEPT !["help"] = i]
      <4>1. Grouped(HelpGroups, at["help"], arrow) \in 0 .. HelpCount
        BY <2>2, MarksCount, GroupedIs
      <4> QED BY <3>2, <4>1
    <3>3. \/ \E arrow \in Arrows : at' = [at EXCEPT !["help"] = Grouped(HelpGroups, @, arrow)]
          \/ at' = [at EXCEPT !["help"] = 0]
      BY <1>9 DEF HelpKey
    <3> QED BY <1>1, <1>3, <3>1, <3>2, <3>3
  <2> QED BY <1>1, <1>2, <2>1, <2>3, Aside
<1>10. CASE ConfirmKey
  <2>1. at["confirm"] \in 1 .. 2
    BY <1>3, <1>10 DEF ConfirmKey, IsOpen
  <2>2. PICK i \in {0, 3 - at["confirm"]} : at' = [at EXCEPT !["confirm"] = i]
    BY <1>10 DEF ConfirmKey
  <2>3. i \in 0 .. Size'["confirm"]
    BY <1>2, <2>1, <2>2
  <2> QED BY <1>1, <1>10, <2>2, <2>3, Aside DEF ConfirmKey
<1> QED BY <1>4, <1>5, <1>6, <1>7, <1>8, <1>9, <1>10

LEMMA RunUICommandKeeps ==
    ASSUME PanelsInv, RunUICommand  PROVE PanelsInv'
<1> USE DEF memory, return
<1>1. UNCHANGED <<hits, config, icon, disk, settingsReturnIdx>> /\ Size' = Size
  BY SizeStays DEF RunUICommand
<1>2. ASSUME NEW p \in Previews, NEW v \in 1 .. Size[p], OpenPreview(p, v),
             p = "theme" => v = config.theme, p = "style" => v = config.style, p = "pointer" => v = icon
      PROVE  PanelsInv'
  <2>1. /\ at' = [at EXCEPT ![p] = v] /\ original' = [original EXCEPT ![p] = v]
        /\ mixed' = (mixed \/ IsOpen(p))
    BY <1>2 DEF OpenPreview, Open
  <2>2. p \in PanelSet /\ v \in 0 .. Size[p] /\ Size[p] \in Nat /\ Previews \subseteq PanelSet
    BY PreviewPanels, PreviewSizes
  <2>3. AtInv' /\ at'[p] = v /\ \A q \in Previews \ {p} : at'[q] = at[q]
    BY <1>1, <2>1, <2>2, Moved DEF PanelsInv
  <2>4. settingsReturnIdx' \in 1 .. Settings
    BY <1>1 DEF PanelsInv, MemoryInv
  <2> QED BY <1>1, <1>2, <2>1, <2>3, <2>4, PreviewOpens
<1>3. /\ config.theme \in 1 .. Size["theme"] /\ config.style \in 1 .. Size["style"]
      /\ icon \in 1 .. Size["pointer"]
  BY PreviewSizes
<1>4. CASE OpenPreview("theme", config.theme)
  BY <1>2, <1>3, <1>4, PreviewPanels
<1>5. CASE OpenPreview("pointer", icon)
  BY <1>2, <1>3, <1>5, PreviewPanels
<1>6. CASE OpenPreview("style", config.style)
  BY <1>2, <1>3, <1>6, PreviewPanels
<1>7. ASSUME NEW p \in {"help", "settings", "confirm"}, Open(p, 1), UNCHANGED <<original, mixed>>
      PROVE  PanelsInv'
  <2>1. p \in PanelSet \ Previews /\ 1 \in 0 .. Size'[p]
    BY <1>1, SizeIs, MarksCount DEF PanelSet, Previews
  <2> QED BY <1>1, <1>7, <2>1, Aside DEF Open
<1> QED BY <1>4, <1>5, <1>6, <1>7 DEF RunUICommand

LEMMA SettingsKeyKeeps ==
    ASSUME PanelsInv, SettingsKey  PROVE PanelsInv'
<1> USE DEF return
<1>1. IsOpen("settings") /\ UNCHANGED <<hits, icon>> /\ Size' = Size
  BY SizeStays DEF SettingsKey, Owner
<1>2. /\ "settings" \in PanelSet \ Previews /\ Size["settings"] = Settings /\ config \in Configs
      /\ at["settings"] \in 1 .. Settings /\ settingsReturnIdx \in 1 .. Settings
  BY <1>1, SizeIs, MarksCount DEF PanelSet, Previews, PanelsInv, MemoryInv, AtInv, IsOpen
<1>3. ASSUME NEW i \in 0 .. Settings, at' = [at EXCEPT !["settings"] = i],
             NoSave, UNCHANGED <<original, config, mixed, return>>
      PROVE  PanelsInv'
  BY <1>1, <1>2, <1>3, Aside DEF NoSave
<1>4. ASSUME NEW arrow \in Arrows,
             at' = [at EXCEPT !["settings"] = HandleSettings(Toggles, Settings, at["settings"], arrow)],
             NoSave, UNCHANGED <<original, config, mixed, return>>
      PROVE  PanelsInv'
  <2>1. HandleSettings(Toggles, Settings, at["settings"], arrow) \in 0 .. Settings
    BY <1>2, MarksCount, SettingsIs
  <2> QED BY <1>3, <1>4, <2>1
<1>5. CASE at' = [at EXCEPT !["settings"] = 0] /\ NoSave /\ UNCHANGED <<original, config, mixed, return>>
  <2>1. 0 \in 0 .. Settings
    BY MarksCount
  <2> QED BY <1>3, <1>5, <2>1
<1>6. CASE /\ config' = [config EXCEPT !.mouse = IF at["settings"] = 1 THEN ~@ ELSE @]
           /\ SaveConfig(config') /\ mixed' = (mixed \/ Busy("none"))
           /\ UNCHANGED <<at, original, return>>
  <2>1. PICK b \in BOOLEAN : config' = [config EXCEPT !.mouse = b]
    <3>1. CASE at["settings"] = 1
      <4>1. config' = [config EXCEPT !.mouse = ~config.mouse]
        BY <1>2, <1>6, <3>1 DEF Configs
      <4>2. (~config.mouse) \in BOOLEAN
        OBVIOUS
      <4> QED BY <4>1, <4>2
    <3>2. CASE at["settings"] # 1
      <4>1. config' = [config EXCEPT !.mouse = config.mouse]
        BY <1>2, <1>6, <3>2 DEF Configs
      <4>2. config.mouse \in BOOLEAN
        BY <1>2 DEF Configs
      <4> QED BY <4>1, <4>2
    <3> QED BY <3>1, <3>2
  <2>2. config' \in Configs /\ config'.pointer = config.pointer
    BY <1>2, <2>1, MouseSet
  <2> QED BY <1>1, <1>6, <2>2, SaveKeeps DEF SaveConfig
<1>7. CASE /\ settingsReturnIdx' = at["settings"]
           /\ LET p == IF at["settings"] = ThemeSetting THEN "theme" ELSE "style"
              IN  /\ at' = [at EXCEPT !["settings"] = 0, ![p] = config[p]]
                  /\ original' = [original EXCEPT ![p] = config[p]]
                  /\ mixed' = (mixed \/ IsOpen(p))
                  /\ themeFromSettings' = (themeFromSettings \/ p = "theme")
           /\ NoSave /\ UNCHANGED config
  <2>1. PICK p \in {"theme", "style"} :
          /\ at' = [at EXCEPT !["settings"] = 0, ![p] = config[p]]
          /\ original' = [original EXCEPT ![p] = config[p]]
          /\ mixed' = (mixed \/ IsOpen(p))
    BY <1>7
  <2>2. PICK v \in 1 .. Size[p] : /\ v = config[p]
                                  /\ p = "theme" => v = config.theme
                                  /\ p = "style" => v = config.style
    <3>1. CASE p = "theme"
      BY <3>1, PreviewSizes
    <3>2. CASE p = "style"
      BY <3>2, PreviewSizes
    <3> QED BY <3>1, <3>2
  <2>3. /\ at' = [at EXCEPT !["settings"] = 0, ![p] = v] /\ original' = [original EXCEPT ![p] = v]
    BY <2>1, <2>2
  <2>4. /\ p \in Previews /\ p \in PanelSet /\ p # "settings" /\ p # "pointer" /\ "settings" \in PanelSet
        /\ v \in 0 .. Size[p] /\ Size[p] \in Nat /\ 0 \in 0 .. Size["settings"] /\ Size["settings"] \in Nat
        /\ AtInv /\ Previews \subseteq PanelSet
    BY <1>2, PreviewPanels, PreviewSizes, MarksCount, SMTT(20) DEF PanelsInv
  <2>5. AtInv' /\ at'[p] = v /\ \A r \in PanelSet \ {"settings", p} : at'[r] = at[r]
    <3>1. PICK s \in PanelSet, i \in 0 .. Size["settings"] : s = "settings" /\ i = 0 /\ Size[s] \in Nat
      BY <2>4
    <3>2. at' = [at EXCEPT ![s] = i, ![p] = v]
      BY <2>3, <3>1
    <3>3. AtInv /\ Size' = Size /\ p \in PanelSet /\ s # p /\ Size[p] \in Nat /\ v \in 0 .. Size[p]
      BY <1>1, <2>4, <3>1
    <3>4. i \in 0 .. Size[s]
      BY <3>1
    <3>5. AtInv' /\ at'[p] = v /\ \A r \in PanelSet \ {s, p} : at'[r] = at[r]
      <4>1. p \in PanelSet /\ Size' = Size /\ AtInv
        BY <3>3
      <4>2. s # p /\ Size[p] \in Nat /\ Size[s] \in Nat
        BY <3>1, <3>3
      <4>3. at \in [PanelSet -> Nat] /\ i \in Nat /\ v \in Nat /\ s \in PanelSet
        BY <3>1, <3>3, <3>4, <4>2 DEF AtInv
      <4>4. at' \in [PanelSet -> Nat] /\ at'[p] = v /\ at'[s] = i
        BY <3>2, <4>1, <4>2, <4>3
      <4>5. \A r \in PanelSet \ {s, p} : at'[r] = at[r]
        BY <3>2, <4>1, <4>2, <4>3
      <4>6. \A r \in PanelSet : at'[r] \in 0 .. Size'[r]
        BY <3>3, <3>4, <4>1, <4>3, <4>4, <4>5 DEF AtInv
      <4> QED BY <4>4, <4>5, <4>6 DEF AtInv
    <3> QED BY <3>1, <3>5
  <2>6. \A q \in Previews \ {p} : at'[q] = at[q]
    BY <1>2, <2>4, <2>5
  <2>7. settingsReturnIdx' \in 1 .. Settings /\ UNCHANGED <<hits, config, icon, disk>>
    BY <1>1, <1>2, <1>7 DEF NoSave
  <2> QED BY <2>1, <2>2, <2>3, <2>4, <2>5, <2>6, <2>7, PreviewOpens
<1>8. \/ \E arrow \in Arrows :
           /\ at' = [at EXCEPT !["settings"] = HandleSettings(Toggles, Settings, at["settings"], arrow)]
           /\ NoSave /\ UNCHANGED <<original, config, mixed, return>>
      \/ at' = [at EXCEPT !["settings"] = 0] /\ NoSave /\ UNCHANGED <<original, config, mixed, return>>
      \/ /\ config' = [config EXCEPT !.mouse = IF at["settings"] = 1 THEN ~@ ELSE @]
         /\ SaveConfig(config') /\ mixed' = (mixed \/ Busy("none"))
         /\ UNCHANGED <<at, original, return>>
      \/ /\ settingsReturnIdx' = at["settings"]
         /\ LET p == IF at["settings"] = ThemeSetting THEN "theme" ELSE "style"
            IN  /\ at' = [at EXCEPT !["settings"] = 0, ![p] = config[p]]
                /\ original' = [original EXCEPT ![p] = config[p]]
                /\ mixed' = (mixed \/ IsOpen(p))
                /\ themeFromSettings' = (themeFromSettings \/ p = "theme")
         /\ NoSave /\ UNCHANGED config
  BY <1>2 DEF SettingsKey, PanelsInv, AtInv
<1> QED BY <1>4, <1>5, <1>6, <1>7, <1>8

LEMMA RestartKeeps ==
    ASSUME PanelsInv, Restart  PROVE PanelsInv'
<1>1. disk \in Configs /\ disk.pointer \in 1 .. PointerCount
  BY DEF PanelsInv, MemoryInv, Configs
<1>2. MemoryInv'
  <2>1. mixed' \in BOOLEAN
    BY DEF Restart
  <2>2. hits' \in 0 .. ListCount /\ settingsReturnIdx' \in 1 .. Settings
    BY MarksCount DEF Restart
  <2> QED BY <1>1, <2>1, <2>2 DEF Restart, MemoryInv
<1>3. at' \in [PanelSet -> Nat] /\ \A p \in PanelSet : at'[p] = 0
  BY PanelNames DEF Restart
<1>4. original' \in [Previews -> Nat] /\ \A p \in Previews : original'[p] = 1
  BY DEF Restart
<1>5. \A p \in PanelSet : Size'[p] \in Nat \ {0}
  <2>1. (IF hits' = 0 THEN 1 ELSE hits') \in Nat \ {0}
    BY MarksCount DEF Restart
  <2>2. \A p \in PanelSet \ {"forward"} : Size'[p] \in Nat \ {0}
    BY SizeStays, SizesCount DEF PanelsInv
  <2> QED BY <2>1, <2>2, SizeStays
<1>6. AtInv' /\ OriginalInv'
  BY <1>3, <1>4, <1>5, PreviewPanels DEF AtInv, OriginalInv
<1>7. Undoable'
  BY <1>3, PreviewPanels, SavedWhole DEF Restart
<1> QED BY <1>2, <1>6, <1>7 DEF PanelsInv

LEMMA PanelsStand ==
    ASSUME PanelsInv, UNCHANGED <<at, original, hits, config, icon, disk, settingsReturnIdx, mixed>>
    PROVE  PanelsInv'
  BY SizeStays DEF PanelsInv, AtInv, OriginalInv, MemoryInv, Undoable, IsOpen

LEMMA PanelsStep ==
    ASSUME PanelsInv, [PanelsNext]_panelVars  PROVE PanelsInv'
<1>1. CASE OpenBox \/ LeaveBox \/ UNCHANGED panelVars
  BY <1>1, PanelsStand DEF OpenBox, LeaveBox, panelVars, memory, return
<1> QED BY <1>1, AltMKeeps, AsideKeeps, RunUICommandKeeps, RunThemeCommandKeeps, ThemeKeyKeeps,
           PointerKeyKeeps, StyleKeyKeeps, SettingsKeyKeeps, RestartKeeps DEF PanelsNext

LEMMA PanelsAlways == PanelsSpec => []PanelsInv
<1>1. PanelsInit => PanelsInv
  BY PanelsStart
<1>2. PanelsInv /\ [PanelsNext]_panelVars => PanelsInv'
  BY PanelsStep
<1> QED BY <1>1, <1>2, PTL DEF PanelsSpec

\* Every highlight is on an item of its list, for groups and lists of any
\* size: SelectedKey and Close(true) index the items without a check.
THEOREM HighlightsAreOnItems == PanelsSpec => []PanelsTypeOK
<1>1. PanelsInv => PanelsTypeOK
  BY PanelsAreTyped
<1> QED BY <1>1, PanelsAlways, PTL

\* A look at a theme, a pointer or a style leaves no trace (handleThemePicker,
\* handlePointerPicker, handleSettingsSubPicker).
THEOREM LookLeavesNoTrace == PanelsSpec => []PreviewIsUndone
<1>1. PanelsInv => PreviewIsUndone
  BY UndoneIs
<1> QED BY <1>1, PanelsAlways, PTL

\* So the arrow keys lead to every item, from any, in each of the layouts.
LEMMA GroupsReach ==
    ASSUME NEW groups \in Seq(Nat \ {0}), NEW from \in 1 .. Total(groups)
    PROVE  Reach(Total(groups), from, InGroups(groups)) = 1 .. Total(groups)
<1>1. Total(groups) \in Nat
  BY OffsetNat DEF Total
<1>2. InGroups(groups) \in Moves(Total(groups))
  BY GroupedIs DEF InGroups, Moves
<1> QED BY <1>1, <1>2, GroupsLead, ReachIsAll

LEMMA ColumnsReach ==
    ASSUME NEW n \in Nat \ {0}, NEW long \in BOOLEAN, NEW from \in 1 .. n
    PROVE  Reach(n, from, InColumns(n, long)) = 1 .. n
<1>1. InColumns(n, long) \in Moves(n)
  BY HandleIs DEF InColumns, Moves
<1> QED BY <1>1, ColumnsLead, ReachIsAll

LEMMA SectionsReach ==
    ASSUME NEW t \in Nat \ {0}, NEW n \in Nat, NEW from \in 1 .. n
    PROVE  Reach(n, from, InSections(t, n)) = 1 .. n
<1>1. InSections(t, n) \in Moves(n)
  BY SettingsIs DEF InSections, Moves
<1> QED BY <1>1, SectionsLead, ReachIsAll

LEMMA LayoutsLead == LayoutsAreWhole
<1>1. ASSUME NEW groups \in SeqOf(1 .. 4, 3) \ {<<>>}
      PROVE  Reach(Total(groups), 1, InGroups(groups)) = 1 .. Total(groups)
  <2>1. groups \in Seq(Nat \ {0}) \ {<<>>}
    <3>1. PICK m \in 0 .. 3 : groups \in [1 .. m -> 1 .. 4]
      BY DEF SeqOf
    <3>2. groups \in [1 .. m -> Nat \ {0}] /\ m \in Nat
      BY <3>1
    <3> QED BY <3>2
  <2>2. 1 \in 1 .. Total(groups)
    BY <2>1, TotalCounts
  <2> QED BY <2>1, <2>2, GroupsReach
<1>2. ASSUME NEW n \in 1 .. 9, NEW long \in BOOLEAN
      PROVE  Reach(n, 1, InColumns(n, long)) = 1 .. n
  <2>1. n \in Nat \ {0} /\ 1 \in 1 .. n
    OBVIOUS
  <2> QED BY <2>1, ColumnsReach
<1>3. ASSUME NEW toggles \in 1 .. 4, NEW selectors \in 1 .. 4
      PROVE  Reach(toggles + selectors, 1, InSections(toggles, toggles + selectors)) = 1 .. (toggles + selectors)
  <2>1. toggles \in Nat \ {0} /\ toggles + selectors \in Nat /\ 1 \in 1 .. (toggles + selectors)
    OBVIOUS
  <2> QED BY <2>1, SectionsReach
<1> QED BY <1>1, <1>2, <1>3 DEF LayoutsAreWhole

LEMMA ItemsAreReached ==
    ASSUME PanelsInv  PROVE EveryItemIsReachable
<1>1. DOMAIN ReachOf = {"theme", "style", "settings"}
  BY DEF ReachOf
<1>2. at["theme"] \in 0 .. Themes /\ at["style"] \in 0 .. StyleCount /\ at["settings"] \in 0 .. Settings
  BY PanelNames, PanelsAreTyped, SizeIs DEF PanelsTypeOK, PanelSet
<1>3. IsOpen("theme") => ReachOf["theme"][at["theme"]] = DOMAIN ReachOf["theme"]
  <2>1. ReachOf["theme"] = [i \in 1 .. Themes |-> Reach(Themes, i, InGroups(ThemeGroups))]
    BY DEF ReachOf
  <2>2. \A i \in 1 .. Themes : Reach(Themes, i, InGroups(ThemeGroups)) = 1 .. Themes
    BY GroupsReach, MarksCount
  <2>3. IsOpen("theme") => at["theme"] \in 1 .. Themes
    BY <1>2, MarksCount DEF IsOpen
  <2> QED BY <2>1, <2>2, <2>3
<1>4. IsOpen("style") => ReachOf["style"][at["style"]] = DOMAIN ReachOf["style"]
  <2>1. ReachOf["style"] = [i \in 1 .. StyleCount |-> Reach(StyleCount, i, InColumns(StyleCount, FALSE))]
    BY DEF ReachOf
  <2>2. \A i \in 1 .. StyleCount : Reach(StyleCount, i, InColumns(StyleCount, FALSE)) = 1 .. StyleCount
    BY ColumnsReach, MarksCount
  <2>3. IsOpen("style") => at["style"] \in 1 .. StyleCount
    BY <1>2, MarksCount DEF IsOpen
  <2> QED BY <2>1, <2>2, <2>3
<1>5. IsOpen("settings") => ReachOf["settings"][at["settings"]] = DOMAIN ReachOf["settings"]
  <2>1. ReachOf["settings"] = [i \in 1 .. Settings |-> Reach(Settings, i, InSections(Toggles, Settings))]
    BY DEF ReachOf
  <2>2. \A i \in 1 .. Settings : Reach(Settings, i, InSections(Toggles, Settings)) = 1 .. Settings
    BY SectionsReach, MarksCount
  <2>3. IsOpen("settings") => at["settings"] \in 1 .. Settings
    BY <1>2, MarksCount DEF IsOpen
  <2> QED BY <2>1, <2>2, <2>3
<1> QED BY <1>1, <1>3, <1>4, <1>5, LayoutsLead DEF EveryItemIsReachable

\* The arrow keys lead from any item to every item, and to nowhere else, in as
\* many presses as there are items: in titled groups (picker/grouped.go), in
\* one column and two (picker/picker.go) and in the sections of the settings
\* (picker/settings.go), of any sizes.
THEOREM ArrowsLeadEverywhere ==
    /\ \A groups \in Seq(Nat \ {0}) : \A from \in 1 .. Total(groups) :
          Reach(Total(groups), from, InGroups(groups)) = 1 .. Total(groups)
    /\ \A n \in Nat \ {0}, long \in BOOLEAN : \A from \in 1 .. n :
          Reach(n, from, InColumns(n, long)) = 1 .. n
    /\ \A toggles \in Nat \ {0}, n \in Nat : \A from \in 1 .. n :
          Reach(n, from, InSections(toggles, n)) = 1 .. n
  BY GroupsReach, ColumnsReach, SectionsReach

\* From wherever a highlight is the arrow keys lead to every item of its list
\* and to nowhere else: an item that no keys lead to could not be chosen.
THEOREM EveryItemIsReached == PanelsSpec => []EveryItemIsReachable
<1>1. PanelsInv => EveryItemIsReachable
  BY ItemsAreReached
<1> QED BY <1>1, PanelsAlways, PTL

-----------------------------------------------------------------------------
(* Polls: what the card counts, and what the lines below it say.             *)

\* What v had chosen in the latest of the first n rows that can be read.
LatestOf(rows, earlier) ==
  IF earlier = {} THEN {} ELSE votes[rows[CHOOSE j \in earlier : \A k \in earlier : k <= j]].names

LastRead(rows, n, v) == LatestOf(rows, {j \in 1 .. n : Counted(rows[j], v)})

LEMMA NothingRead ==
    ASSUME NEW rows, NEW v
    PROVE  LastRead(rows, 0, v) = {}
<1>1. {j \in 1 .. 0 : Counted(rows[j], v)} = {}
  OBVIOUS
<1> QED BY <1>1 DEF LastRead, LatestOf

LEMMA ReadNext ==
    ASSUME NEW rows, NEW v, NEW n \in Nat \ {0}
    PROVE  LastRead(rows, n, v) = IF Counted(rows[n], v) THEN votes[rows[n]].names
                                  ELSE LastRead(rows, n - 1, v)
<1> DEFINE upTo(k) == {j \in 1 .. k : Counted(rows[j], v)}
<1>1. CASE Counted(rows[n], v)
  <2>1. n \in upTo(n) /\ \A k \in upTo(n) : k \in Nat /\ k <= n
    BY <1>1
  <2>2. upTo(n) # {}
    BY <2>1
  <2>3. ASSUME NEW j \in upTo(n), \A k \in upTo(n) : k <= j PROVE j = n
    <3>1. j \in Nat /\ j <= n /\ n <= j
      BY <2>1, <2>3
    <3> QED BY <3>1
  <2> HIDE DEF upTo
  <2>4. (CHOOSE j \in upTo(n) : \A k \in upTo(n) : k <= j) = n
    BY <2>1, <2>3
  <2>5. LastRead(rows, n, v) = votes[rows[n]].names
    BY <2>2, <2>4 DEF LastRead, LatestOf, upTo
  <2> QED BY <1>1, <2>5
<1>2. CASE ~Counted(rows[n], v)
  <2>1. ASSUME NEW j \in upTo(n) PROVE j \in upTo(n - 1)
    <3>1. j \in 1 .. n /\ j # n
      BY <1>2
    <3>2. j \in 1 .. n - 1
      BY <3>1
    <3> QED BY <3>2
  <2>2. ASSUME NEW j \in upTo(n - 1) PROVE j \in upTo(n)
    OBVIOUS
  <2>3. upTo(n) = upTo(n - 1)
    <3> HIDE DEF upTo
    <3> QED BY <2>1, <2>2
  <2>4. LastRead(rows, n, v) = LastRead(rows, n - 1, v)
    BY <2>3, Zenon DEF LastRead
  <2> QED BY <1>2, <2>4
<1> QED BY <1>1, <1>2

LEMMA ReadSame ==
    ASSUME NEW rows, NEW others, NEW v, NEW n \in Nat, \A j \in 1 .. n : rows[j] = others[j]
    PROVE  LastRead(rows, n, v) = LastRead(others, n, v)
<1> DEFINE S == {i \in 0 .. n : LastRead(rows, i, v) = LastRead(others, i, v)}
<1>1. 0 \in S
  BY NothingRead
<1>2. ASSUME NEW i \in 1 .. n, i - 1 \in S PROVE i \in S
  <2>1. i \in Nat \ {0} /\ rows[i] = others[i] /\ i \in 0 .. n
    OBVIOUS
  <2>2. LastRead(rows, i - 1, v) = LastRead(others, i - 1, v)
    BY <1>2
  <2>3. LastRead(rows, i, v) = LastRead(others, i, v)
    BY <2>1, <2>2, ReadNext
  <2> QED BY <2>1, <2>3
<1>3. 0 .. n \subseteq S
  <2> HIDE DEF S
  <2> QED BY <1>1, <1>2, UpTo
<1>4. n \in S
  BY <1>3
<1> QED BY <1>4

\* The loop over the rows finds the latest vote of each voter.
LEMMA CollectIs ==
    ASSUME NEW rows, Len(rows) \in Nat, NEW v \in Voters
    PROVE  CollectPollVotes(rows)[v] = LastRead(rows, Len(rows), v)
<1> DEFINE n == Len(rows)
           step(f, i) == IF i = 0 THEN {} ELSE IF Counted(rows[i], v) THEN votes[rows[i]].names ELSE f[i - 1]
           had == CHOOSE f : f = [i \in 0 .. n |-> step(f, i)]
           g == [i \in 0 .. n |-> LastRead(rows, i, v)]
<1>9. n \in Nat
  OBVIOUS
<1>1. ASSUME NEW i \in 0 .. n PROVE g[i] = step(g, i)
  <2>1. CASE i = 0
    BY <2>1, NothingRead
  <2>2. CASE i # 0
    <3>1. i \in Nat \ {0} /\ i - 1 \in 0 .. n
      BY <2>2
    <3>2. g[i - 1] = LastRead(rows, i - 1, v)
      BY <3>1
    <3> QED BY <2>2, <3>1, <3>2, ReadNext
  <2> QED BY <2>1, <2>2
<1>2. g = [i \in 0 .. n |-> step(g, i)]
  <2>1. g = [i \in 0 .. n |-> g[i]]
    OBVIOUS
  <2> HIDE DEF step, n, g
  <2> QED BY <1>1, <2>1
<1>3. had = [i \in 0 .. n |-> step(had, i)]
  <2> HIDE DEF step, n, g
  <2> QED BY <1>2
<1>4. \A i \in 0 .. n : had[i] = step(had, i)
  <2> HIDE DEF step, had
  <2> QED BY <1>3
<1> DEFINE S == {i \in 0 .. n : had[i] = LastRead(rows, i, v)}
<1>5. 0 \in S
  <2>1. 0 \in 0 .. n /\ step(had, 0) = {}
    OBVIOUS
  <2> HIDE DEF had, step
  <2> QED BY <1>4, <2>1, NothingRead
<1>6. ASSUME NEW i \in 1 .. n, i - 1 \in S PROVE i \in S
  <2>1. i \in Nat \ {0} /\ i \in 0 .. n
    OBVIOUS
  <2> HIDE DEF had
  <2>2. had[i - 1] = LastRead(rows, i - 1, v)
    BY <1>6
  <2>3. had[i] = LastRead(rows, i, v)
    BY <1>4, <2>1, <2>2, ReadNext
  <2> QED BY <2>1, <2>3
<1>7. n \in S
  <2>1. 0 .. n \subseteq S
    <3> HIDE DEF S, n
    <3> QED BY <1>9, <1>5, <1>6, UpTo
  <2>2. n \in 0 .. n
    BY <1>9
  <2> QED BY <2>1, <2>2
<1>8. CollectPollVotes(rows)[v] = had[n]
  BY DEF CollectPollVotes
<1> QED BY <1>7, <1>8

\* Line by line, the notes of one voter's votes add up to the latest that can be read.
LEMMA NotedIs ==
    ASSUME NEW rows, Len(rows) \in Nat, NEW v,
           \A k \in 1 .. Len(rows) : IsVote(rows[k]) /\ votes[rows[k]].who = v
    PROVE  Noted(rows) = LastRead(rows, Len(rows), v)
<1> DEFINE n == Len(rows)
           step(f, i) == IF i = 0 THEN {}
                         ELSE (f[i - 1] \cup PollVoteNote(rows, i).voted) \ PollVoteNote(rows, i).withdrew
           had == CHOOSE f : f = [i \in 0 .. n |-> step(f, i)]
           g == [i \in 0 .. n |-> LastRead(rows, i, v)]
<1>0. ASSUME NEW i \in 1 .. n
      PROVE  LastRead(rows, i, v)
               = (LastRead(rows, i - 1, v) \cup PollVoteNote(rows, i).voted) \ PollVoteNote(rows, i).withdrew
  <2>1. i \in Nat \ {0} /\ IsVote(rows[i]) /\ votes[rows[i]].who = v
    OBVIOUS
  <2>0. PICK now, prev : now = votes[rows[i]].names /\ prev = LastRead(rows, i - 1, v)
    OBVIOUS
  <2>2. PriorChoice(rows, i) = prev
    BY <2>0, <2>1 DEF PriorChoice, LastRead, LatestOf
  <2>3. LastRead(rows, i, v) = IF now # Unknown THEN now ELSE prev
    BY <2>0, <2>1, ReadNext DEF Counted
  <2>4. CASE now = Unknown
    <3>1. PollVoteNote(rows, i).voted = {} /\ PollVoteNote(rows, i).withdrew = {}
      BY <2>0, <2>4 DEF PollVoteNote
    <3> QED BY <2>0, <2>3, <2>4, <3>1
  <2>5. CASE now # Unknown /\ now = prev
    <3>1. PollVoteNote(rows, i) = ChangedOptions(prev, now)
      BY <2>0, <2>2, <2>5 DEF PollVoteNote
    <3>2. PollVoteNote(rows, i).voted = now /\ PollVoteNote(rows, i).withdrew = {}
      BY <2>5, <3>1 DEF ChangedOptions
    <3> QED BY <2>0, <2>3, <2>5, <3>2
  <2>6. CASE now # Unknown /\ now # prev
    <3>1. PollVoteNote(rows, i) = ChangedOptions(prev, now)
      BY <2>0, <2>2, <2>6 DEF PollVoteNote
    <3>2. PollVoteNote(rows, i).voted = now \ prev /\ PollVoteNote(rows, i).withdrew = prev \ now
      BY <2>6, <3>1 DEF ChangedOptions
    <3>3. now = (prev \cup (now \ prev)) \ (prev \ now)
      OBVIOUS
    <3> QED BY <2>0, <2>3, <2>6, <3>2, <3>3
  <2> QED BY <2>4, <2>5, <2>6
<1>9. n \in Nat
  OBVIOUS
<1>1. ASSUME NEW i \in 0 .. n PROVE g[i] = step(g, i)
  <2>1. CASE i = 0
    BY <2>1, NothingRead
  <2>2. CASE i # 0
    <3>1. i \in 1 .. n /\ i - 1 \in 0 .. n
      BY <2>2
    <3>2. g[i - 1] = LastRead(rows, i - 1, v) /\ g[i] = LastRead(rows, i, v)
      BY <3>1
    <3> HIDE DEF g
    <3> QED BY <1>0, <2>2, <3>1, <3>2
  <2> QED BY <2>1, <2>2
<1>2. g = [i \in 0 .. n |-> step(g, i)]
  <2>1. g = [i \in 0 .. n |-> g[i]]
    OBVIOUS
  <2> HIDE DEF step, n, g
  <2> QED BY <1>1, <2>1
<1>3. had = [i \in 0 .. n |-> step(had, i)]
  <2> HIDE DEF step, n, g
  <2> QED BY <1>2
<1>4. \A i \in 0 .. n : had[i] = step(had, i)
  <2> HIDE DEF step, had
  <2> QED BY <1>3
<1> DEFINE S == {i \in 0 .. n : had[i] = LastRead(rows, i, v)}
<1>5. 0 \in S
  <2>1. 0 \in 0 .. n /\ step(had, 0) = {}
    OBVIOUS
  <2> HIDE DEF had, step
  <2> QED BY <1>4, <2>1, NothingRead
<1>6. ASSUME NEW i \in 1 .. n, i - 1 \in S PROVE i \in S
  <2>1. i # 0 /\ i \in 0 .. n
    OBVIOUS
  <2> HIDE DEF had
  <2>2. had[i - 1] = LastRead(rows, i - 1, v)
    BY <1>6
  <2>3. had[i] = LastRead(rows, i, v)
    BY <1>0, <1>4, <2>1, <2>2
  <2> QED BY <2>1, <2>3
<1>7. n \in S
  <2>1. 0 .. n \subseteq S
    <3> HIDE DEF S, n
    <3> QED BY <1>9, <1>5, <1>6, UpTo
  <2>2. n \in 0 .. n
    BY <1>9
  <2> QED BY <2>1, <2>2
<1>8. Noted(rows) = had[n]
  BY DEF Noted
<1> QED BY <1>7, <1>8

\* A row at the end is the latest; what is before it stays as it was.
LEMMA ReadAppended ==
    ASSUME NEW T, NEW rows \in Seq(T), NEW row \in T, NEW v
    PROVE  /\ Len(Append(rows, row)) \in Nat /\ Len(rows) \in Nat
           /\ LastRead(Append(rows, row), Len(Append(rows, row)), v)
                = IF Counted(row, v) THEN votes[row].names ELSE LastRead(rows, Len(rows), v)
<1>1. PICK n \in Nat : n = Len(rows)
  OBVIOUS
<1>2. PICK others : others = Append(rows, row)
  OBVIOUS
<1>3. Len(others) = n + 1 /\ others[n + 1] = row /\ \A k \in 1 .. n : others[k] = rows[k]
  BY <1>1, <1>2
<1>4. n + 1 \in Nat \ {0} /\ (n + 1) - 1 = n
  OBVIOUS
<1>5. LastRead(others, n + 1, v) = IF Counted(row, v) THEN votes[row].names ELSE LastRead(others, n, v)
  BY <1>3, <1>4, ReadNext
<1>6. LastRead(others, n, v) = LastRead(rows, n, v)
  BY <1>3, ReadSame
<1> QED BY <1>1, <1>2, <1>3, <1>4, <1>5, <1>6

\* The rows of one voter say of this voter what the whole list says.
LEMMA NotesOfOne ==
    ASSUME NEW T, NEW rows \in Seq(T), NEW v \in Voters
    PROVE  Noted(Within(rows, {r \in Range(rows) : IsVote(r) /\ votes[r].who = v})) = CollectPollVotes(rows)[v]
<1> DEFINE S == {r \in Range(rows) : IsVote(r) /\ votes[r].who = v}
<1>1. PICK n \in Nat : n = Len(rows)
  OBVIOUS
<1>2. \A i \in 1 .. n : rows[i] \in T /\ rows[i] \in Range(rows)
  BY <1>1, ElementOfSeq DEF Range
<1>3. PICK f : KeepingRun(f, T, S, rows) /\ Within(rows, S) = f[n]
  <2> HIDE DEF S
  <2> QED BY <1>1, WithinRuns
<1>4. /\ \A i \in 0 .. n : f[i] \in Seq(T)
      /\ f[0] = <<>>
      /\ \A i \in 1 .. n : f[i] = IF rows[i] \in S THEN Append(f[i - 1], rows[i]) ELSE f[i - 1]
  <2> HIDE DEF S
  <2> QED BY <1>1, <1>3 DEF KeepingRun
<1> DEFINE Same == {i \in 0 .. n : LastRead(f[i], Len(f[i]), v) = LastRead(rows, i, v)}
<1>5. 0 \in Same
  <2>1. Len(f[0]) = 0 /\ 0 \in 0 .. n
    BY <1>4
  <2> QED BY <2>1, NothingRead
<1>6. ASSUME NEW i \in 1 .. n, i - 1 \in Same PROVE i \in Same
  <2>1. i \in 0 .. n /\ i - 1 \in 0 .. n /\ i \in Nat \ {0}
    OBVIOUS
  <2>2. LastRead(f[i - 1], Len(f[i - 1]), v) = LastRead(rows, i - 1, v)
    BY <1>6
  <2>3. LastRead(rows, i, v) = IF Counted(rows[i], v) THEN votes[rows[i]].names ELSE LastRead(rows, i - 1, v)
    BY <2>1, ReadNext
  <2>4. PICK q \in Seq(T) : q = f[i - 1]
    BY <1>4, <2>1
  <2>5. CASE rows[i] \in S
    <3>1. f[i] = Append(q, rows[i]) /\ rows[i] \in T
      BY <1>2, <1>4, <2>4, <2>5
    <3>2. LastRead(f[i], Len(f[i]), v) = IF Counted(rows[i], v) THEN votes[rows[i]].names ELSE LastRead(q, Len(q), v)
      BY <3>1, ReadAppended
    <3>3. LastRead(f[i], Len(f[i]), v) = LastRead(rows, i, v)
      BY <2>2, <2>3, <2>4, <3>2
    <3> QED BY <2>1, <3>3
  <2>6. CASE rows[i] \notin S
    <3>1. ~Counted(rows[i], v)
      BY <1>2, <2>6 DEF Counted
    <3>2. f[i] = f[i - 1]
      BY <1>4, <2>6
    <3>3. LastRead(f[i], Len(f[i]), v) = LastRead(rows, i, v)
      BY <2>2, <2>3, <3>1, <3>2
    <3> QED BY <2>1, <3>3
  <2> QED BY <2>5, <2>6
<1>7. n \in Same
  <2>1. 0 .. n \subseteq Same
    <3> HIDE DEF Same
    <3> QED BY <1>5, <1>6, UpTo
  <2> QED BY <2>1
<1>8. /\ Within(rows, S) \in Seq(T) /\ Len(Within(rows, S)) \in Nat
      /\ \A k \in 1 .. Len(Within(rows, S)) : Within(rows, S)[k] \in S
  <2> HIDE DEF S
  <2>1. Within(rows, S) \in Seq(T) /\ \A k \in 1 .. Len(Within(rows, S)) : Within(rows, S)[k] \in S
    BY WithinList
  <2> QED BY <2>1
<1>9. \A r \in S : IsVote(r) /\ votes[r].who = v
  OBVIOUS
<1>10. Noted(Within(rows, S)) = LastRead(Within(rows, S), Len(Within(rows, S)), v)
  <2> HIDE DEF S
  <2> QED BY <1>8, <1>9, NotedIs
<1>11. LastRead(f[n], Len(f[n]), v) = LastRead(rows, n, v)
  BY <1>7
<1>12. CollectPollVotes(rows)[v] = LastRead(rows, n, v)
  BY <1>1, CollectIs
<1> QED BY <1>3, <1>10, <1>11, <1>12

-----------------------------------------------------------------------------
(* Polls: the rows of the list.                                              *)

Distinct(rows) == \A i, j \in 1 .. Len(rows) : rows[i] = rows[j] => i = j

\* A list that keeps its rows in the order of time puts the poll first.
Ascending(rows) == \A i, j \in 1 .. Len(rows) : i < j => rows[i] < rows[j]

\* A full list that does not hold the poll, or does not hold it in order.
CutOff(rows) == Len(rows) = MaxRows /\ (PollRow \notin Range(rows) \/ ~Ascending(rows))

RowsOK(rows) == rows \in Seq(Nat) /\ Distinct(rows) /\ Len(rows) <= MaxRows

LEMMA RangeOfRows ==
    ASSUME NEW rows \in Seq(Nat)
    PROVE  /\ DOMAIN rows = 1 .. Len(rows) /\ Len(rows) \in Nat
           /\ \A i \in 1 .. Len(rows) : rows[i] \in Nat /\ rows[i] \in Range(rows)
           /\ \A r \in Range(rows) : r \in Nat /\ \E i \in 1 .. Len(rows) : rows[i] = r
           /\ InTimeOrder(rows) <=> Ascending(rows)
<1>1. DOMAIN rows = 1 .. Len(rows) /\ Len(rows) \in Nat
  OBVIOUS
<1>2. \A i \in 1 .. Len(rows) : rows[i] \in Nat
  BY ElementOfSeq
<1> QED BY <1>1, <1>2 DEF Range, InTimeOrder, Ascending

\* The rows that are left of a list without its first d rows.
Left(rows, left, d) ==
  /\ d \in Nat /\ left \in Seq(Nat) /\ Len(rows) = Len(left) + d
  /\ Len(left) <= MaxRows
  /\ Len(rows) <= MaxRows => d = 0
  /\ Len(rows) > MaxRows => Len(left) = MaxRows
  /\ \A k \in 1 .. Len(left) : left[k] = rows[k + d]

\* boundCaches drops the first rows.
LEMMA BoundedIs ==
    ASSUME NEW rows \in Seq(Nat)
    PROVE  \E d : Left(rows, Bounded(rows), d)
<1>1. PICK n \in Nat : n = Len(rows)
  OBVIOUS
<1>2. MaxRows \in Nat
  BY PollAssumption
<1>3. CASE n <= MaxRows
  <2>1. Bounded(rows) = rows
    BY <1>1, <1>2, <1>3 DEF Bounded
  <2>2. Left(rows, rows, 0)
    BY <1>1, <1>2, <1>3 DEF Left
  <2> QED BY <2>1, <2>2
<1>4. CASE n > MaxRows
  <2>1. PICK d \in Nat : n = MaxRows + d
    <3>1. n - MaxRows \in Nat /\ n = MaxRows + (n - MaxRows)
      BY <1>2, <1>4
    <3> QED BY <3>1
  <2>2. Bounded(rows) = SubSeq(rows, d + 1, n)
    BY <1>1, <1>2, <1>4, <2>1 DEF Bounded
  <2>3. /\ SubSeq(rows, d + 1, n) \in Seq(Nat) /\ Len(SubSeq(rows, d + 1, n)) = MaxRows
        /\ \A k \in 1 .. MaxRows : SubSeq(rows, d + 1, n)[k] = rows[k + d]
    <3>1. d + 1 \in 1 .. n + 1
      BY <1>2, <1>4, <2>1
    <3>2. SubSeq(rows, d + 1, n) = [i \in 1 .. (1 + n - (d + 1)) |-> rows[i + (d + 1) - 1]]
      BY <1>1, <3>1
    <3>3. 1 + n - (d + 1) = MaxRows /\ \A i \in 1 .. MaxRows : i + (d + 1) - 1 = i + d /\ i + d \in 1 .. n
      BY <1>2, <2>1
    <3>4. SubSeq(rows, d + 1, n) = [i \in 1 .. MaxRows |-> rows[i + d]]
      BY <3>2, <3>3
    <3>5. \A i \in 1 .. MaxRows : rows[i + d] \in Nat
      BY <1>1, <3>3, ElementOfSeq
    <3>6. PICK q : q = SubSeq(rows, d + 1, n)
      OBVIOUS
    <3>7. q \in [1 .. MaxRows -> Nat] /\ \A i \in 1 .. MaxRows : q[i] = rows[i + d]
      BY <3>4, <3>5, <3>6
    <3>8. q \in Seq(Nat) /\ Len(q) = MaxRows
      BY <1>2, <3>7
    <3> QED BY <3>6, <3>7, <3>8
  <2>4. Left(rows, Bounded(rows), d)
    BY <1>1, <1>2, <1>4, <2>1, <2>2, <2>3 DEF Left
  <2> QED BY <2>4
<1> QED BY <1>1, <1>2, <1>3, <1>4

\* A list that was made in the order of time holds all of its rows, or has left the first
\* of them behind, and the poll first of all.
LEMMA SortedRows ==
    ASSUME NEW S \in SUBSET Nat, IsFiniteSet(S), NEW rows, rows = Bounded(ByTime(S))
    PROVE  /\ RowsOK(rows) /\ Range(rows) \subseteq S /\ Ascending(rows)
           /\ Cardinality(S) <= MaxRows => Range(rows) = S
           /\ Cardinality(S) > MaxRows => CutOff(rows)
<1>1. PICK all : all = ByTime(S)
  OBVIOUS
<1>2. PICK n \in Nat : n = Cardinality(S)
  BY FS_CardinalityType
<1>3. /\ \A k \in 1 .. n : Place(S, k) \in S
      /\ \A j, k \in 1 .. n : j < k <=> Place(S, j) < Place(S, k)
      /\ \A r \in S : \E k \in 1 .. n : Place(S, k) = r
  BY <1>2, PlacesInOrder
<1>4. all = [k \in 1 .. n |-> Place(S, k)]
  BY <1>1, <1>2 DEF ByTime
<1>5. /\ all \in Seq(Nat) /\ Len(all) = n
      /\ \A k \in 1 .. n : all[k] \in S /\ all[k] \in Nat
      /\ \A j, k \in 1 .. n : j < k => all[j] < all[k]
      /\ \A r \in S : \E k \in 1 .. n : all[k] = r
  <2>1. \A k \in 1 .. n : all[k] = Place(S, k) /\ Place(S, k) \in Nat
    BY <1>3, <1>4
  <2>2. all \in Seq(Nat) /\ Len(all) = n
    BY <1>4, <2>1
  <2> QED BY <1>3, <2>1, <2>2
<1>6. PICK d \in Nat :
        /\ rows \in Seq(Nat) /\ n = Len(rows) + d
        /\ Len(rows) <= MaxRows
        /\ n <= MaxRows => d = 0
        /\ n > MaxRows => Len(rows) = MaxRows
        /\ \A k \in 1 .. Len(rows) : rows[k] = all[k + d]
  <2>1. PICK d : Left(all, rows, d)
    BY <1>1, <1>5, BoundedIs
  <2> QED BY <1>5, <2>1 DEF Left
<1>7. PICK l \in Nat : l = Len(rows) /\ n = l + d
  BY <1>6
<1>8. \A k \in 1 .. l : k + d \in 1 .. n /\ rows[k] = all[k + d]
  BY <1>6, <1>7
<1>9. \A k \in 1 .. l : rows[k] \in S /\ rows[k] \in Nat
  BY <1>5, <1>8
<1>10. Ascending(rows)
  <2> SUFFICES ASSUME NEW i \in 1 .. l, NEW j \in 1 .. l, i < j PROVE rows[i] < rows[j]
    BY <1>7 DEF Ascending
  <2>1. i + d < j + d /\ i + d \in 1 .. n /\ j + d \in 1 .. n
    BY <1>8
  <2> QED BY <1>5, <1>8, <2>1
<1>11. Distinct(rows)
  <2> SUFFICES ASSUME NEW i \in 1 .. l, NEW j \in 1 .. l, rows[i] = rows[j] PROVE i = j
    BY <1>7 DEF Distinct
  <2>1. ~(i < j) /\ ~(j < i)
    BY <1>7, <1>9, <1>10 DEF Ascending
  <2> QED BY <2>1
<1>12. Range(rows) \subseteq S
  BY <1>6, <1>7, <1>9, RangeOfRows
<1>13. ASSUME n <= MaxRows PROVE S \subseteq Range(rows)
  <2> SUFFICES ASSUME NEW r \in S PROVE r \in Range(rows)
    OBVIOUS
  <2>1. PICK k \in 1 .. n : all[k] = r
    BY <1>5
  <2>2. k \in 1 .. l /\ k + d = k
    BY <1>6, <1>7, <1>13
  <2>3. rows[k] = r
    BY <1>8, <2>1, <2>2
  <2> QED BY <1>6, <1>7, <2>2, <2>3, RangeOfRows
<1>14. ASSUME n > MaxRows PROVE CutOff(rows)
  <2>1. Len(rows) = MaxRows /\ l = MaxRows /\ MaxRows \in Nat
    BY <1>6, <1>7, <1>14, PollAssumption
  <2>2. PollRow \notin Range(rows)
    <3> SUFFICES ASSUME PollRow \in Range(rows) PROVE FALSE
      OBVIOUS
    <3>1. PICK i \in 1 .. l : rows[i] = PollRow
      BY <1>6, <1>7, RangeOfRows
    <3>2. d > 0 /\ i + d \in 1 .. n /\ 1 \in 1 .. n /\ 1 < i + d
      BY <1>7, <1>14, <2>1
    <3>3. all[1] < all[i + d] /\ all[1] \in Nat /\ all[i + d] = 0
      BY <1>5, <1>8, <3>1, <3>2 DEF PollRow
    <3> QED BY <3>3
  <2> QED BY <2>1, <2>2 DEF CutOff
<1> QED BY <1>2, <1>6, <1>10, <1>11, <1>12, <1>13, <1>14 DEF RowsOK

\* The number of rows is the number of places.
LEMMA RowsCounted ==
    ASSUME NEW rows, RowsOK(rows)
    PROVE  IsFiniteSet(Range(rows)) /\ Cardinality(Range(rows)) = Len(rows) /\ Range(rows) \in SUBSET Nat
<1>1. PICK n \in Nat : n = Len(rows) /\ IsFiniteSet(1 .. n) /\ Cardinality(1 .. n) = n
  <2>1. PICK n \in Nat : n = Len(rows)
    BY DEF RowsOK
  <2>2. IsFiniteSet(1 .. n) /\ Cardinality(1 .. n) = IF 1 > n THEN 0 ELSE n - 1 + 1
    BY FS_Interval
  <2> QED BY <2>1, <2>2
<1>2. /\ \A i \in 1 .. n : rows[i] \in Range(rows) /\ rows[i] \in Nat
      /\ \A r \in Range(rows) : r \in Nat /\ \E i \in 1 .. n : rows[i] = r
  BY <1>1, RangeOfRows DEF RowsOK
<1> DEFINE f == [i \in 1 .. n |-> rows[i]]
<1>3. f \in [1 .. n -> Range(rows)] /\ \A i \in 1 .. n : f[i] = rows[i]
  BY <1>2
<1> HIDE DEF f
<1>4. f \in Surjection(1 .. n, Range(rows))
  BY <1>2, <1>3 DEF Surjection
<1>5. f \in Injection(1 .. n, Range(rows))
  <2>1. \A i, j \in 1 .. n : f[i] = f[j] => i = j
    BY <1>1, <1>3 DEF RowsOK, Distinct
  <2> QED BY <1>3, <2>1 DEF Injection, IsInjective
<1>6. IsFiniteSet(Range(rows)) /\ (Cardinality(Range(rows)) = Cardinality(1 .. n))
  BY <1>1, <1>4, <1>5, FS_Surjection
<1> QED BY <1>1, <1>2, <1>6

\* What an answer leaves of the list.
LEMMA ShowStep ==
    ASSUME NEW row \in Nat, RowsOK(list), Show(row)
    PROVE  /\ RowsOK(list') /\ Range(list') \subseteq Range(list) \cup {row}
           /\ ~missed' => /\ ~missed
                          /\ CutOff(list) => CutOff(list')
                          /\ CutOff(list') \/ Range(list) \cup {row} \subseteq Range(list')
<1>1. /\ list' = IF row \in Range(list) THEN list ELSE Bounded(Append(list, row))
      /\ missed' = (missed \/ (Len(list) = MaxRows /\ ~Ascending(list)))
  BY RangeOfRows DEF Show, RowsOK
<1>2. CASE row \in Range(list)
  BY <1>1, <1>2
<1>3. CASE row \notin Range(list)
  <2>1. PICK n \in Nat : n = Len(list) /\ n <= MaxRows
    BY DEF RowsOK
  <2>2. PICK long : long = Append(list, row)
    OBVIOUS
  <2>3. /\ long \in Seq(Nat) /\ Len(long) = n + 1 /\ long[n + 1] = row
        /\ \A k \in 1 .. n : long[k] = list[k]
    BY <2>1, <2>2 DEF RowsOK
  <2>4. PICK rows : rows = list'
    OBVIOUS
  <2>5. PICK d \in Nat :
          /\ rows \in Seq(Nat) /\ n + 1 = Len(rows) + d
          /\ Len(rows) <= MaxRows
          /\ n + 1 <= MaxRows => d = 0
          /\ n + 1 > MaxRows => Len(rows) = MaxRows
          /\ \A k \in 1 .. Len(rows) : rows[k] = long[k + d]
    <3>1. rows = Bounded(long)
      BY <1>1, <1>3, <2>2, <2>4
    <3>2. PICK d : Left(long, rows, d)
      BY <2>3, <3>1, BoundedIs
    <3> QED BY <2>3, <3>2 DEF Left
  <2>6. PICK l \in Nat : l = Len(rows) /\ n + 1 = l + d
    BY <2>5
  <2>7. MaxRows \in Nat /\ MaxRows > 1
    BY PollAssumption
  <2>8. /\ \A i \in 1 .. n : list[i] \in Nat /\ list[i] \in Range(list)
        /\ \A r \in Range(list) : r \in Nat /\ \E i \in 1 .. n : list[i] = r
    BY <2>1, RangeOfRows DEF RowsOK
  <2>9. /\ \A i \in 1 .. l : rows[i] \in Nat /\ rows[i] \in Range(rows)
        /\ \A r \in Range(rows) : r \in Nat /\ \E i \in 1 .. l : rows[i] = r
    BY <2>5, <2>6, RangeOfRows
  <2>10. \A i, j \in 1 .. n + 1 : long[i] = long[j] => i = j
    <3> SUFFICES ASSUME NEW i \in 1 .. n + 1, NEW j \in 1 .. n + 1, long[i] = long[j] PROVE i = j
      OBVIOUS
    <3>1. \A k \in 1 .. n + 1 : k = n + 1 \/ k \in 1 .. n
      OBVIOUS
    <3>2. CASE i \in 1 .. n /\ j \in 1 .. n
      BY <2>1, <2>3, <3>2 DEF RowsOK, Distinct
    <3>3. CASE i = n + 1 /\ j \in 1 .. n
      BY <1>3, <2>3, <2>8, <3>3
    <3>4. CASE i \in 1 .. n /\ j = n + 1
      BY <1>3, <2>3, <2>8, <3>4
    <3> QED BY <3>1, <3>2, <3>3, <3>4
  <2>11. Distinct(rows)
    <3> SUFFICES ASSUME NEW i \in 1 .. l, NEW j \in 1 .. l, rows[i] = rows[j] PROVE i = j
      BY <2>6 DEF Distinct
    <3>1. i + d \in 1 .. n + 1 /\ j + d \in 1 .. n + 1 /\ long[i + d] = long[j + d]
      BY <2>5, <2>6
    <3>2. i + d = j + d
      BY <2>10, <3>1
    <3> QED BY <3>2
  <2>12. Range(rows) \subseteq Range(list) \cup {row}
    <3> SUFFICES ASSUME NEW i \in 1 .. l PROVE rows[i] \in Range(list) \cup {row}
      BY <2>9
    <3>1. i + d = n + 1 \/ i + d \in 1 .. n
      BY <2>6
    <3>2. rows[i] = long[i + d]
      BY <2>5, <2>6
    <3> QED BY <2>3, <2>8, <3>1, <3>2
  <2>13. CASE n < MaxRows
    <3>1. d = 0 /\ l = n + 1
      BY <2>5, <2>6, <2>7, <2>13
    <3>2. \A i \in 1 .. n : i \in 1 .. l /\ rows[i] = list[i]
      BY <2>3, <2>5, <2>6, <3>1
    <3>3. n + 1 \in 1 .. l /\ rows[n + 1] = row
      BY <2>3, <2>5, <2>6, <3>1
    <3>4. Range(list) \cup {row} \subseteq Range(rows)
      BY <2>8, <2>9, <3>2, <3>3
    <3>5. ~CutOff(list)
      BY <2>1, <2>7, <2>13 DEF CutOff
    <3> QED BY <1>1, <2>4, <2>5, <2>11, <2>12, <3>4, <3>5 DEF RowsOK
  <2>14. CASE n = MaxRows
    <3>1. d = 1 /\ l = n /\ Len(rows) = MaxRows
      BY <2>5, <2>6, <2>7, <2>14
    <3>2. ASSUME ~missed' PROVE ~missed /\ Ascending(list)
      BY <1>1, <2>1, <2>14, <3>2
    <3>3. ASSUME Ascending(list), PollRow \in Range(rows) PROVE ~Ascending(rows)
      <4>1. PICK i \in 1 .. l : rows[i] = PollRow
        BY <2>9, <3>3
      <4>2. rows[i] = long[i + 1] /\ i + 1 \in 1 .. n + 1
        BY <2>5, <2>6, <3>1
      <4>3. CASE i + 1 \in 1 .. n
        <5>1. 1 \in 1 .. n /\ 1 < i + 1 /\ list[1] < list[i + 1] /\ list[1] \in Nat
          BY <2>1, <2>8, <3>3, <4>3 DEF Ascending
        <5>2. list[i + 1] = 0
          BY <2>3, <4>1, <4>2, <4>3 DEF PollRow
        <5> QED BY <5>1, <5>2
      <4>4. CASE i + 1 = n + 1
        <5>1. 1 \in 1 .. l /\ i \in 1 .. l /\ 1 < i /\ rows[1] \in Nat /\ rows[i] = 0
          BY <2>7, <2>9, <2>14, <3>1, <4>1, <4>4 DEF PollRow
        <5>2. ~(rows[1] < rows[i])
          BY <5>1
        <5> QED BY <2>6, <5>1, <5>2 DEF Ascending
      <4> QED BY <4>2, <4>3, <4>4
    <3>4. ASSUME ~missed' PROVE ~missed /\ CutOff(rows)
      BY <3>1, <3>2, <3>3, <3>4 DEF CutOff
    <3> QED BY <2>4, <2>5, <2>11, <2>12, <3>4 DEF RowsOK
  <2> QED BY <2>1, <2>7, <2>13, <2>14
<1> QED BY <1>2, <1>3

-----------------------------------------------------------------------------
(* Polls: every vote is in the list, on its way there, or was cut off.       *)

VotesCast == [who : Voters, names : SUBSET Nat]

RowsInv ==
  /\ votes \in Seq(VotesCast)
  /\ RowsOK(list) /\ Range(list) \subseteq 0 .. Len(votes)
  /\ events \in Seq(Nat) /\ Range(events) \subseteq 1 .. Len(votes)
  /\ sending \subseteq [names : SUBSET Nat, at : 0 .. Len(votes)]

CoverInv ==
  ~missed => \/ \A i \in 1 .. Len(votes) : i \in Range(list) \/ i \in Range(events) \/ \E r \in sending : r.at = i
             \/ CutOff(list)

LEMMA RowsStay ==
    ASSUME RowsInv, CoverInv, UNCHANGED <<votes, sending, events, list, missed>>
    PROVE  RowsInv' /\ CoverInv'
  BY DEF RowsInv, CoverInv

LEMMA ShowCovers ==
    ASSUME RowsInv, CoverInv, NEW row \in 0 .. Len(votes), Show(row), UNCHANGED <<votes, events>>,
           sending' \subseteq sending, \A r \in sending \ sending' : r.at = row
    PROVE  RowsInv' /\ CoverInv'
<1>1. Len(votes) \in Nat /\ row \in Nat
  BY DEF RowsInv
<1>2. /\ RowsOK(list') /\ Range(list') \subseteq Range(list) \cup {row}
      /\ ~missed' => /\ ~missed
                     /\ CutOff(list) => CutOff(list')
                     /\ CutOff(list') \/ Range(list) \cup {row} \subseteq Range(list')
  BY <1>1, ShowStep DEF RowsInv
<1>3. RowsInv'
  BY <1>2 DEF RowsInv
<1>4. CoverInv'
  BY <1>2 DEF CoverInv
<1> QED BY <1>3, <1>4

LEMMA VoteStored ==
    ASSUME RowsInv, CoverInv, NEW who \in Voters, NEW names \in SUBSET Nat, Store(who, names),
           UNCHANGED <<list, missed>>,
           \/ UNCHANGED sending /\ events' = Append(events, Len(votes) + 1)
           \/ /\ UNCHANGED events
              /\ \E r \in sending : r.at = 0 /\ sending' = (sending \ {r}) \cup {[names |-> {}, at |-> Len(votes) + 1]}
    PROVE  RowsInv' /\ CoverInv'
<1>1. PICK n \in Nat : n = Len(votes)
  BY DEF RowsInv
<1>2. PICK vote \in VotesCast : vote = [who |-> who, names |-> names]
  BY Zenon DEF VotesCast
<1>3. votes' = Append(votes, vote) /\ votes' \in Seq(VotesCast) /\ Len(votes') = n + 1
  BY <1>1, <1>2 DEF Store, RowsInv
<1>4. 0 .. n \subseteq 0 .. n + 1 /\ 1 .. n \subseteq 1 .. n + 1 /\ n + 1 \in 1 .. n + 1 /\ n + 1 \in 0 .. n + 1
  OBVIOUS
<1>5. \A i \in 1 .. n + 1 : i \in 1 .. n \/ i = n + 1
  OBVIOUS
<1>6. RowsOK(list') /\ Range(list') \subseteq 0 .. Len(votes')
  BY <1>1, <1>3, <1>4 DEF RowsInv
<1>7. CASE UNCHANGED sending /\ events' = Append(events, n + 1)
  <2>1. events' \in Seq(Nat) /\ Range(events') = Range(events) \cup {n + 1}
    <3>1. PICK m \in Nat : m = Len(events)
      BY DEF RowsInv
    <3>2. events' \in Seq(Nat) /\ Len(events') = m + 1 /\ events'[m + 1] = n + 1
          /\ \A k \in 1 .. m : events'[k] = events[k]
      BY <1>7, <3>1 DEF RowsInv
    <3>3. DOMAIN events = 1 .. m /\ DOMAIN events' = 1 .. m + 1 /\ \A k \in 1 .. m + 1 : k \in 1 .. m \/ k = m + 1
      BY <3>1, <3>2 DEF RowsInv
    <3>4. 1 .. m \subseteq 1 .. m + 1 /\ m + 1 \in 1 .. m + 1
      OBVIOUS
    <3> QED BY <3>2, <3>3, <3>4 DEF Range
  <2>2. Range(events') \subseteq 1 .. n + 1
    BY <1>1, <1>4, <2>1 DEF RowsInv
  <2>3. sending' \subseteq [names : SUBSET Nat, at : 0 .. n + 1]
    BY <1>1, <1>4, <1>7 DEF RowsInv
  <2>4. RowsInv'
    BY <1>1, <1>3, <1>6, <2>1, <2>2, <2>3 DEF RowsInv
  <2>5. CoverInv'
    BY <1>1, <1>3, <1>5, <1>7, <2>1 DEF CoverInv
  <2> QED BY <2>4, <2>5
<1>8. CASE /\ UNCHANGED events
           /\ \E r \in sending : r.at = 0 /\ sending' = (sending \ {r}) \cup {[names |-> {}, at |-> n + 1]}
  <2>1. PICK r \in sending : r.at = 0 /\ sending' = (sending \ {r}) \cup {[names |-> {}, at |-> n + 1]}
    BY <1>8
  <2>2. PICK done : done = [names |-> {}, at |-> n + 1]
    OBVIOUS
  <2>3. done \in [names : SUBSET Nat, at : 0 .. n + 1] /\ done.at = n + 1
    BY <1>4, <2>2
  <2>4. sending' \subseteq [names : SUBSET Nat, at : 0 .. n + 1]
    BY <1>1, <1>4, <2>1, <2>2, <2>3 DEF RowsInv
  <2>5. Range(events') \subseteq 1 .. n + 1 /\ events' \in Seq(Nat)
    BY <1>1, <1>4, <1>8 DEF RowsInv
  <2>6. RowsInv'
    BY <1>3, <1>6, <2>4, <2>5 DEF RowsInv
  <2>7. \A q \in sending : q.at # 0 => q \in sending'
    BY <2>1
  <2>8. done \in sending'
    BY <2>1, <2>2
  <2>9. CoverInv'
    <3> SUFFICES ASSUME ~missed', ~CutOff(list'), NEW i \in 1 .. n + 1
                 PROVE  i \in Range(list') \/ i \in Range(events') \/ \E q \in sending' : q.at = i
      BY <1>3 DEF CoverInv
    <3>1. CASE i = n + 1
      BY <2>3, <2>8, <3>1
    <3>2. CASE i \in 1 .. n
      <4>1. i \in Range(list) \/ i \in Range(events) \/ \E q \in sending : q.at = i
        BY <1>1, <3>2 DEF CoverInv
      <4>2. i # 0
        BY <3>2
      <4> QED BY <1>8, <2>7, <4>1, <4>2
    <3> QED BY <1>5, <3>1, <3>2
  <2> QED BY <2>6, <2>9
<1> QED BY <1>1, <1>7, <1>8

LEMMA EventCovers ==
    ASSUME RowsInv, CoverInv, HandleWSEvent
    PROVE  RowsInv' /\ CoverInv'
<1>1. PICK h : h = Head(events)
  OBVIOUS
<1>2. /\ events # <<>> /\ events' = Tail(events) /\ UNCHANGED <<votes, sending, missed>>
      /\ IF h \in Range(list) THEN UNCHANGED list ELSE list' = Bounded(ByTime(Range(list) \cup {h}))
  BY <1>1 DEF HandleWSEvent, voting
<1>3. PICK n \in Nat : n = Len(votes)
  BY DEF RowsInv
<1>4. events' \in Seq(Nat) /\ Range(events) = Range(events') \cup {h} /\ h \in 1 .. n
  <2>1. PICK m \in Nat : m = Len(events) /\ m > 0
    BY <1>2 DEF RowsInv
  <2>2. /\ events' \in Seq(Nat) /\ Len(events') = m - 1 /\ h = events[1]
        /\ \A k \in 1 .. m - 1 : events'[k] = events[k + 1]
    BY <1>1, <1>2, <2>1 DEF RowsInv
  <2>3. DOMAIN events = 1 .. m /\ DOMAIN events' = 1 .. m - 1
    BY <2>1, <2>2 DEF RowsInv
  <2>4. ASSUME NEW x \in Range(events) PROVE x \in Range(events') \cup {h}
    <3>1. PICK k \in 1 .. m : events[k] = x
      BY <2>3 DEF Range
    <3>2. CASE k = 1
      BY <2>2, <3>1, <3>2
    <3>3. CASE k # 1
      <4>1. k - 1 \in 1 .. m - 1 /\ (k - 1) + 1 = k
        BY <2>1, <3>3
      <4>2. events'[k - 1] = x
        BY <2>2, <3>1, <4>1
      <4> QED BY <2>3, <4>1, <4>2 DEF Range
    <3> QED BY <3>2, <3>3
  <2>5. ASSUME NEW x \in Range(events') PROVE x \in Range(events)
    <3>1. PICK k \in 1 .. m - 1 : events'[k] = x
      BY <2>3 DEF Range
    <3>2. k + 1 \in 1 .. m
      BY <2>1
    <3> QED BY <2>2, <2>3, <3>1, <3>2 DEF Range
  <2>6. h \in Range(events)
    <3>1. 1 \in 1 .. m
      BY <2>1
    <3> QED BY <2>2, <2>3, <3>1 DEF Range
  <2>7. h \in 1 .. n
    BY <1>3, <2>6 DEF RowsInv
  <2> QED BY <2>2, <2>4, <2>5, <2>6, <2>7
<1>5. Range(events') \subseteq 1 .. n
  BY <1>3, <1>4 DEF RowsInv
<1>6. CASE h \in Range(list)
  <2>1. RowsInv'
    BY <1>2, <1>3, <1>4, <1>5, <1>6 DEF RowsInv
  <2>2. CoverInv'
    BY <1>2, <1>4, <1>6 DEF CoverInv
  <2> QED BY <2>1, <2>2
<1>7. CASE h \notin Range(list)
  <2>1. PICK S : S = Range(list) \cup {h}
    OBVIOUS
  <2>2. RowsOK(list) /\ Range(list) \subseteq 0 .. n
    BY <1>3 DEF RowsInv
  <2>3. IsFiniteSet(Range(list)) /\ Cardinality(Range(list)) = Len(list) /\ Range(list) \in SUBSET Nat
    BY <2>2, RowsCounted
  <2>4. IsFiniteSet(S) /\ Cardinality(S) = Len(list) + 1 /\ S \in SUBSET Nat /\ S \subseteq 0 .. n
    <3>1. IsFiniteSet(S) /\ Cardinality(S) = Cardinality(Range(list)) + 1
      BY <1>7, <2>1, <2>3, FS_AddElement
    <3>2. h \in Nat /\ h \in 0 .. n
      BY <1>4
    <3> QED BY <2>1, <2>2, <2>3, <3>1, <3>2
  <2>5. list' = Bounded(ByTime(S))
    BY <1>2, <1>7, <2>1
  <2>6. PICK rows : rows = list'
    OBVIOUS
  <2>7. /\ RowsOK(rows) /\ Range(rows) \subseteq S
        /\ Cardinality(S) <= MaxRows => Range(rows) = S
        /\ Cardinality(S) > MaxRows => CutOff(rows)
    BY <2>4, <2>5, <2>6, SortedRows
  <2>8. RowsInv'
    BY <1>2, <1>3, <1>4, <1>5, <2>4, <2>6, <2>7 DEF RowsInv
  <2>9. PICK l \in Nat : l = Len(list)
    BY <2>2 DEF RowsOK
  <2>10. MaxRows \in Nat
    BY PollAssumption
  <2>11. CASE l + 1 > MaxRows
    <3>1. CutOff(list')
      BY <2>4, <2>6, <2>7, <2>9, <2>11
    <3> QED BY <2>8, <3>1 DEF CoverInv
  <2>12. CASE l + 1 <= MaxRows
    <3>1. Range(list') = S
      BY <2>4, <2>6, <2>7, <2>9, <2>12
    <3>2. ~CutOff(list)
      BY <2>9, <2>10, <2>12 DEF CutOff
    <3>3. CoverInv'
      BY <1>2, <1>4, <2>1, <3>1, <3>2 DEF CoverInv
    <3> QED BY <2>8, <3>3
  <2> QED BY <2>9, <2>10, <2>11, <2>12
<1> QED BY <1>6, <1>7

LEMMA LoadCovers ==
    ASSUME RowsInv, LoadMessages
    PROVE  RowsInv' /\ CoverInv'
<1>1. PICK S : S = {PollRow} \cup DOMAIN votes
  OBVIOUS
<1>2. list' = Bounded(ByTime(S)) /\ UNCHANGED <<votes, events, sending>>
  BY <1>1 DEF LoadMessages, voting
<1>3. PICK n \in Nat : n = Len(votes) /\ DOMAIN votes = 1 .. n
  BY DEF RowsInv
<1>4. S = 0 .. n
  BY <1>1, <1>3 DEF PollRow
<1>5. IsFiniteSet(S) /\ Cardinality(S) = IF 0 > n THEN 0 ELSE n - 0 + 1
  BY <1>4, FS_Interval
<1>6. PICK rows : rows = list'
  OBVIOUS
<1>7. /\ RowsOK(rows) /\ Range(rows) \subseteq S
      /\ Cardinality(S) <= MaxRows => Range(rows) = S
      /\ Cardinality(S) > MaxRows => CutOff(rows)
  <2>1. S \in SUBSET Nat
    BY <1>4
  <2> QED BY <1>2, <1>5, <1>6, <2>1, SortedRows
<1>8. RowsInv'
  BY <1>2, <1>3, <1>4, <1>6, <1>7 DEF RowsInv
<1>9. Range(rows) = S \/ CutOff(rows)
  <2>1. Cardinality(S) \in Nat /\ MaxRows \in Nat
    BY <1>5, PollAssumption
  <2> QED BY <1>7, <2>1
<1>10. CoverInv'
  <2>1. \A i \in 1 .. n : i \in S
    BY <1>4
  <2> QED BY <1>2, <1>3, <1>6, <1>9, <2>1 DEF CoverInv
<1> QED BY <1>8, <1>10

-----------------------------------------------------------------------------
(* Polls: what is sent is taken.                                             *)

Typed == Words \cup {""}

Forms ==
  [open : {TRUE}, question : Typed, options : Seq(Typed), field : Nat,
   multiple : BOOLEAN, discardArmed : BOOLEAN]

PollRequests == [question : Typed, options : Seq(Typed), multiple : BOOLEAN, stored : BOOLEAN]

MakingInv ==
  /\ form = Closed \/ form \in Forms
  /\ form.open => request = NoRequest /\ poll = NoPoll
  /\ request = NoRequest \/ request \in PollRequests
  /\ request # NoRequest => /\ CleanPoll(request.question, request.options)
                            /\ Len(request.options) >= MinPollOptions
                            /\ request.stored <=> poll # NoPoll
  /\ poll \in [size : Nat, limit : 0 .. 2]
  /\ poll = NoPoll => list = <<>> /\ events = <<>> /\ votes = <<>> /\ sending = {} /\ ~panel.open

\* What is clean stays as it is.
LEMMA CleanedIs ==
    ASSUME NEW options \in Seq(Typed)
    PROVE  /\ Cleaned(options) \in Seq(Typed)
           /\ \A k \in DOMAIN Cleaned(options) : Cleaned(options)[k] # ""
           /\ Cleaned(Cleaned(options)) = Cleaned(options)
<1>1. PICK n \in Nat : n = Len(options) /\ DOMAIN options = 1 .. n
  OBVIOUS
<1>2. PICK tidy : tidy = [i \in DOMAIN options |-> Tidy(options[i])]
  OBVIOUS
<1> DEFINE T == Typed \ {" "}
           S == Words \ {""}
<1>3. \A i \in 1 .. n : options[i] \in Typed
  BY <1>1, ElementOfSeq
<1>4. tidy \in [1 .. n -> T]
  BY <1>1, <1>2, <1>3 DEF Tidy, Typed
<1>5. tidy \in Seq(T)
  <2> HIDE DEF T
  <2> QED BY <1>1, <1>4
<1>6. PICK left : left = Within(tidy, S)
  OBVIOUS
<1>7. left \in Seq(T) /\ \A k \in 1 .. Len(left) : left[k] \in S
  <2> HIDE DEF T, S
  <2> QED BY <1>5, <1>6, WithinList
<1>8. Cleaned(options) = left
  BY <1>2, <1>6 DEF Cleaned
<1>9. PICK m \in Nat : m = Len(left) /\ DOMAIN left = 1 .. m /\ left = [i \in 1 .. m |-> left[i]]
  <2> HIDE DEF T, S
  <2> QED BY <1>7
<1>10. \A k \in 1 .. m : left[k] \in T /\ left[k] \in S
  <2> HIDE DEF T, S
  <2> QED BY <1>7, <1>9, ElementOfSeq
<1>11. [i \in DOMAIN left |-> Tidy(left[i])] = left
  <2>1. \A k \in 1 .. m : Tidy(left[k]) = left[k]
    BY <1>10 DEF Tidy
  <2> HIDE DEF T, S
  <2> QED BY <1>9, <2>1
<1>12. Within(left, S) = left
  <2> HIDE DEF T, S
  <2> QED BY <1>7, WithinList
<1>13. Cleaned(left) = left
  BY <1>11, <1>12 DEF Cleaned
<1>14. left \in Seq(Typed)
  <2>1. left \in [1 .. m -> Typed]
    BY <1>9, <1>10
  <2> QED BY <1>9, <2>1
<1> QED BY <1>8, <1>9, <1>10, <1>13, <1>14

\* The TUI's rules are as strict as the backend's.
LEMMA SentIsClean ==
    ASSUME NEW question \in Typed, NEW options \in Seq(Typed), NEW multiple \in BOOLEAN,
           SendPoll(question, options, multiple)
    PROVE  /\ request' \in PollRequests /\ ~request'.stored
           /\ CleanPoll(request'.question, request'.options)
           /\ Len(request'.options) >= MinPollOptions
<1>1. PICK left : left = Cleaned(options)
  OBVIOUS
<1>2. left \in Seq(Typed) /\ Cleaned(left) = left
  BY <1>1, CleanedIs
<1>3. /\ Tidy(question) # "" /\ ~TooLong(question)
      /\ Len(left) \in MinPollOptions .. MaxPollOptions
      /\ \A i \in DOMAIN left : ~TooLong(left[i])
      /\ Different(left)
      /\ request' = [question |-> Tidy(question), options |-> left, multiple |-> multiple, stored |-> FALSE]
  BY <1>1 DEF SendPoll, CleanPollDraft
<1>4. Tidy(question) \in Typed /\ Tidy(Tidy(question)) = Tidy(question) /\ ~TooLong(Tidy(Tidy(question)))
  BY <1>3 DEF Tidy, Typed, TooLong
<1>5. request' \in PollRequests /\ ~request'.stored
      /\ request'.question = Tidy(question) /\ request'.options = left
  BY <1>2, <1>3, <1>4 DEF PollRequests
<1>6. ASSUME NEW o \in Range(left)
      PROVE  ~TooLong(o) /\ Cardinality({i \in DOMAIN left : Lower(left[i]) = Lower(o)}) = 1
  <2>1. PICK k \in DOMAIN left : left[k] = o
    BY DEF Range
  <2>2. {i \in DOMAIN left : Lower(left[i]) = Lower(o)} = {k}
    BY <1>3, <2>1 DEF Different
  <2>3. ~TooLong(o)
    BY <1>3, <2>1
  <2> QED BY <2>2, <2>3, FS_Singleton
<1>7. Len(left) >= MinPollOptions /\ Len(left) <= MaxPollOptions
  <2>1. MinPollOptions \in Nat /\ MaxPollOptions \in Nat
    BY PollAssumption
  <2>2. PICK l : l = Len(left)
    OBVIOUS
  <2>3. l \in MinPollOptions .. MaxPollOptions
    BY <1>3, <2>2
  <2>4. l >= MinPollOptions /\ l <= MaxPollOptions
    BY <2>1, <2>3
  <2> QED BY <2>2, <2>4
<1>8. CleanPoll(Tidy(question), left)
  BY <1>2, <1>3, <1>4, <1>6, <1>7 DEF CleanPoll
<1> QED BY <1>5, <1>7, <1>8

LEMMA KeysStay ==
    ASSUME MakingInv, NEW f \in Forms, Keys(f)
    PROVE  form' \in Forms /\ form.open
<1>1. form' = [f EXCEPT !.discardArmed = FALSE] /\ form.open
  BY DEF Keys
<1> QED BY <1>1 DEF Forms

\* Keys of the form, which leave the rest alone.
LEMMA FormKeys ==
    ASSUME MakingInv, form.open, form' = Closed \/ form' \in Forms,
           UNCHANGED <<request, poll, voting, votes, shown>>
    PROVE  MakingInv'
  BY DEF MakingInv, voting, shown, Closed

LEMMA MakingStep ==
    ASSUME MakingInv, FormNext
    PROVE  MakingInv'
<1>1. CASE RunPollCommand
  <2>1. form' \in Forms /\ request = NoRequest /\ poll = NoPoll
        /\ UNCHANGED <<request, poll, voting, votes, shown>>
    <3>1. [i \in 1 .. MinPollOptions |-> ""] \in Seq(Typed)
      BY PollAssumption DEF Typed
    <3> QED BY <1>1, <3>1 DEF RunPollCommand, EmptyForm, Forms, Typed
  <2> QED BY <2>1 DEF MakingInv, voting, shown
<1>2. CASE RunInlinePoll
  <2>1. /\ request = NoRequest /\ poll = NoPoll /\ ~form.open
        /\ UNCHANGED <<form, poll, voting, votes, shown>>
    BY <1>2 DEF RunInlinePoll
  <2>2. PICK question \in Words, options \in SeqOf(Words, MaxPollOptions + 1), multiple \in BOOLEAN :
          SendPoll(question, options, multiple)
    BY <1>2 DEF RunInlinePoll
  <2>3. question \in Typed /\ options \in Seq(Typed)
    <3>1. PICK m \in 0 .. MaxPollOptions + 1 : options \in [1 .. m -> Words]
      BY <2>2 DEF SeqOf
    <3>2. m \in Nat /\ options \in [1 .. m -> Typed]
      <4>1. MaxPollOptions + 1 \in Nat
        BY PollAssumption
      <4>2. Words \subseteq Typed
        BY DEF Typed
      <4> QED BY <3>1, <4>1, <4>2
    <3>3. options \in Seq(Typed)
      BY <3>2
    <3> QED BY <3>3 DEF Typed
  <2>4. /\ request' \in PollRequests /\ ~request'.stored
        /\ CleanPoll(request'.question, request'.options)
        /\ Len(request'.options) >= MinPollOptions
    BY <2>2, <2>3, SentIsClean
  <2> QED BY <2>1, <2>4 DEF MakingInv, voting, shown
<1>3. CASE form.open /\ (InsertText \/ BackspaceKey \/ Step \/ Enter)
  <2>0. form \in Forms /\ UNCHANGED <<request, poll, voting, votes, shown>>
    <3>1. form \in Forms
      BY <1>3 DEF MakingInv, Closed
    <3> QED BY <1>3, <3>1 DEF InsertText, BackspaceKey, Step, Enter
  <2>1. PICK n \in Nat : n = Len(form.options) /\ DOMAIN form.options = 1 .. n
    BY <2>0 DEF Forms
  <2>2. /\ form.question \in Typed /\ form.options \in Seq(Typed) /\ form.field \in Nat
        /\ "" \in Typed /\ Words \subseteq Typed
    BY <2>0 DEF Forms, Typed
  <2>3. \A i \in 1 .. n, w \in Typed : [form.options EXCEPT ![i] = w] \in Seq(Typed)
    <3>1. PICK q \in Seq(Typed) : q = form.options /\ Len(q) = n
      BY <2>1, <2>2
    <3>2. ASSUME NEW i \in 1 .. n, NEW w \in Typed PROVE [q EXCEPT ![i] = w] \in Seq(Typed)
      BY <3>1
    <3> QED BY <3>1, <3>2
  <2>4. form' \in Forms
    <3>1. CASE InsertText
      <4>1. PICK word \in Words : \/ Keys([form EXCEPT !.question = word])
                                  \/ OnOption /\ Keys([form EXCEPT !.options[form.field] = word])
        BY <3>1 DEF InsertText
      <4>2. CASE Keys([form EXCEPT !.question = word])
        <5>1. [form EXCEPT !.question = word] \in Forms
          BY <2>0, <2>2, <4>1 DEF Forms
        <5> QED BY <4>2, <5>1, KeysStay
      <4>3. CASE OnOption /\ Keys([form EXCEPT !.options[form.field] = word])
        <5>1. PICK o : o = [form.options EXCEPT ![form.field] = word]
          OBVIOUS
        <5>2. o \in Seq(Typed)
          BY <2>1, <2>2, <2>3, <4>1, <4>3, <5>1 DEF OnOption
        <5>3. [form EXCEPT !.options = o] \in Forms
          BY <2>0, <5>2 DEF Forms
        <5>4. [form EXCEPT !.options[form.field] = word] = [form EXCEPT !.options = o]
          BY <5>1
        <5> QED BY <4>3, <5>3, <5>4, KeysStay
      <4> QED BY <4>1, <4>2, <4>3
    <3>2. CASE BackspaceKey
      <4>1. \/ Keys([form EXCEPT !.question = ""])
            \/ OnOption /\ Keys([form EXCEPT !.options[form.field] = ""])
            \/ OnOption /\ Keys([form EXCEPT !.options = RemoveAt(@, form.field), !.field = @ - 1])
        BY <3>2 DEF BackspaceKey
      <4>2. CASE Keys([form EXCEPT !.question = ""])
        <5>1. [form EXCEPT !.question = ""] \in Forms
          BY <2>0, <2>2 DEF Forms
        <5> QED BY <4>2, <5>1, KeysStay
      <4>3. CASE OnOption /\ Keys([form EXCEPT !.options[form.field] = ""])
        <5>1. PICK o : o = [form.options EXCEPT ![form.field] = ""]
          OBVIOUS
        <5>2. o \in Seq(Typed)
          BY <2>1, <2>2, <2>3, <4>3, <5>1 DEF OnOption
        <5>3. [form EXCEPT !.options = o] \in Forms
          BY <2>0, <5>2 DEF Forms
        <5>4. [form EXCEPT !.options[form.field] = ""] = [form EXCEPT !.options = o]
          BY <5>1
        <5> QED BY <4>3, <5>3, <5>4, KeysStay
      <4>4. CASE OnOption /\ Keys([form EXCEPT !.options = RemoveAt(@, form.field), !.field = @ - 1])
        <5>1. PICK i \in 1 .. n : i = form.field
          BY <2>1, <4>4 DEF OnOption
        <5>2. PICK o : o = RemoveAt(form.options, i)
          OBVIOUS
        <5>3. SubSeq(form.options, 1, i - 1) \in Seq(Typed) /\ SubSeq(form.options, i + 1, n) \in Seq(Typed)
          <6>1. PICK q \in Seq(Typed) : q = form.options /\ Len(q) = n
            BY <2>1, <2>2
          <6>2. \A j, k \in 0 .. n + 1 : 1 <= j /\ k <= n => SubSeq(q, j, k) \in Seq(Typed)
            <7> SUFFICES ASSUME NEW j \in 0 .. n + 1, NEW k \in 0 .. n + 1, 1 <= j, k <= n
                         PROVE  SubSeq(q, j, k) \in Seq(Typed)
              OBVIOUS
            <7> QED BY <6>1
          <6>3. i - 1 \in 0 .. n + 1 /\ i + 1 \in 0 .. n + 1 /\ n \in 0 .. n + 1 /\ 1 \in 0 .. n + 1
                /\ i - 1 <= n /\ 1 <= i + 1
            OBVIOUS
          <6> QED BY <6>1, <6>2, <6>3
        <5>4. o \in Seq(Typed) /\ i - 1 \in Nat
          BY <2>1, <5>2, <5>3 DEF RemoveAt
        <5>5. [form EXCEPT !.options = o, !.field = i - 1] \in Forms
          BY <2>0, <5>4 DEF Forms
        <5>6. Keys([form EXCEPT !.options = o, !.field = i - 1])
          BY <4>4, <5>1, <5>2
        <5> QED BY <5>5, <5>6, KeysStay
      <4> QED BY <4>1, <4>2, <4>3, <4>4
    <3>3. CASE Step
      <4>1. PICK by \in {1, FieldCount - 1} : Keys([form EXCEPT !.field = (@ + by) % FieldCount])
        BY <3>3 DEF Step
      <4>2. PICK c \in Nat : c = FieldCount /\ c > 0
        BY <2>1 DEF FieldCount
      <4>3. by \in Nat
        BY <4>1, <4>2
      <4>4. PICK to : to = (form.field + by) % c
        OBVIOUS
      <4>5. to \in Nat
        <5>1. PICK a \in Nat, b \in Nat : a = form.field /\ b = by
          BY <2>2, <4>3
        <5>2. a + b \in Nat /\ to = (a + b) % c
          BY <4>4, <5>1
        <5> QED BY <4>2, <5>2
      <4>6. [form EXCEPT !.field = to] \in Forms
        BY <2>0, <4>5 DEF Forms
      <4>7. Keys([form EXCEPT !.field = to])
        BY <4>1, <4>2, <4>4
      <4> QED BY <4>6, <4>7, KeysStay
    <3>4. CASE Enter
      <4>1. \/ Keys([form EXCEPT !.field = 1])
            \/ OnOption /\ \E more \in BOOLEAN :
                 Keys([form EXCEPT !.options = IF more THEN Append(@, "") ELSE @, !.field = @ + 1])
            \/ Keys([form EXCEPT !.multiple = ~@])
        BY <3>4 DEF Enter
      <4>2. CASE Keys([form EXCEPT !.field = 1])
        <5>1. [form EXCEPT !.field = 1] \in Forms
          BY <2>0 DEF Forms
        <5> QED BY <4>2, <5>1, KeysStay
      <4>3. CASE \E more \in BOOLEAN :
                   Keys([form EXCEPT !.options = IF more THEN Append(@, "") ELSE @, !.field = @ + 1])
        <5>1. PICK more \in BOOLEAN :
                Keys([form EXCEPT !.options = IF more THEN Append(@, "") ELSE @, !.field = @ + 1])
          BY <4>3
        <5>2. PICK o : o = IF more THEN Append(form.options, "") ELSE form.options
          OBVIOUS
        <5>3. o \in Seq(Typed) /\ form.field + 1 \in Nat
          <6>1. PICK q \in Seq(Typed) : q = form.options
            BY <2>2
          <6>2. PICK e \in Typed : e = ""
            BY <2>2
          <6>3. Append(q, e) \in Seq(Typed)
            OBVIOUS
          <6>4. o \in Seq(Typed)
            BY <5>2, <6>1, <6>2, <6>3
          <6>5. PICK a \in Nat : a = form.field
            BY <2>2
          <6> QED BY <6>4, <6>5
        <5>4. [form EXCEPT !.options = o, !.field = form.field + 1] \in Forms
          BY <2>0, <5>3 DEF Forms
        <5>5. Keys([form EXCEPT !.options = o, !.field = form.field + 1])
          BY <5>1, <5>2
        <5> QED BY <5>4, <5>5, KeysStay
      <4>4. CASE Keys([form EXCEPT !.multiple = ~@])
        <5>1. [form EXCEPT !.multiple = ~@] \in Forms
          BY <2>0 DEF Forms
        <5> QED BY <4>4, <5>1, KeysStay
      <4> QED BY <4>1, <4>2, <4>3, <4>4
    <3> QED BY <1>3, <3>1, <3>2, <3>3, <3>4
  <2> QED BY <1>3, <2>0, <2>4, FormKeys
<1>4. CASE TryToSend
  <2>1. /\ form \in Forms /\ form' = Closed /\ request = NoRequest /\ poll = NoPoll
        /\ SendPoll(form.question, form.options, form.multiple)
        /\ UNCHANGED <<poll, voting, votes, shown>>
    BY <1>4 DEF TryToSend, MakingInv, Closed
  <2>2. form.question \in Typed /\ form.options \in Seq(Typed) /\ form.multiple \in BOOLEAN
    BY <2>1 DEF Forms
  <2>3. /\ request' \in PollRequests /\ ~request'.stored
        /\ CleanPoll(request'.question, request'.options)
        /\ Len(request'.options) >= MinPollOptions
    BY <2>1, <2>2, SentIsClean
  <2>4. ~form'.open
    BY <2>1 DEF Closed
  <2> QED BY <2>1, <2>3, <2>4 DEF MakingInv, voting, shown
<1>5. CASE EscapeForm
  <2>1. form.open /\ form \in Forms
    BY <1>5 DEF EscapeForm, MakingInv, Closed
  <2>2. form' = Closed \/ form' = [form EXCEPT !.discardArmed = TRUE]
    BY <1>5 DEF EscapeForm
  <2>3. form' = Closed \/ form' \in Forms
    BY <2>1, <2>2 DEF Forms
  <2> QED BY <1>5, <2>1, <2>3, FormKeys DEF EscapeForm
<1>6. CASE HandleSendPoll
  <2>1. /\ request # NoRequest /\ request \in PollRequests /\ ~request.stored /\ poll = NoPoll
        /\ request' = [request EXCEPT !.stored = TRUE]
        /\ poll' = [size |-> Len(request.options), limit |-> IF request.multiple THEN 0 ELSE 1]
        /\ UNCHANGED <<form, voting, votes, shown>>
        /\ ~form.open
    BY <1>6 DEF HandleSendPoll, MakingInv
  <2>2. PICK n \in Nat : n = Len(request.options)
    BY <2>1 DEF PollRequests
  <2>3. n # 0
    BY <2>1, <2>2, PollAssumption DEF MakingInv
  <2>4. PICK limit \in {0, 1} : poll' = [size |-> n, limit |-> limit]
    BY <2>1, <2>2
  <2>5. poll' \in [size : Nat, limit : 0 .. 2] /\ poll' # NoPoll
    BY <2>2, <2>3, <2>4 DEF NoPoll
  <2>6. /\ request' \in PollRequests /\ request'.stored
        /\ request'.question = request.question /\ request'.options = request.options
    BY <2>1 DEF PollRequests
  <2>7. CleanPoll(request'.question, request'.options) /\ Len(request'.options) >= MinPollOptions
    BY <2>1, <2>6 DEF MakingInv
  <2> QED BY <2>1, <2>5, <2>6, <2>7 DEF MakingInv, voting, shown
<1>7. CASE ApplyPollSent
  <2>1. /\ request # NoRequest /\ request' = NoRequest /\ ~form.open
        /\ UNCHANGED <<form, poll, voting, votes, events>>
        /\ poll = NoPoll => UNCHANGED list
    BY <1>7 DEF ApplyPollSent, MakingInv
  <2> QED BY <2>1 DEF MakingInv, voting
<1>8. CASE PollArrives
  <2>1. poll' \in [size : Nat, limit : 0 .. 2] /\ poll' # NoPoll
    BY <1>8 DEF PollArrives, NoPoll
  <2> QED BY <1>8, <2>1 DEF PollArrives, MakingInv, voting
<1> QED
  BY <1>1, <1>2, <1>3, <1>4, <1>5, <1>6, <1>7, <1>8
  DEF FormNext, InsertText, BackspaceKey, Step, Enter

\* Without a poll there is nothing to vote on.
LEMMA VotesOnAPoll ==
    ASSUME MakingInv, VoteNext \/ RowsNext
    PROVE  poll # NoPoll /\ UNCHANGED making
<1>1. UNCHANGED making
  BY DEF VoteNext, RowsNext, OpenPollList, OpenVoteForm, ClosePanel, Toggle, EnterVote, HandleVotePoll,
         VoteFails, ApplyPollVoted, ReceiveVote, HandleWSEvent, LoadMessages
<1>2. ASSUME poll = NoPoll PROVE FALSE
  <2>1. list = <<>> /\ events = <<>> /\ sending = {} /\ ~panel.open
    BY <1>2 DEF MakingInv
  <2>2. PollRow \notin Range(list)
    BY <2>1 DEF Range
  <2> QED
    BY <1>2, <2>1, <2>2
    DEF VoteNext, RowsNext, OpenPollList, OpenVoteForm, ClosePanel, Toggle, EnterVote, HandleVotePoll,
        VoteFails, ApplyPollVoted, ReceiveVote, HandleWSEvent, LoadMessages, VoteKeys
<1> QED BY <1>1, <1>2

LEMMA MakingStays ==
    ASSUME MakingInv, VoteNext \/ RowsNext
    PROVE  MakingInv'
  BY VotesOnAPoll DEF MakingInv, making

\* A choice that is within the limit of a poll that allows a number of answers.
Fits(names) == poll.limit > 1 => Cardinality(names \cap Options) <= poll.limit

VotingInv ==
  /\ panel \in {Closed, [open |-> TRUE, kind |-> "list"]}
               \cup [open : {TRUE}, kind : {"vote"}, ticks : SUBSET Options, hadVote : BOOLEAN]
  /\ VoteKeys => Fits(panel.ticks)
  /\ \A r \in sending : ValidateVote(r.names)
  /\ \A i \in 1 .. Len(votes) : Fits(votes[i].names)

LEMMA PanelIs ==
    ASSUME VotingInv
    PROVE  \/ panel = Closed /\ ~panel.open
           \/ panel.open /\ panel.kind = "list"
           \/ /\ panel.open /\ panel.kind = "vote"
              /\ panel \in [open : {TRUE}, kind : {"vote"}, ticks : SUBSET Options, hadVote : BOOLEAN]
<1>1. \/ panel = Closed \/ panel = [open |-> TRUE, kind |-> "list"]
      \/ panel \in [open : {TRUE}, kind : {"vote"}, ticks : SUBSET Options, hadVote : BOOLEAN]
  BY Zenon DEF VotingInv
<1>2. CASE panel = Closed
  BY <1>2 DEF Closed
<1>3. CASE panel = [open |-> TRUE, kind |-> "list"]
  BY <1>3
<1>4. CASE panel \in [open : {TRUE}, kind : {"vote"}, ticks : SUBSET Options, hadVote : BOOLEAN]
  BY <1>4
<1> QED BY <1>1, <1>2, <1>3, <1>4

LEMMA OptionsCounted ==
    ASSUME poll \in [size : Nat, limit : 0 .. 2], NEW names
    PROVE  /\ IsFiniteSet(names \cap Options) /\ Cardinality(names \cap Options) \in Nat
           /\ Options \in SUBSET Nat /\ poll.limit \in 0 .. 2
<1>1. PICK n \in Nat : n = poll.size
  OBVIOUS
<1>2. IsFiniteSet(1 .. n)
  BY FS_Interval
<1>3. Options = 1 .. n
  BY <1>1 DEF Options
<1>4. names \cap Options \in SUBSET (1 .. n)
  BY <1>3
<1>5. IsFiniteSet(names \cap Options)
  BY <1>2, <1>4, FS_Subset
<1> QED BY <1>3, <1>5, FS_CardinalityType

LEMMA ValidFits ==
    ASSUME poll \in [size : Nat, limit : 0 .. 2], NEW names, ValidateVote(names)
    PROVE  Fits(names) /\ names \in SUBSET Nat
<1>1. names \subseteq Options /\ (poll.limit > 0 => Cardinality(names) <= poll.limit)
  BY DEF ValidateVote
<1>2. names \cap Options = names
  BY <1>1
<1>3. poll.limit \in 0 .. 2 /\ Options \in SUBSET Nat
  BY OptionsCounted
<1>4. poll.limit > 1 => poll.limit > 0
  BY <1>3
<1> QED BY <1>1, <1>2, <1>3, <1>4 DEF Fits

\* What is read is nothing or the choice of one of the votes of the list.
LEMMA ReadIsAVote ==
    ASSUME NEW rows, NEW v, NEW n \in Nat
    PROVE  \/ LastRead(rows, n, v) = {}
           \/ \E j \in 1 .. n : IsVote(rows[j]) /\ LastRead(rows, n, v) = votes[rows[j]].names
<1> DEFINE Read(i) == \/ LastRead(rows, i, v) = {}
                      \/ \E j \in 1 .. n : IsVote(rows[j]) /\ LastRead(rows, i, v) = votes[rows[j]].names
           S == {i \in 0 .. n : Read(i)}
<1>1. 0 \in S
  BY NothingRead
<1>2. ASSUME NEW i \in 1 .. n, i - 1 \in S PROVE i \in S
  <2>1. i \in Nat \ {0} /\ i \in 0 .. n
    OBVIOUS
  <2>2. LastRead(rows, i, v) = IF Counted(rows[i], v) THEN votes[rows[i]].names ELSE LastRead(rows, i - 1, v)
    BY <2>1, ReadNext
  <2>3. CASE Counted(rows[i], v)
    BY <2>1, <2>2, <2>3 DEF Counted
  <2>4. CASE ~Counted(rows[i], v)
    BY <1>2, <2>1, <2>2, <2>4
  <2> QED BY <2>3, <2>4
<1>3. 0 .. n \subseteq S
  <2> HIDE DEF S
  <2> QED BY <1>1, <1>2, UpTo
<1>4. n \in S
  BY <1>3
<1> QED BY <1>4

LEMMA VotingStays ==
    ASSUME VotingInv, UNCHANGED <<poll, panel, sending, votes>>
    PROVE  VotingInv'
  BY DEF VotingInv, Fits, ValidateVote, Options, VoteKeys

LEMMA VotingForm ==
    ASSUME MakingInv, VotingInv, FormNext
    PROVE  VotingInv'
<1>1. UNCHANGED <<panel, sending, votes>>
  BY DEF FormNext, RunPollCommand, RunInlinePoll, InsertText, BackspaceKey, Step, Enter, TryToSend, EscapeForm,
         HandleSendPoll, ApplyPollSent, PollArrives, voting
<1>2. UNCHANGED poll \/ poll = NoPoll
  BY DEF FormNext, RunPollCommand, RunInlinePoll, InsertText, BackspaceKey, Step, Enter, TryToSend, EscapeForm,
         HandleSendPoll, ApplyPollSent, PollArrives, MakingInv
<1>3. CASE poll = NoPoll
  <2>1. votes = <<>> /\ sending = {} /\ ~panel.open
    BY <1>3 DEF MakingInv
  <2>2. panel = Closed
    BY <2>1, PanelIs
  <2>3. 1 .. Len(votes') = {} /\ ~panel'.open
    BY <1>1, <2>1
  <2> QED BY <1>1, <2>1, <2>2, <2>3 DEF VotingInv, VoteKeys
<1>4. CASE UNCHANGED poll
  BY <1>1, <1>4, VotingStays
<1> QED BY <1>2, <1>3, <1>4

LEMMA VotingStep ==
    ASSUME RowsInv, MakingInv, VotingInv, VoteNext \/ RowsNext
    PROVE  VotingInv'
<1>1. poll' = poll /\ poll \in [size : Nat, limit : 0 .. 2]
  BY VotesOnAPoll DEF making, MakingInv
<1>2. PICK n \in Nat : n = Len(votes)
  BY DEF RowsInv
<1>3. /\ Options' = Options /\ \A names : (Fits(names))' <=> Fits(names)
      /\ \A names : (ValidateVote(names))' <=> ValidateVote(names)
  BY <1>1 DEF Options, Fits, ValidateVote
<1> DEFINE PanelStates == {Closed, [open |-> TRUE, kind |-> "list"]}
                     \cup [open : {TRUE}, kind : {"vote"}, ticks : SUBSET Options, hadVote : BOOLEAN]
<1>4. /\ panel \in PanelStates
      /\ panel.open /\ panel.kind = "vote" =>
           /\ panel \in [open : {TRUE}, kind : {"vote"}, ticks : SUBSET Options, hadVote : BOOLEAN]
           /\ Fits(panel.ticks)
      /\ \A r \in sending : ValidateVote(r.names)
      /\ \A i \in 1 .. n : Fits(votes[i].names)
  <2>1. panel \in PanelStates
    BY DEF VotingInv
  <2>2. ASSUME panel.open, panel.kind = "vote"
        PROVE  panel \in [open : {TRUE}, kind : {"vote"}, ticks : SUBSET Options, hadVote : BOOLEAN]
    BY <2>2, PanelIs
  <2>3. panel.open /\ panel.kind = "vote" => Fits(panel.ticks)
    BY DEF VotingInv, VoteKeys
  <2>4. (\A r \in sending : ValidateVote(r.names)) /\ \A i \in 1 .. n : Fits(votes[i].names)
    BY <1>2 DEF VotingInv
  <2> QED BY <2>1, <2>2, <2>3, <2>4
\* What is left to show.
<1>5. ASSUME panel' \in PanelStates, panel'.open /\ panel'.kind = "vote" => Fits(panel'.ticks),
             \A r \in sending' : ValidateVote(r.names),
             \A i \in 1 .. Len(votes') : Fits(votes'[i].names)
      PROVE  VotingInv'
  BY <1>1, <1>5 DEF VotingInv, Options, Fits, ValidateVote, VoteKeys
<1>6. ASSUME UNCHANGED votes PROVE \A i \in 1 .. Len(votes') : Fits(votes'[i].names)
  BY <1>2, <1>4, <1>6
<1>7. ASSUME NEW who, NEW names, Store(who, names), Fits(names)
      PROVE  \A i \in 1 .. Len(votes') : Fits(votes'[i].names)
  <2>1. PICK q \in Seq(VotesCast) : q = votes
    BY DEF RowsInv
  <2>2. PICK vote : vote = [who |-> who, names |-> names]
    OBVIOUS
  <2>3. votes' = Append(q, vote) /\ Len(votes') = n + 1 /\ votes'[n + 1] = vote
        /\ \A i \in 1 .. n : votes'[i] = votes[i]
    BY <1>2, <1>7, <2>1, <2>2 DEF Store
  <2>4. vote.names = names
    BY <2>2
  <2>5. \A i \in 1 .. n + 1 : i \in 1 .. n \/ i = n + 1
    OBVIOUS
  <2> QED BY <1>4, <1>7, <2>3, <2>4, <2>5
<1> HIDE DEF PanelStates
<1>8. Closed \in PanelStates /\ [open |-> TRUE, kind |-> "list"] \in PanelStates
  BY DEF PanelStates
<1>9. \A ticks \in SUBSET Options, had \in BOOLEAN :
        [open |-> TRUE, kind |-> "vote", ticks |-> ticks, hadVote |-> had] \in PanelStates
  BY DEF PanelStates
<1>10. ~Closed.open
  BY DEF Closed
<1>11. CASE OpenPollList
  <2>1. panel' = [open |-> TRUE, kind |-> "list"] /\ UNCHANGED <<sending, votes>>
    BY <1>11 DEF OpenPollList
  <2>2. panel' \in PanelStates /\ panel'.kind = "list"
    BY <1>8, <2>1
  <2> QED BY <1>4, <1>5, <1>6, <2>1, <2>2
<1>12. CASE OpenVoteForm
  <2>1. PICK mine : mine = CollectPollVotes(list)["me"]
    OBVIOUS
  <2>2. /\ panel' = Closed \/ panel' = [open |-> TRUE, kind |-> "vote", ticks |-> mine \cap Options,
                                        hadVote |-> mine # {}]
        /\ UNCHANGED <<sending, votes>>
    BY <1>12, <2>1 DEF OpenVoteForm
  <2>3. PICK l \in Nat : l = Len(list)
    BY DEF RowsInv, RowsOK
  <2>4. mine = LastRead(list, l, "me")
    BY <2>1, <2>3, CollectIs DEF Voters
  <2>5. mine = {} \/ \E j \in 1 .. l : IsVote(list[j]) /\ mine = votes[list[j]].names
    BY <2>4, ReadIsAVote
  <2>6. Fits(mine \cap Options)
    <3>1. CASE mine = {}
      <4>1. (mine \cap Options) \cap Options = {}
        BY <3>1
      <4>2. PICK limit \in 0 .. 2 : limit = poll.limit
        BY <1>1
      <4>3. Cardinality({}) = 0 /\ 0 <= limit
        BY FS_EmptySet
      <4> QED BY <4>1, <4>2, <4>3 DEF Fits
    <3>2. CASE \E j \in 1 .. l : IsVote(list[j]) /\ mine = votes[list[j]].names
      <4>1. PICK j \in 1 .. l : IsVote(list[j]) /\ mine = votes[list[j]].names
        BY <3>2
      <4>2. list[j] \in 0 .. n /\ list[j] # 0
        BY <1>2, <2>3, <4>1, RangeOfRows DEF RowsInv, RowsOK, IsVote, PollRow
      <4>3. list[j] \in 1 .. n
        BY <4>2
      <4>4. Fits(mine)
        BY <1>4, <4>1, <4>3
      <4>5. (mine \cap Options) \cap Options = mine \cap Options
        OBVIOUS
      <4> QED BY <4>4, <4>5 DEF Fits
    <3> QED BY <2>5, <3>1, <3>2
  <2>7. CASE panel' = Closed
    BY <1>4, <1>5, <1>6, <1>8, <1>10, <2>2, <2>7
  <2>8. CASE panel' = [open |-> TRUE, kind |-> "vote", ticks |-> mine \cap Options, hadVote |-> mine # {}]
    <3>1. panel' \in PanelStates /\ panel'.ticks = mine \cap Options
      <4>1. mine \cap Options \in SUBSET Options /\ (mine # {}) \in BOOLEAN
        OBVIOUS
      <4> QED BY <1>9, <2>8, <4>1
    <3> QED BY <1>4, <1>5, <1>6, <2>2, <2>6, <3>1
  <2> QED BY <2>2, <2>7, <2>8
<1>13. CASE ClosePanel
  <2>1. panel' = Closed /\ UNCHANGED <<sending, votes>>
    BY <1>13 DEF ClosePanel
  <2> QED BY <1>4, <1>5, <1>6, <1>8, <1>10, <2>1
<1>14. CASE Toggle
  <2>1. /\ panel \in [open : {TRUE}, kind : {"vote"}, ticks : SUBSET Options, hadVote : BOOLEAN]
        /\ Fits(panel.ticks) /\ UNCHANGED <<sending, votes>>
    BY <1>4, <1>14 DEF Toggle, VoteKeys
  <2>2. PICK o \in Options :
          panel' = [panel EXCEPT !.ticks = IF o \in @ THEN @ \ {o}
                                           ELSE IF poll.limit = 1 THEN {o}
                                           ELSE IF poll.limit > 0 /\ Cardinality(@) >= poll.limit THEN @
                                           ELSE @ \cup {o}]
    BY <1>14 DEF Toggle
  <2>3. PICK old \in SUBSET Options : old = panel.ticks
    BY <2>1
  <2>4. PICK to : to = IF o \in old THEN old \ {o}
                       ELSE IF poll.limit = 1 THEN {o}
                       ELSE IF poll.limit > 0 /\ Cardinality(old) >= poll.limit THEN old
                       ELSE old \cup {o}
    OBVIOUS
  <2>5. to \in SUBSET Options
    BY <2>4
  <2>6. panel' = [panel EXCEPT !.ticks = to]
    BY <2>2, <2>3, <2>4
  <2>7. panel' \in PanelStates /\ panel'.ticks = to
    <3>1. panel' = [open |-> TRUE, kind |-> "vote", ticks |-> to, hadVote |-> panel.hadVote]
          /\ panel.hadVote \in BOOLEAN
      BY <2>1, <2>6
    <3> QED BY <1>9, <2>5, <3>1
  <2>8. Fits(to)
    <3>1. old \cap Options = old /\ to \cap Options = to
      BY <2>5
    <3>2. IsFiniteSet(old) /\ Cardinality(old) \in Nat
      BY <1>1, <3>1, OptionsCounted
    <3>3. PICK c \in Nat : c = Cardinality(old)
      BY <3>2
    <3>4. PICK limit \in 0 .. 2 : limit = poll.limit
      BY <1>1
    <3>5. limit > 1 => c <= limit
      BY <2>1, <2>3, <3>1, <3>3, <3>4 DEF Fits
    <3>6. SUFFICES ASSUME limit > 1 PROVE Cardinality(to) <= limit
      BY <3>1, <3>4 DEF Fits
    <3>7. CASE o \in old
      <4>1. Cardinality(to) = c - 1
        BY <2>4, <3>2, <3>3, <3>7, FS_RemoveElement
      <4> QED BY <3>5, <3>6, <4>1
    <3>8. CASE o \notin old /\ c >= limit
      <4>1. to = old
        BY <2>4, <3>3, <3>4, <3>6, <3>8
      <4> QED BY <3>3, <3>5, <3>6, <4>1
    <3>9. CASE o \notin old /\ ~(c >= limit)
      <4>1. to = old \cup {o}
        BY <2>4, <3>3, <3>4, <3>6, <3>9
      <4>2. Cardinality(to) = c + 1
        BY <3>2, <3>3, <3>9, <4>1, FS_AddElement
      <4> QED BY <3>9, <4>2
    <3> QED BY <3>7, <3>8, <3>9
  <2> QED BY <1>4, <1>5, <1>6, <2>1, <2>7, <2>8
<1>15. ASSUME NEW names, SendVote(names), ValidateVote(names), UNCHANGED votes PROVE VotingInv'
  <2>1. /\ sending' = sending \cup {[names |-> names, at |-> 0]} /\ panel' = Closed
    BY <1>15 DEF SendVote
  <2>2. \A r \in sending' : ValidateVote(r.names)
    <3>1. PICK vote : vote = [names |-> names, at |-> 0]
      OBVIOUS
    <3>2. vote.names = names
      BY <3>1
    <3> QED BY <1>4, <1>15, <2>1, <3>1, <3>2
  <2> QED BY <1>5, <1>6, <1>8, <1>10, <1>15, <2>1, <2>2
<1>16. CASE EnterVote
  <2>1. /\ UNCHANGED votes
        /\ panel \in [open : {TRUE}, kind : {"vote"}, ticks : SUBSET Options, hadVote : BOOLEAN]
        /\ Fits(panel.ticks)
        /\ \/ SendVote({})
           \/ poll.limit = 1 /\ \E o \in Options : SendVote({o})
           \/ poll.limit # 1 /\ SendVote(panel.ticks)
    BY <1>4, <1>16 DEF EnterVote, VoteKeys
  <2>2. PICK limit \in 0 .. 2 : limit = poll.limit
    BY <1>1
  <2>3. CASE SendVote({})
    <3>1. Cardinality({}) = 0 /\ 0 <= limit
      BY FS_EmptySet
    <3>2. ValidateVote({})
      BY <2>2, <3>1 DEF ValidateVote
    <3> QED BY <1>15, <2>1, <2>3, <3>2
  <2>4. CASE poll.limit = 1 /\ \E o \in Options : SendVote({o})
    <3>1. PICK o \in Options : SendVote({o})
      BY <2>4
    <3>2. Cardinality({o}) = 1
      BY FS_Singleton
    <3>3. ValidateVote({o})
      BY <2>4, <3>2 DEF ValidateVote
    <3> QED BY <1>15, <2>1, <3>1, <3>3
  <2>5. CASE poll.limit # 1 /\ SendVote(panel.ticks)
    <3>1. PICK ticks \in SUBSET Options : ticks = panel.ticks
      BY <2>1
    <3>2. ticks \cap Options = ticks /\ Fits(ticks)
      BY <2>1, <3>1
    <3>3. limit > 0 => limit > 1
      BY <2>2, <2>5
    <3>4. ValidateVote(ticks)
      BY <2>2, <3>2, <3>3 DEF ValidateVote, Fits
    <3> QED BY <1>15, <2>1, <2>5, <3>1, <3>4
  <2> QED BY <2>1, <2>3, <2>4, <2>5
<1>17. CASE HandleVotePoll
  <2>1. PICK r \in sending :
          /\ ValidateVote(r.names)
          /\ Store("me", r.names)
          /\ sending' = (sending \ {r}) \cup {[names |-> {}, at |-> Len(votes) + 1]}
          /\ UNCHANGED panel
    BY <1>17 DEF HandleVotePoll
  <2>2. \A i \in 1 .. Len(votes') : Fits(votes'[i].names)
    BY <1>1, <1>7, <2>1, ValidFits
  <2>3. ValidateVote({})
    <3>1. Cardinality({}) = 0 /\ poll.limit \in 0 .. 2
      BY <1>1, FS_EmptySet
    <3> QED BY <3>1 DEF ValidateVote
  <2>4. \A q \in sending' : ValidateVote(q.names)
    <3>1. PICK vote : vote = [names |-> {}, at |-> Len(votes) + 1]
      OBVIOUS
    <3>2. vote.names = {}
      BY <3>1
    <3> QED BY <1>4, <2>1, <2>3, <3>1, <3>2
  <2> QED BY <1>4, <1>5, <2>1, <2>2, <2>4
<1>18. CASE VoteFails \/ ApplyPollVoted
  <2>1. sending' \subseteq sending /\ UNCHANGED <<panel, votes>>
    BY <1>18 DEF VoteFails, ApplyPollVoted
  <2> QED BY <1>4, <1>5, <1>6, <2>1
<1>19. CASE ReceiveVote
  <2>1. PICK who \in Voters, names \in Ballots : Store(who, names)
    BY <1>19 DEF ReceiveVote
  <2>2. Fits(names)
    <3>1. PICK limit \in 0 .. 2 : limit = poll.limit
      BY <1>1
    <3>2. IsFiniteSet(names \cap Options) /\ Cardinality(names \cap Options) \in Nat
      BY <1>1, OptionsCounted
    <3>3. names \cap Options \in SUBSET (1 .. 2)
      <4>1. names \in SUBSET {1, 2} \/ names = {0}
        BY <2>1, PollAssumption
      <4>2. 0 \notin Options
        BY <1>1 DEF Options
      <4> QED BY <4>1, <4>2
    <3>4. Cardinality(names \cap Options) <= 2
      <4>1. PICK two \in Nat : two = 2
        OBVIOUS
      <4>2. IsFiniteSet(1 .. two) /\ Cardinality(1 .. two) = IF 1 > two THEN 0 ELSE two - 1 + 1
        BY FS_Interval
      <4>3. names \cap Options \in SUBSET (1 .. two) /\ Cardinality(1 .. two) = 2
        BY <3>3, <4>1, <4>2
      <4> QED BY <4>2, <4>3, FS_Subset
    <3>5. limit > 1 => limit = 2
      OBVIOUS
    <3> QED BY <3>1, <3>4, <3>5 DEF Fits
  <2>3. UNCHANGED <<panel, sending>>
    BY <1>19 DEF ReceiveVote, voting
  <2> QED BY <1>4, <1>5, <1>7, <2>1, <2>2, <2>3
<1>20. CASE HandleWSEvent \/ LoadMessages
  <2>1. UNCHANGED <<panel, sending, votes>>
    BY <1>20 DEF HandleWSEvent, LoadMessages, voting
  <2> QED BY <1>1, <2>1, VotingStays
<1> QED
  BY <1>11, <1>12, <1>13, <1>14, <1>16, <1>17, <1>18, <1>19, <1>20 DEF VoteNext, RowsNext

LEMMA CoverStep ==
    ASSUME RowsInv, CoverInv, MakingInv, VotingInv, PollsNext
    PROVE  RowsInv' /\ CoverInv'
<1>1. CASE \/ RunPollCommand \/ RunInlinePoll \/ InsertText \/ BackspaceKey \/ Step \/ Enter
           \/ TryToSend \/ EscapeForm \/ HandleSendPoll
           \/ OpenPollList \/ OpenVoteForm \/ ClosePanel \/ Toggle
  <2>1. UNCHANGED <<votes, sending, events, list, missed>>
    BY <1>1
    DEF RunPollCommand, RunInlinePoll, InsertText, BackspaceKey, Step, Enter, TryToSend, EscapeForm,
        HandleSendPoll, OpenPollList, OpenVoteForm, ClosePanel, Toggle, voting, shown
  <2> QED BY <2>1, RowsStay
<1>2. CASE ApplyPollSent
  <2>1. UNCHANGED <<votes, sending, events>> /\ (Show(PollRow) \/ UNCHANGED <<list, missed>>)
    BY <1>2 DEF ApplyPollSent, voting
  <2>2. PollRow \in 0 .. Len(votes)
    BY DEF PollRow, RowsInv
  <2> QED BY <2>1, <2>2, ShowCovers, RowsStay
<1>3. CASE PollArrives
  <2>1. poll = NoPoll /\ list' = <<PollRow>> /\ UNCHANGED <<votes, sending, events>>
    BY <1>3 DEF PollArrives, voting
  <2>2. votes' = <<>> /\ events' = <<>> /\ sending' = {}
    BY <2>1 DEF MakingInv
  <2>3. PICK rows : rows = <<PollRow>>
    OBVIOUS
  <2>4. rows \in Seq(Nat) /\ Len(rows) = 1 /\ DOMAIN rows = 1 .. 1 /\ rows[1] = 0
    BY <2>3 DEF PollRow
  <2>5. MaxRows \in Nat /\ 1 <= MaxRows
    BY PollAssumption
  <2>6. RowsOK(rows) /\ Range(rows) \subseteq {0}
    BY <2>4, <2>5 DEF RowsOK, Distinct, Range
  <2>7. Len(votes') = 0 /\ votes' \in Seq(VotesCast) /\ events' \in Seq(Nat) /\ Range(events') = {}
    BY <2>2 DEF Range
  <2>8. 0 \in 0 .. Len(votes') /\ 1 .. Len(votes') = {}
    BY <2>7
  <2>9. RowsInv'
    BY <2>1, <2>2, <2>3, <2>6, <2>7, <2>8 DEF RowsInv
  <2>10. CoverInv'
    BY <2>8 DEF CoverInv
  <2> QED BY <2>9, <2>10
<1>4. CASE EnterVote
  <2>1. PICK names : sending' = sending \cup {[names |-> names, at |-> 0]} /\ names \in SUBSET Nat
    <3>1. PICK names : SendVote(names) /\ (names = {} \/ names \in SUBSET Options)
      <4>1. panel.open /\ panel.kind = "vote" => panel.ticks \in SUBSET Options
        BY PanelIs
      <4>2. \A o \in Options : {o} \in SUBSET Options
        OBVIOUS
      <4> QED BY <1>4, <4>1, <4>2 DEF EnterVote, VoteKeys
    <3>2. Options \in SUBSET Nat
      BY DEF Options
    <3> QED BY <3>1, <3>2 DEF SendVote
  <2>2. UNCHANGED <<votes, events, list, missed>>
    BY <1>4 DEF EnterVote, shown
  <2>3. PICK n \in Nat : n = Len(votes)
    BY DEF RowsInv
  <2>4. [names |-> names, at |-> 0] \in [names : SUBSET Nat, at : 0 .. n]
    BY <2>1
  <2>5. RowsInv'
    BY <2>1, <2>2, <2>3, <2>4 DEF RowsInv
  <2>6. CoverInv'
    BY <2>1, <2>2 DEF CoverInv
  <2> QED BY <2>5, <2>6
<1>5. CASE HandleVotePoll
  <2>1. PICK r \in sending :
          /\ r.at = 0 /\ Store("me", r.names)
          /\ sending' = (sending \ {r}) \cup {[names |-> {}, at |-> Len(votes) + 1]}
          /\ UNCHANGED <<events, list, missed>>
    BY <1>5 DEF HandleVotePoll, shown
  <2>2. r.names \in SUBSET Nat
    BY DEF RowsInv
  <2>3. "me" \in Voters
    BY DEF Voters
  <2> QED BY <2>1, <2>2, <2>3, VoteStored
<1>6. CASE VoteFails
  <2>1. PICK r \in sending : sending' = sending \ {r} /\ missed' = (missed \/ r.at # 0)
    BY <1>6 DEF VoteFails
  <2>2. UNCHANGED <<votes, events, list>>
    BY <1>6 DEF VoteFails
  <2>3. RowsInv'
    BY <2>1, <2>2 DEF RowsInv
  <2>4. CoverInv'
    <3> SUFFICES ASSUME ~missed', ~CutOff(list'), NEW i \in 1 .. Len(votes')
                 PROVE  i \in Range(list') \/ i \in Range(events') \/ \E q \in sending' : q.at = i
      BY DEF CoverInv
    <3>1. ~missed /\ r.at = 0
      BY <2>1
    <3>2. i \in Range(list) \/ i \in Range(events) \/ \E q \in sending : q.at = i
      BY <2>2, <3>1 DEF CoverInv
    <3>3. i # 0
      BY <2>2 DEF RowsInv
    <3> QED BY <2>1, <2>2, <3>1, <3>2, <3>3
  <2> QED BY <2>3, <2>4
<1>7. CASE ApplyPollVoted
  <2>1. PICK r \in sending : sending' = sending \ {r} /\ Show(r.at) /\ UNCHANGED <<votes, events>>
    BY <1>7 DEF ApplyPollVoted
  <2>2. r.at \in 0 .. Len(votes) /\ sending' \subseteq sending /\ \A q \in sending \ sending' : q.at = r.at
    BY <2>1 DEF RowsInv
  <2> QED BY <2>1, <2>2, ShowCovers
<1>8. CASE ReceiveVote
  <2>1. PICK who \in Voters, names \in Ballots : Store(who, names)
    BY <1>8 DEF ReceiveVote
  <2>2. names \in SUBSET Nat
    BY <2>1, PollAssumption
  <2>3. UNCHANGED <<sending, list, missed>> /\ events' = Append(events, Len(votes) + 1)
    BY <1>8 DEF ReceiveVote, voting
  <2> QED BY <2>1, <2>2, <2>3, VoteStored
<1>9. CASE HandleWSEvent
  BY <1>9, EventCovers
<1>10. CASE LoadMessages
  BY <1>10, LoadCovers
<1> QED
  BY <1>1, <1>2, <1>3, <1>4, <1>5, <1>6, <1>7, <1>8, <1>9, <1>10
  DEF PollsNext, FormNext, VoteNext, RowsNext

PollsInv == RowsInv /\ CoverInv /\ MakingInv /\ VotingInv

LEMMA PollsStart ==
    ASSUME PollsInit
    PROVE  PollsInv
<1>1. /\ form = Closed /\ request = NoRequest /\ poll = NoPoll /\ panel = Closed /\ sending = {}
      /\ votes = <<>> /\ events = <<>> /\ list = <<>> /\ ~Closed.open
  BY DEF PollsInit, Closed
<1>2. Len(<<>>) = 0 /\ 1 .. Len(<<>>) = {} /\ Range(<<>>) = {} /\ <<>> \in Seq(Nat) /\ <<>> \in Seq(VotesCast)
  BY DEF Range
<1>3. MaxRows \in Nat
  BY PollAssumption
<1>4. RowsInv
  BY <1>1, <1>2, <1>3 DEF RowsInv, RowsOK, Distinct
<1>5. CoverInv
  BY <1>1, <1>2 DEF CoverInv
<1>6. MakingInv
  BY <1>1 DEF MakingInv, NoPoll
<1>7. VotingInv
  BY <1>1, <1>2 DEF VotingInv, VoteKeys
<1> QED BY <1>4, <1>5, <1>6, <1>7 DEF PollsInv

\* The invariant the three theorems rest on.
LEMMA PollsInvariant == PollsSpec => []PollsInv
<1>1. PollsInit => PollsInv
  BY PollsStart
<1>2. PollsInv /\ [PollsNext]_pollVars => PollsInv'
  <2> SUFFICES ASSUME PollsInv, [PollsNext]_pollVars PROVE PollsInv'
    OBVIOUS
  <2>1. CASE UNCHANGED pollVars
    <3>1. RowsInv' /\ CoverInv'
      BY <2>1, RowsStay DEF pollVars, PollsInv
    <3>2. MakingInv'
      BY <2>1 DEF pollVars, PollsInv, MakingInv
    <3>3. VotingInv'
      BY <2>1, VotingStays DEF pollVars, PollsInv
    <3> QED BY <3>1, <3>2, <3>3 DEF PollsInv
  <2>2. CASE PollsNext
    <3>1. RowsInv' /\ CoverInv'
      BY <2>2, CoverStep DEF PollsInv
    <3>2. CASE FormNext
      BY <3>1, <3>2, MakingStep, VotingForm DEF PollsInv
    <3>3. CASE VoteNext \/ RowsNext
      BY <3>1, <3>3, MakingStays, VotingStep DEF PollsInv
    <3> QED BY <2>2, <3>2, <3>3 DEF PollsNext
  <2> QED BY <2>1, <2>2
<1> QED BY <1>1, <1>2, PTL DEF PollsSpec

\* A poll and a vote that the TUI sends are within the backend's own rules: cleanPollDraft
\* and CleanPoll, the ticks of the panel and ValidateVote.
THEOREM WhatIsSentIsTaken == PollsSpec => []SentIsTaken
<1>1. PollsInv => SentIsTaken
  BY DEF PollsInv, MakingInv, VotingInv, SentIsTaken
<1> QED BY <1>1, PollsInvariant, PTL

\* The lines under a card of collectPollVotes, one after the other, say what its bars say.
THEOREM NotesSayWhatIsCounted == PollsSpec => []NotesAddUp
<1>1. PollsInv => NotesAddUp
  <2> SUFFICES ASSUME PollsInv, NEW v \in Voters
               PROVE  Noted(Within(list, {r \in Range(list) : IsVote(r) /\ votes[r].who = v}))
                        = CollectPollVotes(list)[v]
    BY DEF NotesAddUp
  <2>1. list \in Seq(Nat)
    BY DEF PollsInv, RowsInv, RowsOK
  <2> QED BY <2>1, NotesOfOne
<1> QED BY <1>1, PollsInvariant, PTL

\* When no row is missing, cut off or under way, the card counts the latest vote of everybody.
THEOREM CardsCountAll == PollsSpec => []CardCountsEveryone
<1>1. PollsInv => CardCountsEveryone
  <2> SUFFICES ASSUME PollsInv, PollRow \in Range(list), events = <<>>, \A r \in sending : r.at = 0,
                      ~missed, InTimeOrder(list), NEW v \in Voters
               PROVE  CollectPollVotes(list)[v] = LatestVote(v)
    BY DEF CardCountsEveryone
  <2>1. PICK n \in Nat, l \in Nat : n = Len(votes) /\ l = Len(list) /\ DOMAIN votes = 1 .. n
    BY DEF PollsInv, RowsInv, RowsOK
  <2>2. /\ \A j \in 1 .. l : list[j] \in Nat /\ list[j] \in 0 .. n
        /\ \A r \in Range(list) : \E j \in 1 .. l : list[j] = r
        /\ Ascending(list)
    BY <2>1, RangeOfRows DEF PollsInv, RowsInv, RowsOK
  <2>3. \A i \in 1 .. n : \E j \in 1 .. l : list[j] = i
    <3> TAKE i \in 1 .. n
    <3>1. Range(events) = {} /\ i # 0
      BY DEF Range
    <3>2. ~CutOff(list)
      BY <2>2 DEF CutOff
    <3>3. i \in Range(list)
      BY <2>1, <3>1, <3>2 DEF PollsInv, CoverInv
    <3> QED BY <2>2, <3>3
  <2> DEFINE earlier == {j \in 1 .. l : Counted(list[j], v)}
             cast == {i \in DOMAIN votes : votes[i].who = v /\ votes[i].names # Unknown}
  <2>4. CollectPollVotes(list)[v] = LastRead(list, l, v)
    BY <2>1, CollectIs
  <2>5. \A j \in earlier : j \in 1 .. l /\ list[j] \in cast
    <3> TAKE j \in earlier
    <3>1. list[j] \in 0 .. n /\ list[j] # 0
      BY <2>2 DEF Counted, IsVote, PollRow
    <3>2. list[j] \in 1 .. n
      BY <3>1
    <3> QED BY <2>1, <3>2 DEF Counted
  <2>6. \A i \in cast : i \in 1 .. n /\ \E j \in earlier : list[j] = i
    <3> TAKE i \in cast
    <3>1. i \in 1 .. n /\ i # 0
      BY <2>1
    <3>2. PICK j \in 1 .. l : list[j] = i
      BY <2>3, <3>1
    <3>3. Counted(list[j], v)
      BY <3>1, <3>2 DEF Counted, IsVote, PollRow
    <3> QED BY <3>1, <3>2, <3>3
  <2>7. CASE earlier = {}
    <3>1. cast = {}
      BY <2>6, <2>7
    <3>2. LastRead(list, l, v) = {}
      BY <2>7 DEF LastRead, LatestOf
    <3>3. LatestVote(v) = {}
      BY <3>1 DEF LatestVote
    <3> QED BY <2>4, <3>2, <3>3
  <2>8. CASE earlier # {}
    <3>1. PICK m \in earlier : \A k \in earlier : k <= m
      <4>1. earlier \in SUBSET (1 .. l)
        OBVIOUS
      <4> HIDE DEF earlier
      <4> QED BY <2>8, <4>1, LastPlace
    <3>2. \A j \in earlier : (\A k \in earlier : k <= j) => j = m
      <4> SUFFICES ASSUME NEW j \in earlier, \A k \in earlier : k <= j PROVE j = m
        OBVIOUS
      <4>1. j \in Nat /\ m \in Nat /\ j <= m /\ m <= j
        BY <3>1
      <4> QED BY <4>1
    <3>3. PICK top : top = list[m] /\ top \in cast /\ top \in Nat
      BY <2>1, <2>5, <3>1
    <3>4. \A i \in cast : i <= top
      <4> TAKE i \in cast
      <4>1. PICK j \in earlier : list[j] = i
        BY <2>6
      <4>2. j \in 1 .. l /\ m \in 1 .. l /\ j <= m
        BY <3>1
      <4>3. CASE j = m
        BY <3>3, <4>1, <4>3
      <4>4. CASE j < m
        <5>1. list[j] < list[m] /\ list[j] \in Nat
          BY <2>1, <2>2, <4>2, <4>4 DEF Ascending
        <5> QED BY <3>3, <4>1, <5>1
      <4> QED BY <4>2, <4>3, <4>4
    <3>5. \A i \in cast : (\A k \in cast : k <= i) => i = top
      <4> SUFFICES ASSUME NEW i \in cast, \A k \in cast : k <= i PROVE i = top
        OBVIOUS
      <4>1. i \in Nat /\ top \in Nat /\ i <= top /\ top <= i
        BY <2>6, <3>3, <3>4
      <4> QED BY <4>1
    <3>6. PICK E, C : E = earlier /\ C = cast
      OBVIOUS
    <3>7. LastRead(list, l, v) = LatestOf(list, E)
      BY <3>6 DEF LastRead
    <3>8. LatestVote(v) = IF C = {} THEN {} ELSE votes[CHOOSE i \in C : \A j \in C : j <= i].names
      BY <3>6 DEF LatestVote
    <3> HIDE DEF earlier, cast
    <3>9. (CHOOSE j \in E : \A k \in E : k <= j) = m
      BY <3>1, <3>2, <3>6
    <3>10. (CHOOSE i \in C : \A j \in C : j <= i) = top
      BY <3>3, <3>4, <3>5, <3>6
    <3>11. LatestOf(list, E) = votes[list[m]].names
      BY <2>8, <3>6, <3>9 DEF LatestOf
    <3>12. LatestVote(v) = votes[top].names
      BY <3>3, <3>6, <3>8, <3>10
    <3> QED BY <2>4, <3>3, <3>7, <3>11, <3>12
  <2> QED BY <2>7, <2>8
<1> QED BY <1>1, PollsInvariant, PTL

=============================================================================

---------------------------- MODULE TuiComposer ----------------------------
(***************************************************************************)
(* What the user does in the TUI to write to a chat: choosing a chat in    *)
(* the sidebar, drafts, the message box with its delayed send, quotes,     *)
(* edits, attachments, reactions and the permission of a chat              *)
(* (internal/tui input.go, input_modes.go, composer.go, commands.go,       *)
(* sidebar.go and the composer part of update.go).                         *)
(*                                                                         *)
(* A text is the set of the chats it was typed in: that is all the         *)
(* properties ask of it.  Enter does not send: it arms a timer of 140 ms,  *)
(* so that the lines of a paste stay one message.                          *)
(***************************************************************************)
EXTENDS TuiScreen, Naturals, FiniteSets

CONSTANTS
  Chats,       \* the chats of the sidebar
  MaxAtHand    \* bound: quotes, edits, attachments, picks, ... at hand together

ASSUME ComposerAssumption ==
  NoChat \notin Chats /\ IsFiniteSet(Chats) /\ MaxAtHand \in Nat

(* A request: what it does, the chat it is sent to, the text it carries,   *)
(* and the chat of the message or the file it is about.                    *)
NoPost == [kind |-> "none"]

VARIABLES
  over,                          \* what has the keys instead of the mode
  allowed,                       \* the chats that may be written to
  comp,                          \* composer: input, inputBuf, replyTo, editingMsgID, attachment
  drafts,                        \* chat -> text kept while another chat is open
  armed, timers,                 \* pendingSendArmed, the composerSendMsg under way
  pick, react,                   \* reply/edit pick mode, reactPick*
  clip,                          \* the chat a clipboard read was started in
  post,                          \* the request under way
  pasting, unsent                \* a paste is coming in; chats with text nobody sent or deleted

place   == <<openChat, over>>
sends == <<armed, timers>>
picking == <<pick, react>>
ghosts  == <<pasting, unsent>>
composerVars == <<place, allowed, comp, drafts, sends, picking, clip, post, ghosts>>

-----------------------------------------------------------------------------
(* Helpers                                                                 *)

Locked == active # NoChat /\ active \notin allowed
Text   == comp.input \cup comp.buf

(* Mutant of SaveDraft: keys that inputBuf still holds are not saved.      *)
SaveFlushedText == IF active = NoChat THEN drafts ELSE [drafts EXCEPT ![active] = comp.input]

SaveDraft == IF active = NoChat THEN drafts ELSE [drafts EXCEPT ![active] = Text]
RestoreDraft(c, kept) == [comp EXCEPT !.input = kept[c], !.buf = {}]
MergeBuf(cm) == [cm EXCEPT !.input = @ \cup cm.buf, !.buf = {}]
ClearText(cm) == [cm EXCEPT !.input = {}, !.buf = {}]

(* clearChatComposer: what is being edited is not forgotten.               *)
ClearComposer(cm) == [ClearText(cm) EXCEPT !.reply = NoChat, !.file = NoChat]
LeaveReplyPick == pick' = IF pick = "reply" THEN "none" ELSE pick
LeaveEmoji     == over' = IF over = "emoji" THEN "none" ELSE over
LeaveCommandBox       == over' = IF over = "box" THEN "none" ELSE over

AtHand == Cardinality({h \in {"reply", "edit", "file", "react", "clip", "pick"} :
            \/ h = "reply" /\ comp.reply # NoChat
            \/ h = "edit"  /\ comp.edit # NoChat
            \/ h = "file"  /\ comp.file # NoChat
            \/ h = "react" /\ react # NoChat
            \/ h = "clip"  /\ clip # NoChat
            \/ h = "pick"  /\ pick # "none"})
Room == AtHand < MaxAtHand

NoKeysFromPaste == ~pasting
InChat    == mode = "chat" /\ active # NoChat /\ ~pasting
BoxHasKeys == InChat /\ over = "none" /\ pick = "none"
TypesInBox    == BoxHasKeys /\ ~focused /\ ~Locked

Post(kind, text, of) ==
  post = NoPost /\ post' = [kind |-> kind, chat |-> active, text |-> text, of |-> of]

-----------------------------------------------------------------------------
(* Choosing a chat                                                         *)

(* openSelectedChat, for the highlighted chat; the list may be empty.      *)
OpenSelectedChat(c) ==
  LET kept == IF c = active THEN drafts ELSE SaveDraft
      cm == IF c = active THEN comp ELSE RestoreDraft(c, kept)
  IN  IF c = NoChat
      THEN UNCHANGED <<active, mode, over, comp, drafts, pick, unsent>>
      ELSE /\ active' = c /\ mode' = "chat" /\ drafts' = kept
           /\ IF c \in allowed
              THEN comp' = cm /\ UNCHANGED <<over, pick, unsent>>
              ELSE comp' = ClearComposer(cm) /\ LeaveEmoji /\ LeaveReplyPick
                   /\ unsent' = unsent \ {c}

(* Enter on a row of the sidebar, in the navigation and search modes.      *)
SideOpen ==
  /\ mode \in {"nav", "search"} /\ over = "none" /\ NoKeysFromPaste
  /\ focused' = FALSE
  /\ \E c \in Chats \cup {NoChat} : OpenSelectedChat(c)
  /\ UNCHANGED <<allowed, sends, react, clip, post, pasting>>

(* Mutant of JumpToHit: it opens the chat and leaves the box as it is.     *)
JumpWithoutDrafts ==
  /\ mode = "msgsearch" /\ over = "none" /\ NoKeysFromPaste
  /\ \E c \in Chats : active' = c
  /\ mode' = "chat" /\ focused' = FALSE
  /\ UNCHANGED <<over, allowed, comp, drafts, sends, picking, clip, post, ghosts>>

(* Enter on a search hit jumps to its chat.                                *)
JumpToHit ==
  /\ mode = "msgsearch" /\ over = "none" /\ NoKeysFromPaste
  /\ \E c \in Chats :
       LET kept == IF c = active THEN drafts ELSE SaveDraft
       IN  /\ drafts' = kept /\ active' = c
           /\ comp' = IF c = active THEN comp ELSE RestoreDraft(c, kept)
  /\ mode' = "chat" /\ focused' = FALSE
  /\ UNCHANGED <<over, allowed, sends, picking, clip, post, ghosts>>

(* Alt+S and "/" in navigation; Ctrl+F.                                    *)
StartSearch ==
  /\ NoKeysFromPaste
  /\ \/ mode # "search" /\ over # "files"
        /\ mode' = "search" /\ focused' = TRUE /\ LeaveCommandBox
     \/ mode # "msgsearch" /\ over = "none"
        /\ mode' = "msgsearch" /\ UNCHANGED <<focused, over>>
  /\ UNCHANGED <<active, allowed, comp, drafts, sends, picking, clip, post, ghosts>>

LeaveSearch ==
  /\ mode \in {"search", "msgsearch"} /\ over = "none" /\ NoKeysFromPaste
  /\ mode' = IF active # NoChat THEN "chat" ELSE "nav"
  /\ focused' = IF mode = "search" THEN FALSE ELSE focused
  /\ UNCHANGED <<active, over, allowed, comp, drafts, sends, picking, clip, post, ghosts>>

(* Alt+C: back to the list of chats, with the open chat still open.        *)
ShowChats ==
  /\ over # "files" /\ NoKeysFromPaste
  /\ LeaveReplyPick
  /\ focused' = TRUE /\ LeaveCommandBox
  /\ mode' = IF mode \in {"chat", "search"} THEN "nav" ELSE mode
  /\ UNCHANGED <<active, allowed, comp, drafts, sends, react, clip, post, ghosts>>

-----------------------------------------------------------------------------
(* The message box                                                         *)

(* A key that types: an armed send becomes a line break.                   *)
TypeText ==
  /\ mode = "chat" /\ over = "none" /\ pick = "none" /\ ~focused /\ ~Locked /\ active # NoChat
  /\ LET cm == IF armed THEN MergeBuf(comp) ELSE comp
     IN  comp' = [cm EXCEPT !.buf = @ \cup {active}]
  /\ armed' = FALSE /\ unsent' = unsent \cup {active}
  /\ pasting' \in {pasting, TRUE}
  /\ UNCHANGED <<place, allowed, drafts, timers, picking, clip, post>>

PasteEnds ==
  /\ pasting /\ pasting' = FALSE
  /\ UNCHANGED <<place, allowed, comp, drafts, sends, picking, clip, post, unsent>>

FlushInput ==
  /\ comp.buf # {} /\ comp' = MergeBuf(comp)
  /\ UNCHANGED <<place, allowed, drafts, sends, picking, clip, post, ghosts>>

(* Enter in the message box: deferComposerSend starts a timer of its own,  *)
(* and an older one is no longer the one that counts (pendingSendSeq).     *)
DeferComposerSend ==
  /\ mode = "chat" /\ over = "none" /\ pick = "none" /\ ~focused /\ ~Locked
  /\ comp' = MergeBuf(comp)
  /\ IF Text = {} \/ active = NoChat
     THEN UNCHANGED sends
     ELSE /\ armed' = TRUE
          /\ timers' = {"current"} \cup (IF timers = {} THEN {} ELSE {"stale"})
  /\ UNCHANGED <<place, allowed, drafts, picking, clip, post, ghosts>>

(* Ctrl+J is a line break, and calls an armed send off.                    *)
LineBreak ==
  /\ TypesInBox /\ armed
  /\ armed' = FALSE /\ comp' = MergeBuf(comp)
  /\ UNCHANGED <<place, allowed, drafts, timers, picking, clip, post, ghosts>>

(* Backspace may leave some text or none.                                  *)
Backspace ==
  /\ TypesInBox /\ Text # {}
  /\ armed' = FALSE
  /\ \/ comp' = MergeBuf(comp) /\ UNCHANGED unsent
     \/ comp' = ClearText(comp) /\ unsent' = unsent \ {active}
  /\ UNCHANGED <<place, allowed, drafts, timers, picking, clip, post, pasting>>

(* Tab moves between the message box and the sidebar.                      *)
TabFocus ==
  /\ BoxHasKeys
  /\ armed' = FALSE /\ focused' = ~focused
  /\ comp' = IF focused \/ Locked THEN comp ELSE MergeBuf(comp)
  /\ UNCHANGED <<active, mode, over, allowed, drafts, timers, picking, clip, post, ghosts>>

(* Up, Down and Enter with the sidebar focused; Alt+Up and Alt+Down.       *)
StepToChat ==
  /\ BoxHasKeys
  /\ armed' = FALSE
  /\ \/ focused /\ focused' \in BOOLEAN
     \/ ~focused /\ focused' = FALSE
  /\ \E c \in Chats : OpenSelectedChat(c)
  /\ UNCHANGED <<allowed, timers, react, clip, post, pasting>>

(* Esc undoes one thing at a time, and leaves the chat at last.            *)
EscapeChat ==
  /\ BoxHasKeys
  /\ armed' = FALSE
  /\ CASE comp.edit # NoChat ->
            /\ comp' = [ClearText(comp) EXCEPT !.edit = NoChat]
            /\ unsent' = unsent \ {active}
            /\ UNCHANGED <<active, mode, focused, drafts>>
       [] comp.edit = NoChat /\ comp.file # NoChat ->
            /\ comp' = [comp EXCEPT !.file = NoChat]
            /\ UNCHANGED <<active, mode, focused, drafts, unsent>>
       [] comp.edit = NoChat /\ comp.file = NoChat /\ focused ->
            /\ focused' = FALSE
            /\ UNCHANGED <<active, mode, comp, drafts, unsent>>
       [] comp.edit = NoChat /\ comp.file = NoChat /\ ~focused /\ comp.reply # NoChat ->
            /\ comp' = [comp EXCEPT !.reply = NoChat]
            /\ UNCHANGED <<active, mode, focused, drafts, unsent>>
       [] OTHER ->
          \/ /\ comp.input # {}   \* a text that begins with "@" is dropped
             /\ comp' = [comp EXCEPT !.input = {}]
             /\ unsent' = unsent \ (comp.input \ comp.buf)
             /\ UNCHANGED <<active, mode, focused, drafts>>
          \/ /\ drafts' = SaveDraft /\ active' = NoChat /\ mode' = "nav"
             /\ UNCHANGED <<focused, comp, unsent>>
  /\ UNCHANGED <<over, allowed, timers, picking, clip, post, pasting>>

-----------------------------------------------------------------------------
(* Sending                                                                 *)

(* The commands of a chat: /blacklist, /whitelist and a file by its path.  *)
(* Typed in the message box, a command is no text to keep.                 *)
Consumed(cm) == unsent' = IF cm.input = comp.input THEN unsent ELSE unsent \ {active}

Blacklist(cm) ==
  /\ allowed' = allowed \ {active}
  /\ comp' = ClearComposer(cm) /\ LeaveReplyPick /\ unsent' = unsent \ {active}
  /\ UNCHANGED post

Whitelist(cm) ==
  /\ allowed' = allowed \cup {active} /\ comp' = cm /\ Consumed(cm)
  /\ UNCHANGED <<pick, post>>

SendByPath(cm) ==
  /\ active \in allowed
  /\ Post("file", {}, active)
  /\ comp' = [cm EXCEPT !.reply = NoChat] /\ Consumed(cm)
  /\ UNCHANGED <<allowed, pick>>

(* composerSendMsg: the text that is there when the timer fires goes to    *)
(* the chat that is open then.                                             *)
ComposerSend ==
  LET txt == comp.input
      cm  == [comp EXCEPT !.input = {}]
  IN  CASE comp.edit # NoChat ->
             /\ comp' = [cm EXCEPT !.edit = NoChat]
             /\ unsent' = unsent \ {active}
             /\ IF txt = {} THEN UNCHANGED post ELSE Post("edit", txt, comp.edit)
             /\ UNCHANGED <<allowed, pick>>
        [] comp.edit = NoChat /\ comp.file # NoChat ->
             /\ comp' = [cm EXCEPT !.file = NoChat, !.reply = NoChat]
             /\ unsent' = unsent \ {active}
             /\ Post("file", txt, comp.file)
             /\ UNCHANGED <<allowed, pick>>
        [] comp.edit = NoChat /\ comp.file = NoChat /\ txt # {} ->
             \/ Blacklist(cm)
             \/ Whitelist(cm)
             \/ SendByPath(cm)
             \/ /\ comp' = [cm EXCEPT !.reply = NoChat]
                /\ unsent' = unsent \ {active}
                /\ Post("text", txt, IF comp.reply = NoChat THEN active ELSE comp.reply)
                /\ UNCHANGED <<allowed, pick>>
        [] OTHER -> UNCHANGED <<comp, allowed, post, pick, unsent>>

(* Mutants of TimerFires: any timer of an armed send is taken for the one  *)
(* that counts; the permission was looked at when Enter was pressed.       *)
AnyTimerFires ==
  /\ \E t \in timers :
       /\ t = "current" => ~pasting
       /\ timers' = timers \ {t}
       /\ IF ~armed
          THEN UNCHANGED <<armed, comp, allowed, post, pick, unsent>>
          ELSE armed' = FALSE /\ ~focused /\ ~Locked /\ active # NoChat /\ ComposerSend
  /\ UNCHANGED <<place, drafts, react, clip, pasting>>

TimerTrustsEnter ==
  /\ \E t \in timers :
       /\ t = "current" /\ ~pasting /\ timers' = timers \ {t}
       /\ armed /\ armed' = FALSE /\ active # NoChat /\ ComposerSend
  /\ UNCHANGED <<place, drafts, react, clip, pasting>>

(* A paste comes faster than the timer of an Enter that belongs to it.     *)
TimerFires ==
  /\ \E t \in timers :
       /\ t = "current" => ~pasting
       /\ timers' = timers \ {t}
       /\ IF ~armed \/ t # "current"
          THEN UNCHANGED <<armed, comp, allowed, post, pick, unsent>>
          ELSE /\ armed' = FALSE
               /\ IF focused \/ Locked \/ active = NoChat
                  THEN UNCHANGED <<comp, allowed, post, pick, unsent>>
                  ELSE ComposerSend
  /\ UNCHANGED <<place, drafts, react, clip, pasting>>

(* The answer of a request; the text of a failed send is given back.       *)
PostEnds ==
  /\ post # NoPost /\ post' = NoPost
  /\ \/ UNCHANGED <<comp, drafts, unsent>>
     \/ /\ post.kind = "text" /\ post.chat = active
        /\ comp' = IF Text = {} THEN [comp EXCEPT !.input = post.text] ELSE comp
        /\ unsent' = IF Text = {} THEN unsent \cup {post.chat} ELSE unsent
        /\ UNCHANGED drafts
     \/ /\ post.kind = "text" /\ post.chat # active
        /\ drafts' = [drafts EXCEPT ![post.chat] = IF @ = {} THEN post.text ELSE @]
        /\ unsent' = unsent \cup {post.chat}
        /\ UNCHANGED comp
  /\ UNCHANGED <<place, allowed, sends, picking, clip, pasting>>

-----------------------------------------------------------------------------
(* Picking a message: quote, edit, react, delete                           *)

(* Alt+R and Alt+A.                                                        *)
StartPick ==
  /\ InChat /\ over = "none" /\ ~Locked
  /\ \E kind \in {"reply", "edit"} :
       \/ pick = kind /\ pick' = "none"
       \/ pick # kind /\ (Room \/ pick # "none") /\ pick' = kind
  /\ UNCHANGED <<place, allowed, comp, drafts, sends, react, clip, post, ghosts>>

PickKeys == InChat /\ over = "none" /\ pick # "none"

(* Esc, Tab, or a key when there is nothing left to pick.  An Enter leaves *)
(* an armed send armed.                                                    *)
PickEnds ==
  /\ PickKeys
  /\ pick' = "none" /\ armed' \in {armed, FALSE}
  /\ UNCHANGED <<place, allowed, comp, drafts, timers, react, clip, post, ghosts>>

(* Enter (or r, or a): quote the message, or put its text in the box.      *)
PickTakes ==
  /\ PickKeys
  /\ armed' \in {armed, FALSE} /\ pick' = "none"
  /\ \/ /\ pick = "reply"
        /\ comp' = [comp EXCEPT !.reply = active]
        /\ UNCHANGED unsent
     \/ /\ pick = "edit"
        /\ comp' = [comp EXCEPT !.edit = active, !.input = {active}, !.buf = {}]
        /\ unsent' = unsent \ {active}
  /\ UNCHANGED <<place, allowed, drafts, timers, react, clip, post, pasting>>

(* A double click quotes too, in a chat that is locked as well.            *)
QuoteByMouse ==
  /\ InChat /\ (Room \/ comp.reply # NoChat)
  /\ comp' = [comp EXCEPT !.reply = active]
  /\ UNCHANGED <<place, allowed, drafts, sends, picking, clip, post, ghosts>>

(* d deletes an own message at once.                                       *)
PickDeletes ==
  /\ PickKeys /\ pick = "reply"
  /\ Post("delete", {}, active)
  /\ pick' = "none" /\ armed' = FALSE
  /\ UNCHANGED <<place, allowed, comp, drafts, timers, react, clip, ghosts>>

(* e opens the emoji list to react; Alt+E opens it to insert one.          *)
OpenEmojiPicker ==
  /\ InChat /\ over = "none"
  /\ \/ pick = "reply" /\ react' = active /\ pick' = "none" /\ armed' = FALSE
     \/ ~Locked /\ UNCHANGED <<picking, armed>>
  /\ over' = "emoji" /\ focused' = FALSE /\ comp' = MergeBuf(comp)
  /\ UNCHANGED <<active, mode, allowed, drafts, timers, clip, post, ghosts>>

ChooseEmoji ==
  /\ over = "emoji" /\ over' = "none" /\ NoKeysFromPaste
  /\ IF react # NoChat
     THEN /\ post = NoPost
          /\ post' = [kind |-> "react", chat |-> react, text |-> {}, of |-> react]
          /\ react' = NoChat /\ UNCHANGED <<comp, unsent>>
     ELSE /\ comp' = [comp EXCEPT !.input = @ \cup {active}]
          /\ unsent' = unsent \cup {active} /\ UNCHANGED <<react, post>>
  /\ UNCHANGED <<active, mode, focused, allowed, drafts, sends, pick, clip, pasting>>

CloseEmojiPicker ==
  /\ over = "emoji" /\ over' = "none" /\ react' = NoChat
  /\ UNCHANGED <<active, mode, focused, allowed, comp, drafts, sends, pick, clip, post, ghosts>>

-----------------------------------------------------------------------------
(* Attachments                                                             *)

(* Alt+F opens the file browser.                                           *)
OpenFileBrowser ==
  /\ BoxHasKeys /\ ~Locked
  /\ over' = "files" /\ comp' = MergeBuf(comp) /\ armed' = FALSE
  /\ UNCHANGED <<active, mode, focused, allowed, drafts, timers, picking, clip, post, ghosts>>

ChooseFile ==
  /\ over = "files" /\ over' = "none" /\ (Room \/ comp.file # NoChat \/ comp.reply # NoChat)
  /\ comp' = [ClearText(comp) EXCEPT !.reply = NoChat, !.file = active]
  /\ focused' = FALSE /\ unsent' = unsent \ {active}
  /\ UNCHANGED <<active, mode, allowed, drafts, sends, picking, clip, post, pasting>>

CloseFileBrowser ==
  /\ over = "files" /\ over' = "none"
  /\ UNCHANGED <<active, mode, focused, allowed, comp, drafts, sends, picking, clip, post, ghosts>>

(* Alt+V reads the clipboard in a process of its own; the file it finds is *)
(* attached to what is open when the answer comes.                         *)
PasteFromClipboard ==
  /\ InChat /\ over \in {"none", "emoji"} /\ clip = NoChat /\ Room /\ clip' = active
  /\ UNCHANGED <<place, allowed, comp, drafts, sends, picking, post, ghosts>>

ClipboardRead ==
  /\ clip # NoChat /\ clip' = NoChat
  /\ \/ UNCHANGED <<comp, focused, unsent>>
     \/ /\ comp' = [ClearText(comp) EXCEPT !.file = clip]
        /\ focused' = FALSE /\ unsent' = unsent \ Text
  /\ UNCHANGED <<active, mode, over, allowed, drafts, sends, picking, post, pasting>>

-----------------------------------------------------------------------------
(* Permissions and the command box                                         *)

(* Alt+B and Alt+W, about any chat of the sidebar.                         *)
ToggleWhitelistForSelection ==
  /\ over \in {"none", "emoji"} /\ NoKeysFromPaste
  /\ \E target \in Chats :
       IF target \in allowed
       THEN /\ allowed' = allowed \ {target}
            /\ IF target = active
               THEN comp' = ClearComposer(comp) /\ LeaveEmoji /\ LeaveReplyPick
                    /\ unsent' = unsent \ {active}
               ELSE UNCHANGED <<comp, over, pick, unsent>>
       ELSE allowed' = allowed \cup {target} /\ UNCHANGED <<comp, over, pick, unsent>>
  /\ UNCHANGED <<active, mode, focused, drafts, sends, react, clip, post, pasting>>

(* Ctrl+K.                                                                 *)
OpenCommandBox ==
  /\ over = "none" /\ NoKeysFromPaste
  /\ over' = "box" /\ focused' = FALSE
  /\ mode' = IF mode = "search" THEN "nav" ELSE mode
  /\ UNCHANGED <<active, allowed, comp, drafts, sends, picking, clip, post, ghosts>>

WhitelistAll(yes) ==
  /\ allowed' = IF yes THEN Chats ELSE {}
  /\ IF yes \/ active = NoChat
     THEN UNCHANGED <<comp, pick, unsent>>
     ELSE comp' = ClearComposer(comp) /\ LeaveReplyPick /\ unsent' = unsent \ {active}
  /\ UNCHANGED post

RunCommand ==
  /\ over = "box" /\ over' = "none"
  /\ \/ active # NoChat /\ (Whitelist(comp) \/ Blacklist(comp) \/ SendByPath(comp))
     \/ \E yes \in BOOLEAN : WhitelistAll(yes)
     \/ UNCHANGED <<allowed, comp, pick, unsent, post>>
  /\ UNCHANGED <<active, mode, focused, drafts, sends, react, clip, pasting>>

(* An answer of the backend replaces the permissions.                      *)
WhitelistLoaded ==
  /\ NoKeysFromPaste
  /\ allowed' \in SUBSET Chats
  /\ UNCHANGED <<place, comp, drafts, sends, picking, clip, post, ghosts>>

-----------------------------------------------------------------------------
ComposerInit ==
  /\ active = NoChat /\ mode = "nav" /\ focused = FALSE /\ over = "none"
  /\ allowed = Chats
  /\ comp = [input |-> {}, buf |-> {}, reply |-> NoChat, edit |-> NoChat, file |-> NoChat]
  /\ drafts = [c \in Chats |-> {}]
  /\ armed = FALSE /\ timers = {}
  /\ pick = "none" /\ react = NoChat /\ clip = NoChat
  /\ post = NoPost /\ pasting = FALSE /\ unsent = {}

ListNext == SideOpen \/ JumpToHit \/ StartSearch \/ LeaveSearch \/ ShowChats
BoxNext     == TypeText \/ PasteEnds \/ FlushInput \/ DeferComposerSend \/ LineBreak \/ Backspace
               \/ TabFocus \/ StepToChat \/ EscapeChat \/ TimerFires
PickNext    == StartPick \/ PickEnds \/ PickTakes \/ QuoteByMouse \/ PickDeletes
               \/ OpenEmojiPicker \/ ChooseEmoji \/ CloseEmojiPicker
FileNext    == OpenFileBrowser \/ ChooseFile \/ CloseFileBrowser \/ PasteFromClipboard \/ ClipboardRead
OtherNext   == ToggleWhitelistForSelection \/ OpenCommandBox \/ RunCommand \/ WhitelistLoaded

(* The answer to anything but a text changes nothing here: it may as well  *)
(* be the next step.                                                       *)
ComposerNext ==
  \/ PostEnds
  \/ post.kind \in {"none", "text"} /\ (ListNext \/ BoxNext \/ PickNext \/ FileNext \/ OtherNext)

ComposerSpec == ComposerInit /\ [][ComposerNext]_composerVars

-----------------------------------------------------------------------------
ComposerTypeOK ==
  /\ active \in Chats \cup {NoChat}
  /\ mode \in {"nav", "search", "msgsearch", "chat"}
  /\ mode = "chat" => active # NoChat
  /\ over \in {"none", "box", "emoji", "files"}
  /\ focused \in BOOLEAN /\ armed \in BOOLEAN /\ pasting \in BOOLEAN
  /\ allowed \subseteq Chats /\ unsent \subseteq Chats
  /\ comp \in [input : SUBSET Chats, buf : SUBSET Chats, reply : Chats \cup {NoChat},
               edit : Chats \cup {NoChat}, file : Chats \cup {NoChat}]
  /\ drafts \in [Chats -> SUBSET Chats] /\ timers \subseteq {"current", "stale"}
  /\ pick \in {"none", "reply", "edit"}
  /\ {react, clip} \subseteq Chats \cup {NoChat}
  /\ post = NoPost \/ post \in [kind : {"text", "edit", "file", "delete", "react"}, chat : Chats, text : SUBSET Chats, of : Chats]

(* No switch of chats carries text along: what goes out to a chat, as a    *)
(* message, a caption or an edit, was typed in that chat.                  *)
TextStaysInItsChat == post # NoPost => post.text \subseteq {post.chat}

(* Text that was neither sent nor given up by the user is still there: in  *)
(* the message box of the open chat, or as the draft of another one.       *)
DraftsKept ==
  \A c \in unsent : IF c = active THEN c \in Text ELSE c \in drafts[c]

(* A chat that may not be written to gets no text, file or edit, however   *)
(* the permission changed between the Enter and the send.                  *)
LockedChatGetsNothing ==
  [][post = NoPost /\ post' # NoPost /\ post'.kind \in {"text", "file", "edit"}
     => post'.chat \in allowed]_composerVars

(* The lines of a paste go out together: nothing is sent while it comes in.*)
PasteIsOneMessage == [][pasting /\ post = NoPost => post' = NoPost]_composerVars

(* Not kept by the code (README, "Disagreements"):                       *)
(* A quote, an edited message and an attachment belong to the chat they    *)
(* are sent to.  The code keeps all three when another chat is opened.     *)
GoesWhereItWasMade == post # NoPost => post.of = post.chat
=============================================================================

----------------------------- MODULE TuiSidebar -----------------------------
(***************************************************************************)
(* The list at the left of the TUI (internal/tui sidebar.go, archive.go):  *)
(* chats or people, narrowed by a search, with a highlight that is an      *)
(* index and a window of rows that is kept around it.  Answers re-sort the *)
(* chats under the highlight.  The list of people is cached until          *)
(* something it is made of changes.                                        *)
(*                                                                         *)
(* No two chats have the same timestamp.                                   *)
(* Left out: the demo, what an opened chat does (TuiMessages, TuiComposer),*)
(* and that a rename changes what a search finds.                          *)
(***************************************************************************)
EXTENDS TuiScreen, Naturals, Sequences, FiniteSets, SequencesExt, FiniteSetsExt, Lists

CONSTANTS
  ChatIDs, People,    \* a person need not have a chat
  InOrder,            \* chats and people, as their names sort
  Found,              \* what each search leaves: a set of sets of numbers
  Heights,            \* rows of the window, footer included
  MaxNews             \* bound: answers and sends that change a list

Everything == ChatIDs \cup People

ASSUME SidebarAssumption ==
  /\ ChatIDs # {} /\ NoChat \notin Everything
  /\ InOrder \in Seq(Everything) /\ IsInjective(InOrder) /\ Range(InOrder) = Everything
  /\ Found \subseteq SUBSET Everything /\ Heights \subseteq Nat \ {0}
  /\ MaxNews \in Nat

VARIABLES
  recent,       \* the chats by ConversationTimestamp
  pinned, archived,
  stored, known, showAll,   \* people: saved on the phone; renamed or whitelisted; the setting
  cache,        \* sidebarCache: [valid, list]
  tab, archivedView,
  search,       \* what the search leaves; Everything when there is none
  sel, sideScroll, height,
  settled,      \* no list has changed since ensureSideVisible ran
  news          \* how many so far (bound)

sidebarVars == <<openChat, recent, pinned, archived, stored, known, showAll, cache, tab, archivedView,
                 search, sel, sideScroll, height, settled, news>>
chats  == <<recent, pinned, archived>>
people == <<stored, known, showAll>>

Greater(a, b) == IF a >= b THEN a ELSE b
Smaller(a, b) == IF a <= b THEN a ELSE b

-----------------------------------------------------------------------------
(* The lists                                                               *)

(* People who are saved on the phone or known to us, or all of them; ours  *)
(* first, as the name we gave them may sort.                               *)
ContactList == Within(InOrder, known) \o Within(InOrder, {p \in People \ known : showAll \/ p \in stored})

(* x.chats: the pinned ones first.                                         *)
Sorted == Within(recent, pinned) \o Within(recent, ChatIDs \ pinned)

SidebarItems ==
  IF tab = "contacts" THEN IF cache.valid THEN cache.list ELSE ContactList
  ELSE Within(Sorted, IF archivedView THEN archived ELSE ChatIDs \ archived)

Filtered == IF search = Everything THEN SidebarItems ELSE Within(SidebarItems, search)
Highlighted == IF sel < Len(Filtered) THEN Filtered[sel + 1] ELSE NoChat
SelectedChatID == IF tab = "contacts" THEN NoChat ELSE Highlighted

(* Whoever reads the people fills the cache.                               *)
Read == cache' = IF tab' = "contacts" /\ ~cache.valid THEN [valid |-> TRUE, list |-> ContactList] ELSE cache
InvalidateContacts == cache' = [valid |-> FALSE, list |-> <<>>]

(* A footer once there is something archived.                              *)
Footer == IF tab = "chats" /\ (archivedView \/ archived # {}) THEN 1 ELSE 0
SideViewRows == Greater(1, height - Footer)

(* ensureSideVisible, of the lists after the step.  Mutant: the window     *)
(* follows the highlight upwards only.                                     *)
EnsureVisibleAbove(at, scroll) ==
  \E n \in {Len(Filtered')}, rows \in {SideViewRows'} :
    LET last == IF n > rows THEN n - rows ELSE 0
    IN  /\ settled' = TRUE
        /\ sel' = IF n = 0 THEN 0 ELSE Smaller(at, n - 1)
        /\ sideScroll' = IF n = 0 THEN 0 ELSE Smaller(Smaller(scroll, last), sel')

EnsureVisible(at, scroll) ==
  \E n \in {Len(Filtered')}, rows \in {SideViewRows'} :
    LET last == IF n > rows THEN n - rows ELSE 0
        start == Smaller(Smaller(scroll, last), sel')
    IN  /\ settled' = TRUE
        /\ sel' = IF n = 0 THEN 0 ELSE Smaller(at, n - 1)
        /\ sideScroll' = IF n = 0 THEN 0 ELSE IF sel' >= start + rows THEN sel' + 1 - rows ELSE start

(* resortChats: where the highlight is in the new list, after the chats    *)
(* have moved.  Mutant: it stays at its index.                             *)
ResortedInPlace(list) == sel

Resorted(list) ==
  LET now == SelectInSeq(list, LAMBDA c : c = SelectedChatID)
  IN  IF now = 0 THEN sel ELSE now - 1

Newest(c) == <<c>> \o Within(recent, ChatIDs \ {c})

-----------------------------------------------------------------------------
(* Answers and events                                                      *)

News == news < MaxNews /\ news' = news + 1

(* chatsMsg: the first list, or one in which a chat has a new message, is  *)
(* pinned or archived, or is neither any more.                             *)
ChatsMsg ==
  /\ \/ recent = <<>> /\ UNCHANGED news /\ recent' = Within(InOrder, ChatIDs) /\ UNCHANGED <<pinned, archived>>
     \/ /\ recent # <<>> /\ News
        /\ \E c \in ChatIDs :
             \/ recent' = Newest(c) /\ UNCHANGED <<pinned, archived>>
             \/ pinned' = SymDiff(pinned, {c}) /\ archived' = archived \ {c} /\ UNCHANGED recent
             \/ archived' = SymDiff(archived, {c}) /\ pinned' = pinned \ {c} /\ UNCHANGED recent
  /\ UNCHANGED <<people, tab, archivedView, mode, focused, search, height, active>>
  /\ Read /\ \E list \in {Filtered'} : EnsureVisible(Resorted(list), sideScroll)

(* A send makes its chat the newest; the window is left where it is.       *)
SendMoves ==
  /\ mode = "chat" /\ active \in Range(recent) /\ News
  /\ recent' = Newest(active) /\ settled' = FALSE
  /\ UNCHANGED <<pinned, archived, people, cache, tab, archivedView, mode, focused, search, sideScroll,
                 height, active>>
  /\ \E list \in {Filtered'} : sel' = Resorted(list)

IdentityChanged ==
  /\ News /\ settled' = FALSE /\ InvalidateContacts
  /\ UNCHANGED <<chats, tab, archivedView, mode, focused, search, sel, sideScroll, height, active>>

ContactsMsg == stored' \in SUBSET People /\ IdentityChanged /\ UNCHANGED <<known, showAll>>
NamesChange == known' \in SUBSET People /\ IdentityChanged /\ UNCHANGED <<stored, showAll>>

(* /allcontacts.  Mutant: the list that was shown is kept.                 *)
AllContactsKeepsCache ==
  /\ News /\ showAll' = ~showAll /\ settled' = FALSE
  /\ UNCHANGED <<chats, stored, known, cache, tab, archivedView, mode, focused, search, sel, sideScroll,
                 height, active>>

AllContacts == showAll' = ~showAll /\ IdentityChanged /\ UNCHANGED <<stored, known>>

(* A typing event, or the end of an old one.                               *)
Typing ==
  /\ InvalidateContacts
  /\ UNCHANGED <<chats, people, tab, archivedView, mode, focused, search, sel, sideScroll, height,
                 active, settled, news>>

Draw ==
  /\ UNCHANGED <<chats, people, tab, archivedView, mode, focused, search, sel, sideScroll, height,
                 active, settled, news>>
  /\ Read

Resize ==
  /\ height' \in Heights /\ settled' = FALSE
  /\ UNCHANGED <<chats, people, cache, tab, archivedView, mode, focused, search, sel, sideScroll, active, news>>

-----------------------------------------------------------------------------
(* Keys                                                                    *)

Key == UNCHANGED <<chats, people, height, news>>
LeaveChat == mode' = IF mode \in {"chat", "search"} THEN "nav" ELSE mode

AltC ==
  /\ Key /\ tab' = "chats" /\ archivedView' = FALSE /\ focused' = TRUE /\ LeaveChat
  /\ search' = Everything /\ UNCHANGED active
  /\ Read /\ EnsureVisible(0, 0)

ToggleArchivedView ==
  /\ Key /\ tab' = "chats" /\ archivedView' = ~archivedView /\ focused' = TRUE /\ LeaveChat
  /\ search' = Everything /\ UNCHANGED active
  /\ Read /\ EnsureVisible(0, 0)

AltP ==
  /\ Key /\ tab' = "contacts" /\ focused' = TRUE /\ mode' = "search"
  /\ search' = Everything /\ UNCHANGED <<archivedView, active>>
  /\ Read /\ EnsureVisible(0, 0)

Back == mode' = IF active # NoChat THEN "chat" ELSE "nav"

AltS ==
  /\ Key /\ UNCHANGED <<tab, archivedView, active>> /\ Read
  /\ IF mode = "search" THEN focused' = FALSE /\ Back /\ search' = Everything /\ EnsureVisible(0, sideScroll)
     ELSE focused' = TRUE /\ mode' = "search" /\ UNCHANGED search /\ EnsureVisible(sel, sideScroll)

(* Ctrl+K leaves the search but not what it found.                         *)
CtrlK ==
  /\ Key /\ focused' = FALSE /\ mode' = IF mode = "search" THEN "nav" ELSE mode
  /\ UNCHANGED <<tab, archivedView, search, cache, sel, sideScroll, active, settled>>

(* "/" in the list, Esc and typing in the search.                          *)
SearchKey ==
  /\ Key /\ UNCHANGED <<tab, archivedView, active>> /\ Read
  /\ \/ mode = "nav" /\ mode' = "search" /\ focused' = TRUE /\ search' = Everything /\ EnsureVisible(0, sideScroll)
     \/ mode = "search" /\ Back /\ focused' = FALSE /\ search' = Everything /\ EnsureVisible(0, sideScroll)
     \/ /\ mode = "search" /\ UNCHANGED <<mode, focused>>
        /\ search' \in Found \cup {Everything} /\ EnsureVisible(sel, sideScroll)

Step(n, i, by) == (i + n + by) % n

(* openSelectedChat, when `at` is the highlight.                           *)
OpenSelected(at) ==
  IF Filtered = <<>> THEN UNCHANGED <<mode, active>>
  ELSE mode' = "chat" /\ active' = Filtered[IF at < Len(Filtered) THEN at + 1 ELSE 1]

Arrow ==
  /\ mode # "chat" \/ focused
  /\ Key /\ UNCHANGED <<tab, archivedView, focused, search>> /\ Read
  /\ \E by \in {1, Len(Filtered) - 1} :
       LET at == IF Filtered = <<>> THEN sel ELSE Step(Len(Filtered), sel, by)
       IN  /\ EnsureVisible(at, sideScroll)
           /\ IF mode = "chat" THEN OpenSelected(at) ELSE UNCHANGED <<mode, active>>

(* Alt+Up and Alt+Down: from the open chat, if it is in the list.          *)
AltArrow ==
  /\ mode = "chat" /\ Filtered # <<>>
  /\ Key /\ UNCHANGED <<tab, archivedView, search>> /\ Read
  /\ LET open == SelectInSeq(Filtered, LAMBDA c : c = active)
         from == IF open = 0 THEN sel ELSE open - 1
     IN  \E by \in {1, Len(Filtered) - 1} :
           LET at == Step(Len(Filtered), from, by)
           IN  /\ at # from /\ focused' = FALSE
               /\ EnsureVisible(at, sideScroll) /\ OpenSelected(at)

(* Enter and Tab.                                                          *)
Enter ==
  /\ mode # "chat" \/ focused
  /\ Key /\ UNCHANGED <<tab, archivedView, search, sideScroll>> /\ focused' = FALSE /\ Read
  /\ OpenSelected(sel)
  /\ sel' = IF Filtered # <<>> /\ sel >= Len(Filtered) THEN 0 ELSE sel
  /\ settled' = (settled /\ sel' = sel)

TabInChat ==
  /\ mode = "chat" /\ Key /\ focused' = ~focused
  /\ UNCHANGED <<tab, archivedView, mode, search, cache, sel, sideScroll, active, settled>>

EscInChat ==
  /\ mode = "chat" /\ Key /\ UNCHANGED <<tab, archivedView, search>>
  /\ IF focused
     THEN focused' = FALSE /\ UNCHANGED <<mode, active, cache, sel, sideScroll, settled>>
     ELSE /\ UNCHANGED focused /\ mode' = "nav" /\ active' = NoChat
          /\ Read /\ EnsureVisible(sel, sideScroll)

-----------------------------------------------------------------------------
SidebarInit ==
  /\ recent = <<>> /\ pinned = {} /\ archived = {}
  /\ stored = People /\ known = {} /\ showAll = FALSE
  /\ cache = [valid |-> FALSE, list |-> <<>>]
  /\ tab = "chats" /\ archivedView = FALSE /\ mode = "nav" /\ focused = FALSE
  /\ search = Everything /\ sel = 0 /\ sideScroll = 0 /\ height \in Heights
  /\ active = NoChat /\ settled = TRUE /\ news = 0

SidebarNext ==
  \/ ChatsMsg \/ SendMoves \/ ContactsMsg \/ NamesChange \/ AllContacts \/ Typing \/ Draw \/ Resize
  \/ AltC \/ ToggleArchivedView \/ AltP \/ AltS \/ CtrlK \/ SearchKey
  \/ Arrow \/ AltArrow \/ Enter \/ TabInChat \/ EscInChat

SidebarSpec == SidebarInit /\ [][SidebarNext]_sidebarVars

-----------------------------------------------------------------------------
SidebarTypeOK ==
  /\ Range(recent) \subseteq ChatIDs /\ pinned \cup archived \subseteq ChatIDs /\ pinned \cap archived = {}
  /\ stored \cup known \subseteq People /\ showAll \in BOOLEAN
  /\ cache.valid \in BOOLEAN /\ Range(cache.list) \subseteq People
  /\ tab \in {"chats", "contacts"} /\ mode \in {"nav", "search", "chat"}
  /\ {archivedView, focused, settled} \subseteq BOOLEAN
  /\ search \in Found \cup {Everything} /\ active \in Everything \cup {NoChat}
  /\ {sel, sideScroll} \subseteq 0..Cardinality(Everything) /\ height \in Heights /\ news \in 0..MaxNews

(* A chat that is highlighted stays highlighted when a message, a send, a  *)
(* pin or another chat's archiving moves it: Alt+B, /pin and Enter act on  *)
(* what the user looks at (resortChats).                                   *)
HighlightSticks ==
  [][ LET was == SelectedChatID
      IN  /\ <<recent', pinned', archived'>> # chats
          /\ was # NoChat /\ was \in Range(Filtered')
          => Highlighted' = was ]_sidebarVars

(* The cached list of people is the one that would be made now: whatever   *)
(* it is made of invalidates it (sidebarCache).                            *)
ContactsAreFresh == cache.valid => cache.list = ContactList

(* The highlight is on a row that is drawn, through searches, wrapping,    *)
(* the footer of the archive and chats that come and go, until a list      *)
(* changes under it without ensureSideVisible.  renderSide clamps the      *)
(* window on its own.                                                      *)
HighlightIsDrawn ==
  LET last == IF Len(Filtered) > SideViewRows THEN Len(Filtered) - SideViewRows ELSE 0
      start == Smaller(sideScroll, last)
  IN  settled /\ Filtered # <<>> => start <= sel /\ sel < start + SideViewRows

(* Not kept by the code (README, "Disagreements"):                         *)
(* Alt+B allows or denies the highlighted chat, as the comment of          *)
(* toggleWhitelistForSelection says: it reads the list without the search. *)
TogglesTheHighlighted ==
  Highlighted # NoChat /\ sel < Len(SidebarItems) => SidebarItems[sel + 1] = Highlighted
=============================================================================

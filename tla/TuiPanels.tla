----------------------------- MODULE TuiPanels -----------------------------
(***************************************************************************)
(* The pickers over the chat (internal/tui picker/, pickers.go, input.go). *)
(* Theme, pointer and style pickers show what is highlighted at once: they *)
(* write it to the configuration in memory, and put the value they found   *)
(* back on Esc.  The configuration is saved as a whole, by whatever saves. *)
(* Some keys work in spite of an open picker: Alt+M, Alt+T, Alt+G and the  *)
(* command box (Ctrl+K), so that pickers pile up.                          *)
(*                                                                         *)
(* "style" stands for the five pickers of a setting: typing style, media   *)
(* icon, media preview, chat list icons, startup speed.  An item is its    *)
(* place in the list, from 1; a panel that is closed is at 0.              *)
(***************************************************************************)
EXTENDS Naturals, Sequences, FiniteSets, SequencesExt, FiniteSetsExt

CONSTANTS
  ThemeGroups, HelpGroups,          \* items in each titled group
  PointerCount, StyleCount,         \* items of these pickers
  Toggles, Selectors,               \* items of the settings; Theme is the last of them
  ListCount, Hits,                  \* chats to forward to; how many a filter may leave
  MaxOpen, MaxSaves                 \* bounds: panels open at once, saves

ASSUME PanelAssumption ==
  /\ ThemeGroups \in Seq(Nat \ {0}) \ {<<>>} /\ HelpGroups \in Seq(Nat \ {0}) \ {<<>>}
  /\ {PointerCount, StyleCount, Toggles, Selectors, ListCount} \subseteq Nat \ {0}
  /\ Hits \subseteq 0..ListCount /\ ListCount \in Hits
  /\ MaxOpen \in Nat \ {0} /\ MaxSaves \in Nat

-----------------------------------------------------------------------------
(* Where an arrow key leads                                                *)

Arrows == {"up", "down", "left", "right"}
Cols == 2                           \* themeCols, helpCols, settingsCols
Lesser(a, b) == IF a <= b THEN a ELSE b

(* The number of items before group g; all of them for the group after the last. *)
GroupOffset(groups, g) ==
  LET before[k \in 1..Len(groups) + 1] == IF k = 1 THEN 0 ELSE before[k - 1] + groups[k - 1]
  IN  before[g]
Total(groups) == GroupOffset(groups, Len(groups) + 1)
GroupPos(groups, i) ==
  CHOOSE g \in DOMAIN groups : GroupOffset(groups, g) < i /\ i <= GroupOffset(groups, g) + groups[g]

(* Mutant: a full last row is counted as followed by another.              *)
LastRowUneven(n) == n \div Cols
LastRow(n) == (n - 1) \div Cols

(* handleGrouped: the last row of a group may have one item only.          *)
Grouped(groups, i, arrow) ==
  LET g == GroupPos(groups, i)
      local == i - GroupOffset(groups, g) - 1
      col == local % Cols
      item(h, l) == GroupOffset(groups, h) + Lesser(l, groups[h] - 1) + 1
  IN  CASE arrow = "right" -> IF col < Cols - 1 /\ local + 1 < groups[g] THEN i + 1 ELSE i
        [] arrow = "left"  -> IF col > 0 THEN i - 1 ELSE i
        [] arrow = "down"  -> IF local \div Cols < LastRow(groups[g]) THEN item(g, local + Cols)
                              ELSE IF g < Len(groups) THEN item(g + 1, col) ELSE i
        [] arrow = "up"    -> IF local >= Cols THEN i - Cols
                              ELSE IF g > 1 THEN item(g - 1, LastRow(groups[g - 1]) * Cols + col)
                              ELSE i

Wrapped(n, i, by) == ((i - 1 + n + by) % n) + 1
OneColumn(n, i, arrow) == Wrapped(n, i, IF arrow \in {"up", "left"} THEN n - 1 ELSE 1)

(* Two columns, filled one after the other, the left one longer if any.    *)
TwoColumns(n, i, arrow) ==
  LET rows  == (n + 1) \div 2
      right == n - rows
  IN  IF i <= rows
      THEN CASE arrow = "up"   -> Wrapped(rows, i, rows - 1)
             [] arrow = "down" -> Wrapped(rows, i, 1)
             [] OTHER          -> rows + Lesser(i, right)
      ELSE CASE arrow = "up"   -> rows + Wrapped(right, i - rows, right - 1)
             [] arrow = "down" -> rows + Wrapped(right, i - rows, 1)
             [] OTHER          -> i - rows

(* Handle: a list of a few items, or with a long label, has one column.    *)
Handle(n, long, i, arrow) == IF n <= 4 \/ long THEN OneColumn(n, i, arrow) ELSE TwoColumns(n, i, arrow)

(* The settings: toggles and selectors fill rows of their own.             *)
SectionRows(n) == (n + Cols - 1) \div Cols
SettingsPos(toggles, i) ==
  IF i <= toggles THEN [row |-> (i - 1) \div Cols, col |-> (i - 1) % Cols]
  ELSE [row |-> SectionRows(toggles) + (i - toggles - 1) \div Cols, col |-> (i - toggles - 1) % Cols]
SettingsAt(toggles, n, row, col) == {i \in 1..n : SettingsPos(toggles, i) = [row |-> row, col |-> col]}

HandleSettings(toggles, n, i, arrow) ==
  LET pos == SettingsPos(toggles, i)
      cell(row, col) == SettingsAt(toggles, n, row, col)
      go(cells) == IF cells = {} THEN i ELSE CHOOSE j \in cells : TRUE
      row(r) == go(IF cell(r, pos.col) # {} THEN cell(r, pos.col) ELSE cell(r, 0))
  IN  CASE arrow = "right" -> go(cell(pos.row, pos.col + 1))
        [] arrow = "left"  -> IF pos.col = 0 THEN i ELSE go(cell(pos.row, pos.col - 1))
        [] arrow = "down"  -> row(pos.row + 1)
        [] arrow = "up"    -> IF pos.row = 0 THEN i ELSE row(pos.row - 1)

-----------------------------------------------------------------------------
(* The panels, in the order in which they get the keys                     *)

Panels == <<"confirm", "theme", "pointer", "forward", "reaction", "help", "settings", "style">>
Previews == {"theme", "pointer", "style"}
Themes == Total(ThemeGroups)
HelpCount == Total(HelpGroups)
Settings == Toggles + Selectors
ThemeSetting == Settings

VARIABLES
  at,           \* the item each panel is at, 0 when it is closed
  original,     \* the value a preview puts back on Esc (1 when closed: it is not read then)
  hits,         \* how many chats the filter of the forward list leaves
  config,       \* currentConfig
  icon,         \* receivedMsgIcon: the pointer that is shown
  disk,         \* the configuration file
  box,          \* the command box has the keys
  themeFromSettings, settingsReturnIdx,
  saves,        \* how often the file was written (bound)
  mixed         \* something was saved or opened in the middle of a preview

panelVars == <<at, original, hits, config, icon, disk, box, themeFromSettings, settingsReturnIdx, saves, mixed>>
memory == <<config, icon>>
return == <<themeFromSettings, settingsReturnIdx>>

IsOpen(p) == at[p] # 0
OpenPanels == {p \in Range(Panels) : IsOpen(p)}
Owner(p) ==
  /\ IsOpen(p) /\ \A i, j \in DOMAIN Panels : Panels[j] = p /\ i < j => ~IsOpen(Panels[i])
  /\ p = "confirm" \/ ~box

(* saveConfig: the whole of it, whatever is under preview.                 *)
SaveConfig(c) == saves < MaxSaves /\ saves' = saves + 1 /\ disk' = c
NoSave == UNCHANGED <<saves, disk>>

Busy(p) == \E q \in Previews : q # p /\ IsOpen(q)

(* Open: the highlight is at the current value.  Bound: nothing is opened   *)
(* any more once something was mixed up.                                   *)
Open(p, item) ==
  /\ Cardinality(OpenPanels \cup {p}) <= MaxOpen /\ ~mixed
  /\ at' = [at EXCEPT ![p] = item]
OpenPreview(p, value) ==
  /\ Open(p, value)
  /\ original' = [original EXCEPT ![p] = value]
  /\ mixed' = (mixed \/ IsOpen(p))

-----------------------------------------------------------------------------
(* Keys that work in spite of a picker                                     *)

AltM ==
  /\ ~IsOpen("confirm")
  /\ config' = [config EXCEPT !.mouse = ~@] /\ SaveConfig(config')
  /\ mixed' = (mixed \/ Busy("none"))
  /\ UNCHANGED <<at, original, hits, icon, box, return>>

OpenBox ==
  /\ ~IsOpen("confirm") /\ ~box /\ box' = TRUE
  /\ UNCHANGED <<at, original, hits, memory, disk, return, saves, mixed>>

LeaveBox ==
  /\ ~IsOpen("confirm") /\ box /\ box' = FALSE
  /\ UNCHANGED <<at, original, hits, memory, disk, return, saves, mixed>>

OpenForwardPicker ==
  /\ ~IsOpen("confirm") /\ Open("forward", 1) /\ hits' = ListCount
  /\ UNCHANGED <<original, memory, disk, box, return, saves, mixed>>

OpenReactionList ==
  /\ ~IsOpen("confirm") /\ Open("reaction", 1)
  /\ UNCHANGED <<original, hits, memory, disk, box, return, saves, mixed>>

-----------------------------------------------------------------------------
(* Commands                                                                *)

Command == box /\ ~IsOpen("confirm") /\ box' = FALSE

RunUICommand ==
  /\ Command
  /\ \/ OpenPreview("theme", config.theme)
     \/ OpenPreview("pointer", icon)
     \/ OpenPreview("style", config.style)
     \/ \E p \in {"help", "settings", "confirm"} : Open(p, 1) /\ UNCHANGED <<original, mixed>>
  /\ UNCHANGED <<hits, memory, disk, return, saves>>

(* "/theme<name>".                                                         *)
RunThemeCommand ==
  /\ Command
  /\ \E t \in 1..Themes : config' = [config EXCEPT !.theme = t]
  /\ SaveConfig(config')
  /\ mixed' = (mixed \/ Busy("none"))
  /\ UNCHANGED <<at, original, hits, icon, return>>

(* "?" while nothing is open.                                              *)
QuestionMark ==
  /\ OpenPanels = {} /\ ~box /\ Open("help", 1)
  /\ UNCHANGED <<original, hits, memory, disk, box, return, saves, mixed>>

-----------------------------------------------------------------------------
(* Keys of the panels                                                      *)

Close(p) == at' = [at EXCEPT ![p] = 0] /\ original' = [original EXCEPT ![p] = 1]

(* reopenSettings: a new picker, at the setting that was left.             *)
ReopenSettings(p) ==
  /\ at' = [at EXCEPT ![p] = 0, !["settings"] = settingsReturnIdx]
  /\ original' = [original EXCEPT ![p] = 1]

(* The theme picker goes back to the settings if it came from there.       *)
CloseTheme ==
  /\ themeFromSettings' = FALSE
  /\ IF themeFromSettings THEN ReopenSettings("theme") ELSE Close("theme")

ThemeKey ==
  /\ Owner("theme")
  /\ \/ \E arrow \in Arrows :
          LET item == Grouped(ThemeGroups, at["theme"], arrow)
          IN  at' = [at EXCEPT !["theme"] = item] /\ config' = [config EXCEPT !.theme = item]
              /\ NoSave /\ UNCHANGED <<original, themeFromSettings, mixed>>
     \/ /\ config' = [config EXCEPT !.theme = at["theme"]] /\ SaveConfig(config')   \* Enter
        /\ CloseTheme /\ mixed' = (mixed \/ Busy("theme"))
     \/ /\ config' = [config EXCEPT !.theme = original["theme"]]                    \* Esc
        /\ CloseTheme /\ NoSave /\ UNCHANGED mixed
  /\ UNCHANGED <<hits, icon, box, settingsReturnIdx>>

(* The pointer is not in the configuration before Enter.                   *)
PointerKey ==
  /\ Owner("pointer")
  /\ \/ \E arrow \in Arrows :
          LET item == IF PointerCount <= 4 THEN OneColumn(PointerCount, at["pointer"], arrow)
                      ELSE Grouped(<<PointerCount>>, at["pointer"], arrow)
          IN  at' = [at EXCEPT !["pointer"] = item] /\ icon' = item
              /\ NoSave /\ UNCHANGED <<original, config, mixed>>
     \/ /\ icon' = at["pointer"] /\ Close("pointer")             \* Enter
        /\ config' = [config EXCEPT !.pointer = icon'] /\ SaveConfig(config')
        /\ mixed' = (mixed \/ Busy("pointer"))
     \/ /\ icon' = original["pointer"] /\ Close("pointer")       \* Esc
        /\ NoSave /\ UNCHANGED <<config, mixed>>
  /\ UNCHANGED <<hits, box, return>>

(* handleSettingsSubPicker: it goes to the settings even when it was       *)
(* opened by a command.  Mutant: Esc keeps the value under the highlight.  *)
StyleKeepsPreview ==
  /\ Owner("style")
  /\ \/ \E arrow \in Arrows, long \in BOOLEAN :
          LET item == Handle(StyleCount, long, at["style"], arrow)
          IN  at' = [at EXCEPT !["style"] = item] /\ config' = [config EXCEPT !.style = item]
              /\ NoSave /\ UNCHANGED <<original, mixed>>
     \/ ReopenSettings("style") /\ NoSave /\ UNCHANGED <<config, mixed>>
  /\ UNCHANGED <<hits, icon, box, return>>

StyleKey ==
  /\ Owner("style")
  /\ \/ \E arrow \in Arrows, long \in BOOLEAN :
          LET item == Handle(StyleCount, long, at["style"], arrow)
          IN  at' = [at EXCEPT !["style"] = item] /\ config' = [config EXCEPT !.style = item]
              /\ NoSave /\ UNCHANGED <<original, mixed>>
     \/ /\ config' = [config EXCEPT !.style = at["style"]] /\ SaveConfig(config')   \* Enter
        /\ ReopenSettings("style") /\ mixed' = (mixed \/ Busy("style"))
     \/ /\ config' = [config EXCEPT !.style = original["style"]]                    \* Esc
        /\ ReopenSettings("style") /\ NoSave /\ UNCHANGED mixed
  /\ UNCHANGED <<hits, icon, box, return>>

(* A filter list: typing narrows it and goes to its first item.            *)
ForwardKey ==
  /\ Owner("forward")
  /\ \/ \E by \in {1, hits - 1} :
          hits > 0 /\ at' = [at EXCEPT !["forward"] = Wrapped(hits, @, by)] /\ UNCHANGED hits
     \/ hits' \in Hits /\ at' = [at EXCEPT !["forward"] = 1]
     \/ at' = [at EXCEPT !["forward"] = 0] /\ hits' = ListCount     \* Enter, Esc
  /\ UNCHANGED <<original, memory, disk, box, return, saves, mixed>>

(* HandleReactions scrolls without wrapping.                               *)
ReactionKey ==
  /\ Owner("reaction")
  /\ at' \in {[at EXCEPT !["reaction"] = i] : i \in {0, 1, ListCount, at["reaction"] - 1, at["reaction"] + 1} \cap 0..ListCount}
  /\ UNCHANGED <<original, hits, memory, disk, box, return, saves, mixed>>

(* Enter on a command puts it into the command box.                        *)
HelpKey ==
  /\ Owner("help")
  /\ \/ \E arrow \in Arrows : at' = [at EXCEPT !["help"] = Grouped(HelpGroups, @, arrow)] /\ UNCHANGED box
     \/ at' = [at EXCEPT !["help"] = 0] /\ box' \in BOOLEAN
  /\ UNCHANGED <<original, hits, memory, disk, return, saves, mixed>>

SettingsKey ==
  /\ Owner("settings")
  /\ \/ \E arrow \in Arrows :
          /\ at' = [at EXCEPT !["settings"] = HandleSettings(Toggles, Settings, @, arrow)]
          /\ NoSave /\ UNCHANGED <<original, config, mixed, return>>
     \/ at' = [at EXCEPT !["settings"] = 0] /\ NoSave /\ UNCHANGED <<original, config, mixed, return>>
     \/ /\ at["settings"] <= Toggles                              \* toggleSetting
        /\ config' = [config EXCEPT !.mouse = IF at["settings"] = 1 THEN ~@ ELSE @]
        /\ SaveConfig(config') /\ mixed' = (mixed \/ Busy("none"))
        /\ UNCHANGED <<at, original, return>>
     \/ /\ at["settings"] > Toggles                               \* a selector
        /\ settingsReturnIdx' = at["settings"]
        /\ LET p == IF at["settings"] = ThemeSetting THEN "theme" ELSE "style"
           IN  /\ at' = [at EXCEPT !["settings"] = 0, ![p] = config[p]]
               /\ original' = [original EXCEPT ![p] = config[p]]
               /\ mixed' = (mixed \/ IsOpen(p))
               /\ themeFromSettings' = (themeFromSettings \/ p = "theme")
        /\ NoSave /\ UNCHANGED config
  /\ UNCHANGED <<hits, icon, box>>

(* Yes is 1 and No is 2; what Yes does is in other modules.                *)
ConfirmKey ==
  /\ IsOpen("confirm")
  /\ at' \in {[at EXCEPT !["confirm"] = i] : i \in {0, 3 - at["confirm"]}}
  /\ UNCHANGED <<original, hits, memory, disk, box, return, saves, mixed>>

(* The program is quit, and loads the file when it is started again.       *)
Restart ==
  /\ at' = [p \in Range(Panels) |-> 0] /\ box' = FALSE /\ mixed' = FALSE
  /\ config' = disk /\ icon' = disk.pointer
  /\ themeFromSettings' = FALSE /\ settingsReturnIdx' = 1
  /\ original' = [p \in Previews |-> 1] /\ hits' = ListCount
  /\ UNCHANGED <<disk, saves>>

-----------------------------------------------------------------------------
PanelsInit ==
  /\ at = [p \in Range(Panels) |-> 0] /\ original = [p \in Previews |-> 1] /\ hits = ListCount
  /\ config = [theme |-> 1, style |-> 1, pointer |-> 1, mouse |-> TRUE]
  /\ icon = 1 /\ disk = config
  /\ box = FALSE /\ themeFromSettings = FALSE /\ settingsReturnIdx = 1
  /\ saves = 0 /\ mixed = FALSE

PanelsNext ==
  \/ AltM \/ OpenBox \/ LeaveBox \/ OpenForwardPicker \/ OpenReactionList
  \/ RunUICommand \/ RunThemeCommand \/ QuestionMark
  \/ ThemeKey \/ PointerKey \/ StyleKey \/ ForwardKey \/ ReactionKey
  \/ HelpKey \/ SettingsKey \/ ConfirmKey \/ Restart

PanelsSpec == PanelsInit /\ [][PanelsNext]_panelVars

-----------------------------------------------------------------------------
Size == [p \in Range(Panels) |->
           CASE p = "theme" -> Themes [] p = "help" -> HelpCount [] p = "pointer" -> PointerCount
             [] p = "style" -> StyleCount [] p = "settings" -> Settings
             [] p = "forward" -> IF hits = 0 THEN 1 ELSE hits
             [] p = "reaction" -> ListCount [] p = "confirm" -> 2]

(* Every highlight is on an item of its list: SelectedKey and Close(true)  *)
(* index the items without a check.                                        *)
PanelsTypeOK ==
  /\ \A p \in Range(Panels) : at[p] \in 0..Size[p]
  /\ {config, disk} \subseteq [theme : 1..Themes, style : 1..StyleCount, pointer : 1..PointerCount, mouse : BOOLEAN]
  /\ icon \in 1..PointerCount /\ settingsReturnIdx \in 1..Settings

(* What n presses of the arrow keys can lead to, in a layout of n items.   *)
Reach(n, from, move) ==
  LET after[k \in 0..n] ==
        IF k = 0 THEN {from} ELSE after[k - 1] \cup {move[i][a] : i \in after[k - 1], a \in Arrows}
  IN  after[n]

InGroups(groups) == [i \in 1..Total(groups) |-> [a \in Arrows |-> Grouped(groups, i, a)]]
InColumns(n, long) == [i \in 1..n |-> [a \in Arrows |-> Handle(n, long, i, a)]]
InSections(toggles, n) == [i \in 1..n |-> [a \in Arrows |-> HandleSettings(toggles, n, i, a)]]

LayoutsAreWhole ==
  /\ \A groups \in SeqOf(1..4, 3) \ {<<>>} : Reach(Total(groups), 1, InGroups(groups)) = 1..Total(groups)
  /\ \A n \in 1..9, long \in BOOLEAN : Reach(n, 1, InColumns(n, long)) = 1..n
  /\ \A toggles, selectors \in 1..4 :
       Reach(toggles + selectors, 1, InSections(toggles, toggles + selectors)) = 1..(toggles + selectors)

ReachOf ==
  [theme    |-> [i \in 1..Themes |-> Reach(Themes, i, InGroups(ThemeGroups))],
   style    |-> [i \in 1..StyleCount |-> Reach(StyleCount, i, InColumns(StyleCount, FALSE))],
   settings |-> [i \in 1..Settings |-> Reach(Settings, i, InSections(Toggles, Settings))]]

(* From wherever the highlight is the arrow keys lead to every item and to *)
(* nowhere else, and so they do from the first item whatever the sizes of  *)
(* the groups and sections.                                                *)
EveryItemIsReachable ==
  /\ LayoutsAreWhole
  /\ \A p \in DOMAIN ReachOf : IsOpen(p) => ReachOf[p][at[p]] = DOMAIN ReachOf[p]

(* A look at a theme, a pointer or a style leaves no trace: once every     *)
(* preview is closed, the program shows what the file says.  Not so when   *)
(* something was saved or opened in the middle of a preview.               *)
PreviewIsUndone ==
  ~mixed /\ (\A p \in Previews : ~IsOpen(p)) => config = disk /\ icon = disk.pointer
=============================================================================

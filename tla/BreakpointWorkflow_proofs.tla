---------------------- MODULE BreakpointWorkflow_proofs ----------------------
(***************************************************************************)
(* That the copies of a breakpoint agree, for any files, lines, projects   *)
(* and binaries and any number of clicks, launches and sessions.           *)
(*                                                                         *)
(* The two agreements are inductive together with the types: every handler *)
(* that changes one copy changes the others, or the flags windowFresh and  *)
(* heldFresh say that it did not.  The action properties follow from them. *)
(***************************************************************************)
EXTENDS BreakpointWorkflow, TLAPS

-----------------------------------------------------------------------------
(* Marks and lists of lines.                                               *)

(* A view that is given a list of lines marks exactly them. *)
LEMMA PlainMarks ==
  ASSUME NEW S \in SUBSET Lines
  PROVE  Plain(S) \in [Lines -> Marks] /\ Marked(Plain(S)) = S
BY WorkflowAssumption DEF Plain, Marked, Marks

(* A view without breakpoints marks nothing. *)
LEMMA NoMarksPlain == NoMarks = Plain({}) /\ Unmarked \in [Files -> [Lines -> Marks]]
                      /\ \A f \in Files : Unmarked[f] = NoMarks
BY DEF NoMarks, Plain, Unmarked, Marks

(* A list without lines. *)
LEMMA NoLinesType == NoLines \in Lists
BY DEF NoLines, Lists

(* Setting or removing one mark sets or removes one line. *)
LEMMA OneMark ==
  ASSUME NEW ms \in [Lines -> Marks], NEW l \in Lines, NEW mark \in Marks
  PROVE  Marked([ms EXCEPT ![l] = mark]) =
           IF mark = Off THEN Marked(ms) \ {l} ELSE Marked(ms) \cup {l}
BY DEF Marked, Marks

(* The lines of marks are lines. *)
LEMMA MarkedLines == \A ms : Marked(ms) \subseteq Lines
BY DEF Marked

-----------------------------------------------------------------------------
(* Types.                                                                  *)

(* The part of the state most handlers leave alone keeps its type. *)
LEMMA SpendKeeps ==
  ASSUME NEW what, Spend(what), spent \in [DOMAIN Bounds -> Nat]
  PROVE  spent' \in [DOMAIN Bounds -> Nat]
<1> DEFINE D == DOMAIN Bounds
<1>1. spent \in [D -> Nat] /\ spent' = [spent EXCEPT ![what] = @ + 1]
  BY DEF Spend
<1> HIDE DEF D
<1>2. spent' = [d \in D |-> IF d = what THEN spent[what] + 1 ELSE spent[d]]
  BY <1>1
<1>3. \A d \in D : (IF d = what THEN spent[what] + 1 ELSE spent[d]) \in Nat
  BY <1>1
<1>4. spent' \in [D -> Nat]
  BY <1>2, <1>3
<1> QED BY <1>4 DEF D

(* What is saved for a binary of a workspace is a list. *)
LEMMA StoredType ==
  ASSUME TypeOK
  PROVE  /\ GetBreakpoints \in Lists
         /\ \A w \in Workspaces, k \in Keys : stored[w][k] \in Lists
         /\ \A w \in Workspaces : target[w] \in Keys /\ stored[w][target[w]] \in Lists
         /\ {NoBinary, DefaultBinary, DemoBinary} \subseteq Keys
         /\ NoMarks \in [Lines -> Marks]
BY WorkflowAssumption DEF TypeOK, GetBreakpoints, Keys, NoMarks, Marks

(* What is asked of gdb is a breakpoint. *)
LEMMA AskedForType ==
  ASSUME asked \in Nat, NEW locs \in SUBSET Locations
  PROVE  AskedFor(locs) \subseteq Bkpts
<1> SUFFICES ASSUME NEW k \in locs
             PROVE  [n |-> asked, loc |-> k, at |-> Reported[k], answered |-> FALSE] \in Bkpts
  BY DEF AskedFor
<1>1. Reported[k] \in Ats
  BY DEF Ats
<1> QED BY <1>1 DEF Bkpts

(* The types of what the back end holds. *)
BackEndType ==
  /\ adapter \in Lists
  /\ held \subseteq Bkpts
  /\ asked \in Nat
  /\ crossed \subseteq Locations

(* A batch of broadcasts keeps the types of what gdb holds. *)
LEMMA BroadcastType ==
  ASSUME TypeOK, NEW locs \in SUBSET Locations, NEW isSet \in BOOLEAN,
         BroadcastAll(locs, isSet)
  PROVE  held' \subseteq Bkpts /\ asked' \in Nat /\ crossed' \subseteq Locations
<1>1. held \subseteq Bkpts /\ asked \in Nat /\ crossed \subseteq Locations
  BY DEF TypeOK
<1>2. AskedFor(Taken(locs)) \subseteq Bkpts
  BY <1>1, AskedForType DEF Taken
<1> QED BY <1>1, <1>2 DEF BroadcastAll, gdbVars

(* What a back end holds after it was told something. *)
LEMMA SendType ==
  ASSUME TypeOK, NEW f \in Files, NEW l \in Lines, NEW isSet \in BOOLEAN,
         Send(f, l, isSet)
  PROVE  BackEndType'
<1>1. Toggle(f, l) => adapter' \in Lists
  BY DEF TypeOK, Lists, Toggle, Flip
<1>2. CASE backend = "gdb" /\ Broadcast(f, l, isSet) /\ UNCHANGED adapter
  <2>1. {<<f, l>>} \in SUBSET Locations
    BY DEF Locations
  <2> QED BY <1>2, <2>1, BroadcastType DEF Broadcast, BackEndType, TypeOK
<1>3. CASE Toggle(f, l) /\ UNCHANGED gdbVars
  BY <1>1, <1>3 DEF gdbVars, BackEndType, TypeOK
<1> QED BY <1>2, <1>3 DEF Send

(* The same of all lines of some lists, and of a launch. *)
LEMMA SendAllType ==
  ASSUME TypeOK, NEW lists \in Lists, SendAll(lists)
  PROVE  BackEndType'
<1>1. CASE /\ BroadcastAll({k \in Locations : k[2] \in lists[k[1]]}, TRUE)
           /\ UNCHANGED adapter
  BY <1>1, BroadcastType DEF BackEndType, TypeOK
<1>2. CASE /\ adapter' = [f \in Files |-> Flip(adapter[f], lists[f])]
           /\ UNCHANGED gdbVars
  BY <1>2 DEF gdbVars, BackEndType, TypeOK, Lists, Flip
<1> QED BY <1>1, <1>2 DEF SendAll

(* A launch. *)
LEMMA LaunchType ==
  ASSUME TypeOK, NEW b \in Keys, Launch(b)
  PROVE  /\ rank' \in {"none", "launching", "connected", "synced"} /\ binary' \in Keys
         /\ held' \subseteq Bkpts /\ asked' \in Nat /\ crossed' \subseteq Locations
         /\ backend = "gdb" => heldFresh' \in BOOLEAN
<1>1. CASE backend = "gdb"
  <2>1. /\ rank' = "launching" /\ binary' = b /\ held' = {} /\ asked' = 0
        /\ crossed' = {} /\ heldFresh' = FALSE
    BY <1>1 DEF Launch
  <2> QED BY <2>1
<1>2. CASE backend = "dap"
  BY <1>2 DEF TypeOK, Launch, slotVars, gdbVars
<1> QED BY <1>1, <1>2 DEF Launch

(* One toggle, and the four copies it changes. *)
LEMMA ToggledType ==
  ASSUME TypeOK, NEW f \in open, NEW l \in Lines, NEW mark \in Marks,
         BreakpointToggled(f, l, mark), spent' \in [DOMAIN Bounds -> Nat],
         \/ popover' = NoPopover
         \/ popover' \in [file : open, line : Lines, wasSet : BOOLEAN]
  PROVE  TypeOK'
<1>1. f \in Files /\ open \subseteq Files
  BY DEF TypeOK
<1>2. marks' \in [Files -> [Lines -> Marks]] /\ \A g \in Files \ open : marks'[g] = NoMarks
  BY <1>1 DEF TypeOK, BreakpointToggled
<1>3. persistent' \in Lists
  BY <1>1 DEF TypeOK, BreakpointToggled, Lists
<1>4. stored' \in [Workspaces -> [Keys -> Lists]]
  BY <1>3 DEF TypeOK, BreakpointToggled, SaveBreakpoints
<1>5. BackEndType'
  BY <1>1, SendType DEF BreakpointToggled
<1> QED BY <1>2, <1>3, <1>4, <1>5
        DEF TypeOK, BackEndType, BreakpointToggled, projectVars, slotVars

(* Clicks, right clicks and Alt+B. *)
LEMMA EditType == TypeOK /\ Edit => TypeOK'
<1> SUFFICES ASSUME TypeOK, NEW f \in Files, NEW l \in Lines,
                    Click(f, l) \/ RightClick(f, l) \/ ToggleBreakpointCommand(f, l)
             PROVE  TypeOK'
  BY DEF Edit
<1>1. /\ spent' \in [DOMAIN Bounds -> Nat] /\ f \in open
      /\ NoCondition \in Marks /\ Off \in Marks
  BY SpendKeeps DEF TypeOK, Click, RightClick, ToggleBreakpointCommand, Marks
<1>2. CASE Click(f, l)
  <2>1. popover' = NoPopover
    BY <1>2 DEF Click
  <2> QED BY <1>1, <1>2, <2>1, ToggledType DEF Click
<1>3. CASE RightClick(f, l)
  <2>1. popover' \in [file : open, line : Lines, wasSet : BOOLEAN]
    BY <1>1, <1>3 DEF RightClick
  <2>2. CASE BreakpointToggled(f, l, NoCondition)
    BY <1>1, <2>1, <2>2, ToggledType
  <2>3. CASE marks[f][l] # Off
    BY <1>1, <1>3, <2>1, <2>3 DEF TypeOK, RightClick, projectVars, slotVars, gdbVars
  <2> QED BY <1>3, <2>2, <2>3 DEF RightClick
<1>4. CASE ToggleBreakpointCommand(f, l)
  <2>1. adapter' \in Lists
    BY <1>4 DEF TypeOK, ToggleBreakpointCommand, Toggle, Flip, Lists
  <2> QED BY <1>1, <1>4, <2>1
          DEF TypeOK, ToggleBreakpointCommand, projectVars, slotVars, gdbVars
<1> QED BY <1>2, <1>3, <1>4

(* The end of a popover. *)
LEMMA PopoverType == TypeOK /\ ClosePopover => TypeOK'
<1> SUFFICES ASSUME TypeOK, NEW accepted \in BOOLEAN, NEW enabled \in BOOLEAN,
                    NEW c \in Marks, PopoverResult(accepted, enabled, c)
             PROVE  TypeOK'
  BY DEF ClosePopover, Cancel, Remove, Done, Marks
<1> DEFINE f == popover.file
           l == popover.line
<1>1. /\ f \in open /\ l \in Lines /\ popover' = NoPopover /\ Off \in Marks
      /\ spent' \in [DOMAIN Bounds -> Nat]
  BY DEF TypeOK, PopoverResult, Marks
<1>2. \/ BreakpointToggled(f, l, Off)
      \/ BreakpointToggled(f, l, c)
      \/ UNCHANGED <<backend, open, marks, persistent, projectVars,
                     stored, adapter, slotVars, gdbVars, session,
                     windowFresh, heldFresh>>
  BY DEF PopoverResult
<1>3. CASE BreakpointToggled(f, l, Off)
  BY <1>1, <1>3, ToggledType
<1>4. CASE BreakpointToggled(f, l, c)
  BY <1>1, <1>4, ToggledType
<1>5. CASE UNCHANGED <<backend, open, marks, persistent, projectVars,
                       stored, adapter, slotVars, gdbVars, session,
                       windowFresh, heldFresh>>
  BY <1>1, <1>5 DEF TypeOK, projectVars, slotVars, gdbVars
<1> QED BY <1>2, <1>3, <1>4, <1>5

(* Opening and closing tabs. *)
LEMMA TabType == TypeOK /\ Tab => TypeOK'
<1> SUFFICES ASSUME TypeOK, NEW f \in Files, OpenFile(f) \/ CloseTab(f)
             PROVE  TypeOK'
  BY DEF Tab
<1>1. spent' \in [DOMAIN Bounds -> Nat] /\ popover' = NoPopover
  BY SpendKeeps DEF TypeOK, OpenFile, CloseTab
<1>2. CASE OpenFile(f)
  <2>1. Plain(GetBreakpoints[f]) \in [Lines -> Marks]
    BY StoredType, PlainMarks DEF Lists
  <2> QED BY <1>1, <1>2, <2>1 DEF TypeOK, OpenFile, projectVars, slotVars, gdbVars
<1>3. CASE CloseTab(f)
  BY <1>1, <1>3, StoredType DEF TypeOK, CloseTab, projectVars, slotVars, gdbVars
<1> QED BY <1>2, <1>3

(* Projects opened, created or configured, and a restart. *)
LEMMA ProjectType == TypeOK /\ Project => TypeOK'
<1> USE StoredType, NoMarksPlain
<1>1. ASSUME TypeOK, NEW w \in Workspaces, OpenWorkspace(w)
      PROVE  TypeOK'
  <2>1. spent' \in [DOMAIN Bounds -> Nat] /\ heldFresh' \in BOOLEAN
    BY <1>1, SpendKeeps DEF TypeOK, OpenWorkspace
  <2> QED BY <1>1, <2>1
          DEF TypeOK, OpenWorkspace, ClearAllTabs, slotVars, gdbVars
<1>2. ASSUME TypeOK, NEW w \in Workspaces, Restart(w)
      PROVE  TypeOK'
  <2>1. spent' \in [DOMAIN Bounds -> Nat] /\ heldFresh' \in BOOLEAN
    BY <1>2, SpendKeeps DEF TypeOK, Restart
  <2> QED BY <1>2, <2>1, NoLinesType DEF TypeOK, Restart, ClearAllTabs
<1>3. ASSUME TypeOK, NEW w \in Workspaces, NEW b \in Binaries, NewProject(w, b)
      PROVE  TypeOK'
  <2>1. spent' \in [DOMAIN Bounds -> Nat] /\ windowFresh' \in BOOLEAN /\ b \in Keys
    BY <1>3, SpendKeeps DEF TypeOK, NewProject, Keys
  <2>3. /\ rank' \in {"none", "launching", "connected", "synced"} /\ binary' \in Keys
        /\ held' \subseteq Bkpts /\ asked' \in Nat /\ crossed' \subseteq Locations
        /\ heldFresh' \in BOOLEAN
    BY <1>3, <2>1, LaunchType DEF NewProject, TypeOK
  <2>4. target' \in [Workspaces -> Keys]
    BY <1>3, <2>1 DEF TypeOK, NewProject
  <2> QED BY <1>3, <2>1, <2>3, <2>4 DEF TypeOK, NewProject, ClearAllTabs
<1>4. ASSUME TypeOK, NEW b \in Binaries, AcceptSettings(b)
      PROVE  TypeOK'
  <2>1. spent' \in [DOMAIN Bounds -> Nat] /\ windowFresh' \in BOOLEAN /\ b \in Keys
    BY <1>4, SpendKeeps DEF TypeOK, AcceptSettings, Keys
  <2>2. target' \in [Workspaces -> Keys]
    BY <1>4, <2>1 DEF TypeOK, AcceptSettings
  <2> QED BY <1>4, <2>1, <2>2 DEF TypeOK, AcceptSettings, slotVars, gdbVars
<1> QED BY <1>1, <1>2, <1>3, <1>4 DEF Project

(* Launches. *)
LEMMA StartType == TypeOK /\ Start => TypeOK'
<1> USE StoredType
<1>1. ASSUME TypeOK, LaunchCommand
      PROVE  TypeOK'
  <2>1. spent' \in [DOMAIN Bounds -> Nat]
    BY <1>1, SpendKeeps DEF TypeOK, LaunchCommand
  <2>2. PICK b \in Keys : Launch(b)
    BY <1>1 DEF TypeOK, LaunchCommand
  <2>3. /\ rank' \in {"none", "launching", "connected", "synced"} /\ binary' \in Keys
        /\ held' \subseteq Bkpts /\ asked' \in Nat /\ crossed' \subseteq Locations
        /\ heldFresh' \in BOOLEAN
    BY <1>1, <2>2, LaunchType DEF LaunchCommand, TypeOK
  <2> QED BY <1>1, <2>1, <2>3 DEF TypeOK, LaunchCommand, projectVars
<1>2. ASSUME TypeOK, NEW f \in Files, TutorialLaunch(f)
      PROVE  TypeOK'
  <2> DEFINE lists == [g \in Files |-> IF g = f THEN GetBreakpoints[f] ELSE {}]
  <2>1. spent' \in [DOMAIN Bounds -> Nat]
    BY <1>2, SpendKeeps DEF TypeOK, TutorialLaunch
  <2>2. lists \in Lists
    BY <1>2 DEF TypeOK, Lists
  <2>3. /\ rank' \in {"none", "launching", "connected", "synced"} /\ binary' \in Keys
        /\ held' \subseteq Bkpts /\ asked' \in Nat /\ crossed' \subseteq Locations
        /\ backend = "gdb" => heldFresh' \in BOOLEAN
    BY <1>2, LaunchType DEF TutorialLaunch
  <2>4. adapter' \in Lists /\ heldFresh' \in BOOLEAN
    <3>1. CASE backend = "dap"
      <4>1. SendAll(lists) /\ heldFresh' \in BOOLEAN
        BY <1>2, <3>1 DEF TutorialLaunch
      <4> QED BY <1>2, <2>2, <4>1, SendAllType DEF BackEndType
    <3>2. CASE backend = "gdb"
      BY <1>2, <2>3, <3>2 DEF TutorialLaunch, TypeOK
    <3> QED BY <1>2, <3>1, <3>2 DEF TypeOK
  <2>5. Plain(GetBreakpoints[f]) \in [Lines -> Marks]
    BY <1>2, PlainMarks DEF Lists
  <2> QED BY <1>2, <2>1, <2>3, <2>4, <2>5 DEF TypeOK, TutorialLaunch, projectVars
<1> QED BY <1>1, <1>2 DEF Start

(* Sessions. *)
LEMMA SessionType == TypeOK /\ (SaveSession \/ LoadSession) => TypeOK'
<1>1. ASSUME TypeOK, SaveSession
      PROVE  TypeOK'
  <2>1. spent' \in [DOMAIN Bounds -> Nat]
    BY <1>1, SpendKeeps DEF TypeOK, SaveSession
  <2> QED BY <1>1, <2>1 DEF TypeOK, SaveSession, projectVars, slotVars, gdbVars
<1>2. ASSUME TypeOK, LoadSession
      PROVE  TypeOK'
  <2>1. spent' \in [DOMAIN Bounds -> Nat]
    BY <1>2, SpendKeeps DEF TypeOK, LoadSession
  <2>2. session \in Lists /\ BackEndType'
    BY <1>2, SendAllType DEF TypeOK, LoadSession
  <2>3. \A f \in Files : Plain(session[f]) \in [Lines -> Marks]
    BY <2>2, PlainMarks DEF Lists
  <2>4. /\ marks' \in [Files -> [Lines -> Marks]]
        /\ \A f \in Files \ open : marks'[f] = NoMarks
    BY <1>2, <2>3 DEF TypeOK, LoadSession
  <2> QED BY <1>2, <2>1, <2>2, <2>4
          DEF TypeOK, BackEndType, LoadSession, projectVars, slotVars
<1> QED BY <1>1, <1>2

(* The connection, the flush and the replies of the rank. *)
LEMMA GdbType == TypeOK /\ Gdb => TypeOK'
<1>1. ASSUME TypeOK, Connect
      PROVE  TypeOK'
  BY <1>1 DEF TypeOK, Connect, windowVars, projectVars, gdbVars
<1>2. ASSUME TypeOK, FlushCachedBreakpoints
      PROVE  TypeOK'
  <2> DEFINE locs == {k \in Locations : k[2] \in stored[workspace][binary][k[1]]}
  <2>1. held \subseteq Bkpts /\ asked \in Nat /\ crossed \subseteq Locations
    BY <1>2 DEF TypeOK
  <2>2. AskedFor(locs) \subseteq Bkpts
    BY <2>1, AskedForType
  <2>3. held' = held \cup AskedFor(locs)
    BY <1>2 DEF FlushCachedBreakpoints
  <2>4. held' \subseteq Bkpts
    BY <2>1, <2>2, <2>3
  <2>5. \A b \in held : b.loc \in Locations
    BY <2>1 DEF Bkpts
  <2>6. asked' \in Nat /\ crossed' \subseteq Locations /\ heldFresh' \in BOOLEAN
    BY <1>2, <2>1, <2>5 DEF FlushCachedBreakpoints
  <2>7. UNCHANGED windowVars /\ rank' = "synced"
    BY <1>2 DEF FlushCachedBreakpoints
  <2> QED BY <1>2, <2>4, <2>6, <2>7 DEF TypeOK, windowVars, projectVars
<1>3. ASSUME TypeOK, HandleBkpt
      PROVE  TypeOK'
  <2>1. PICK b \in held : held' = (held \ {b}) \cup {[b EXCEPT !.answered = TRUE]}
    BY <1>3 DEF HandleBkpt
  <2>2. held \subseteq Bkpts
    BY <1>3 DEF TypeOK
  <2>3. [b EXCEPT !.answered = TRUE] \in Bkpts
    BY <2>2 DEF Bkpts
  <2>4. held' \subseteq Bkpts
    BY <2>1, <2>2, <2>3
  <2>5. UNCHANGED <<windowVars, rank, asked, crossed, heldFresh>>
    BY <1>3 DEF HandleBkpt
  <2> QED BY <1>3, <2>4, <2>5 DEF TypeOK, windowVars, projectVars
<1> QED BY <1>1, <1>2, <1>3 DEF Gdb

(* The window, the views, the project file and what the back end holds     *)
(* keep their types, and no view marks a line of a file that is not open,  *)
(* whatever the user does.                                                 *)
THEOREM TypeCorrect == Spec => []TypeOK
<1>1. Init => TypeOK
  <2> SUFFICES ASSUME Init PROVE TypeOK
    OBVIOUS
  <2>1. /\ target \in [Workspaces -> Keys] /\ workspace \in Workspaces
        /\ stored \in [Workspaces -> [Keys -> Lists]]
    BY WorkflowAssumption DEF Init, Keys
  <2>2. persistent \in Lists
    BY <2>1 DEF Init, GetBreakpoints
  <2>3. spent \in [DOMAIN Bounds -> Nat] /\ heldFresh \in BOOLEAN
    BY DEF Init
  <2> QED BY <2>1, <2>2, <2>3, NoMarksPlain, NoLinesType DEF Init, TypeOK, Keys
<1>2. TypeOK /\ [Next]_vars => TypeOK'
  <2>1. TypeOK /\ UNCHANGED vars => TypeOK'
    BY DEF TypeOK, vars, projectVars, slotVars, gdbVars
  <2> QED
    BY <2>1, EditType, PopoverType, TabType, ProjectType, StartType, SessionType,
       GdbType DEF Next
<1> QED BY <1>1, <1>2, PTL DEF Spec

-----------------------------------------------------------------------------
(* The view, the window and the file.                                      *)

(* A toggle of a line changes all three alike. *)
LEMMA ToggledViews ==
  ASSUME TypeOK, ViewsAgree, NEW f \in open, NEW l \in Lines, NEW mark \in Marks,
         BreakpointToggled(f, l, mark)
  PROVE  /\ ViewsAgree'
         /\ GetBreakpoints' = persistent'
<1>1. /\ f \in Files /\ open \subseteq Files /\ open' = open
      /\ workspace' = workspace /\ target' = target /\ windowFresh' = windowFresh
      /\ workspace \in Workspaces /\ target[workspace] \in Keys
  BY DEF TypeOK, BreakpointToggled, projectVars
<1>2. GetBreakpoints' = persistent'
  BY <1>1 DEF TypeOK, BreakpointToggled, SaveBreakpoints, GetBreakpoints
<1>3. Marked(marks'[f]) = IF mark = Off THEN Marked(marks[f]) \ {l}
                                        ELSE Marked(marks[f]) \cup {l}
  BY <1>1, OneMark DEF TypeOK, BreakpointToggled
<1>4. persistent'[f] = IF mark = Off THEN persistent[f] \ {l} ELSE persistent[f] \cup {l}
  BY <1>1 DEF TypeOK, BreakpointToggled, Lists
<1>5. \A g \in Files : g # f => marks'[g] = marks[g] /\ persistent'[g] = persistent[g]
  BY DEF TypeOK, BreakpointToggled, Lists
<1> QED BY <1>1, <1>2, <1>3, <1>4, <1>5 DEF ViewsAgree

(* An end of the popover either toggles its line or changes nothing. *)
LEMMA PopoverCases ==
  ASSUME TypeOK, NEW accepted \in BOOLEAN, NEW enabled \in BOOLEAN, NEW c \in Marks,
         PopoverResult(accepted, enabled, c)
  PROVE  \/ /\ popover.file \in open /\ popover.line \in Lines
            /\ \E mark \in Marks : BreakpointToggled(popover.file, popover.line, mark)
         \/ UNCHANGED <<backend, open, marks, persistent, projectVars,
                        stored, adapter, slotVars, gdbVars, session,
                        windowFresh, heldFresh>>
BY DEF TypeOK, PopoverResult, Marks

(* Every step keeps them in agreement, or says that the list is no longer  *)
(* the project's.                                                          *)
LEMMA ViewsStep == TypeOK /\ ViewsAgree /\ [Next]_vars => ViewsAgree'
<1> SUFFICES ASSUME TypeOK, ViewsAgree, [Next]_vars PROVE ViewsAgree'
  OBVIOUS
<1>a. NoCondition \in Marks /\ Off \in Marks
  BY DEF Marks
<1> DEFINE Same == UNCHANGED <<open, marks, persistent, projectVars, stored, windowFresh>>
<1>b. CASE Same
  BY <1>b DEF ViewsAgree, GetBreakpoints, projectVars
<1>1. ASSUME NEW f \in Files, NEW l \in Lines, Click(f, l)
      PROVE  ViewsAgree'
  BY <1>1, <1>a, ToggledViews DEF Click
<1>2. ASSUME NEW f \in Files, NEW l \in Lines, RightClick(f, l)
      PROVE  ViewsAgree'
  BY <1>2, <1>a, <1>b, ToggledViews DEF RightClick
<1>3. ASSUME NEW f \in Files, NEW l \in Lines, ToggleBreakpointCommand(f, l)
      PROVE  ViewsAgree'
  BY <1>3, <1>b DEF ToggleBreakpointCommand
<1>4. CASE ClosePopover
  <2> SUFFICES ASSUME NEW accepted \in BOOLEAN, NEW enabled \in BOOLEAN,
                      NEW c \in Marks, PopoverResult(accepted, enabled, c)
               PROVE  ViewsAgree'
    BY <1>4 DEF ClosePopover, Cancel, Remove, Done, Marks
  <2> QED BY <1>b, PopoverCases, ToggledViews
<1>5. ASSUME NEW f \in Files, OpenFile(f)
      PROVE  ViewsAgree'
  <2>1. Marked(Plain(GetBreakpoints[f])) = GetBreakpoints[f]
    BY StoredType, PlainMarks DEF Lists
  <2> QED BY <1>5, <2>1 DEF OpenFile, TypeOK, ViewsAgree, GetBreakpoints, projectVars
<1>6. ASSUME NEW f \in Files, CloseTab(f)
      PROVE  ViewsAgree'
  BY <1>6 DEF CloseTab, TypeOK, ViewsAgree, GetBreakpoints, projectVars
<1>7. ASSUME NEW w \in Workspaces, OpenWorkspace(w) \/ Restart(w)
      PROVE  ViewsAgree'
  BY <1>7 DEF OpenWorkspace, Restart, ClearAllTabs, ViewsAgree, GetBreakpoints
<1>8. ASSUME NEW w \in Workspaces, NEW b \in Binaries, NewProject(w, b)
      PROVE  ViewsAgree'
  BY <1>8 DEF NewProject, ClearAllTabs, TypeOK, ViewsAgree, GetBreakpoints
<1>9. ASSUME NEW b \in Binaries, AcceptSettings(b)
      PROVE  ViewsAgree'
  BY <1>9 DEF AcceptSettings, TypeOK, ViewsAgree, GetBreakpoints
<1>10. CASE LaunchCommand
  BY <1>10, <1>b DEF LaunchCommand
<1>11. ASSUME NEW f \in Files, TutorialLaunch(f)
       PROVE  ViewsAgree'
  <2>1. Marked(Plain(GetBreakpoints[f])) = GetBreakpoints[f]
    BY StoredType, PlainMarks DEF Lists
  <2> QED BY <1>11, <2>1 DEF TutorialLaunch, TypeOK, ViewsAgree, GetBreakpoints, projectVars
<1>12. CASE SaveSession
  BY <1>12, <1>b DEF SaveSession
<1>13. CASE LoadSession
  BY <1>13 DEF LoadSession, ViewsAgree
<1>14. CASE UNCHANGED vars
  BY <1>14, <1>b DEF vars
<1>15. CASE Gdb
  BY <1>15, <1>b DEF Gdb, Connect, FlushCachedBreakpoints, HandleBkpt, windowVars
<1> QED BY <1>1, <1>2, <1>3, <1>4, <1>5, <1>6, <1>7, <1>8, <1>9, <1>10, <1>11, <1>12,
           <1>13, <1>14, <1>15 DEF Next, Edit, Tab, Project, Start

(* While the window's list was loaded from the open project, gutter,       *)
(* window and workspace.toml agree, for any number of files, projects,     *)
(* clicks and popovers.                                                    *)
THEOREM ViewsAgreeHolds == Spec => []ViewsAgree
<1>1. Init => ViewsAgree
  BY DEF Init, ViewsAgree
<1>2. TypeOK /\ ViewsAgree /\ [Next]_vars => ViewsAgree'
  BY ViewsStep
<1> QED BY <1>1, <1>2, TypeCorrect, PTL DEF Spec

(* A right click that is cancelled leaves no trace in the view, the window *)
(* or the project.                                                         *)
THEOREM CancelRestoresHolds == Spec => CancelRestores
<1> DEFINE Restored ==
      \A f \in Files, l \in Lines :
        windowFresh /\ Untouched(f, l) /\ Cancel =>
          /\ marks'[f][l] = Off
          /\ l \notin persistent'[f]
          /\ l \notin GetBreakpoints'[f]
<1>1. ASSUME TypeOK, ViewsAgree, [Next]_vars
      PROVE  Restored
  <2> SUFFICES ASSUME NEW f \in Files, NEW l \in Lines,
                      windowFresh, Untouched(f, l), Cancel
               PROVE  /\ marks'[f][l] = Off
                      /\ l \notin persistent'[f]
                      /\ l \notin GetBreakpoints'[f]
    OBVIOUS
  <2>1. /\ f \in open /\ popover.file = f /\ popover.line = l /\ ~popover.wasSet
        /\ marks \in [Files -> [Lines -> Marks]]
    BY <1>1 DEF TypeOK, Untouched
  <2>a. \/ BreakpointToggled(f, l, Off)
        \/ /\ marks[f][l] = Off
           /\ UNCHANGED <<open, marks, windowFresh>>
    BY <2>1 DEF Cancel, PopoverResult
  <2>b. open' = open /\ windowFresh' = windowFresh
    BY <2>a DEF BreakpointToggled
  <2>2. marks'[f][l] = Off
    <3>1. f \in Files
      BY <1>1, <2>1 DEF TypeOK
    <3>2. CASE BreakpointToggled(f, l, Off)
      BY <2>1, <3>1, <3>2 DEF BreakpointToggled
    <3> QED BY <2>a, <3>2
  <2>3. ViewsAgree'
    BY <1>1, ViewsStep
  <2>4. l \notin Marked(marks'[f])
    BY <2>2 DEF Marked
  <2>5. persistent'[f] = Marked(marks'[f]) /\ persistent' = GetBreakpoints'
    BY <2>1, <2>b, <2>3 DEF ViewsAgree
  <2> QED BY <2>2, <2>4, <2>5
<1>2. TypeOK /\ ViewsAgree /\ [Next]_vars => [Restored]_vars
  BY <1>1
<1> QED BY <1>2, TypeCorrect, ViewsAgreeHolds, PTL DEF Spec, CancelRestores

-----------------------------------------------------------------------------
(* Saving.                                                                 *)

(* A step that saves, saves the list of the window with one line toggled   *)
(* for the project's target.                                               *)
LEMMA SavesOne ==
  ASSUME TypeOK, ViewsAgree, windowFresh, NEW h \in open, NEW line \in Lines,
         NEW mark \in Marks, BreakpointToggled(h, line, mark),
         NEW w \in Workspaces, NEW k \in Keys, NEW f \in Files,
         stored'[w][k][f] # stored[w][k][f]
  PROVE  /\ w = workspace /\ k = target[workspace] /\ f = h
         /\ stored'[w][k][f] \ {line} = stored[w][k][f] \ {line}
<1>1. h \in Files /\ workspace \in Workspaces /\ target[workspace] \in Keys
  BY DEF TypeOK
<1>2. /\ persistent = stored[workspace][target[workspace]]
      /\ persistent \in [Files -> SUBSET Lines]
      /\ persistent' = [persistent EXCEPT ![h] = IF mark = Off THEN @ \ {line}
                                                               ELSE @ \cup {line}]
      /\ stored' = [stored EXCEPT ![workspace] =
                      [@ EXCEPT ![target[workspace]] = persistent']]
      /\ stored \in [Workspaces -> [Keys -> Lists]]
  BY DEF TypeOK, ViewsAgree, GetBreakpoints, BreakpointToggled, SaveBreakpoints, Lists
<1>3. w = workspace /\ k = target[workspace]
  BY <1>1, <1>2
<1>4. stored'[w][k] = persistent' /\ stored[w][k] = persistent
  BY <1>1, <1>2, <1>3
<1>5. f = h
  <2>1. persistent'[f] # persistent[f]
    BY <1>4
  <2>2. f # h => persistent'[f] = persistent[f]
    BY <1>2
  <2> QED BY <2>1, <2>2
<1>6. persistent'[h] \ {line} = persistent[h] \ {line}
  <2>1. persistent'[h] = IF mark = Off THEN persistent[h] \ {line}
                                       ELSE persistent[h] \cup {line}
    BY <1>1, <1>2
  <2> QED BY <2>1
<1> QED BY <1>3, <1>4, <1>5, <1>6

(* Whole lists are saved, and still a step changes the saved breakpoints   *)
(* of one line of one file, binary and workspace.                          *)
THEOREM SavesOneLineHolds == Spec => SavesOneLine
<1> DEFINE OneLine ==
      windowFresh =>
        \A w, v \in Workspaces, k, j \in Keys, f, g \in Files :
          /\ stored'[w][k][f] # stored[w][k][f]
          /\ stored'[v][j][g] # stored[v][j][g]
          => /\ w = v /\ k = j /\ f = g
             /\ \E l \in Lines : stored'[w][k][f] \ {l} = stored[w][k][f] \ {l}
<1>1. ASSUME TypeOK, [Next]_vars
      PROVE  \/ UNCHANGED stored
             \/ \E h \in open, l \in Lines, m \in Marks : BreakpointToggled(h, l, m)
  <2>a. NoCondition \in Marks /\ Off \in Marks
    BY DEF Marks
  <2>1. CASE Edit
    BY <2>1, <2>a DEF Edit, Click, RightClick, ToggleBreakpointCommand
  <2>2. CASE ClosePopover
    <3> SUFFICES ASSUME NEW accepted \in BOOLEAN, NEW enabled \in BOOLEAN,
                        NEW c \in Marks, PopoverResult(accepted, enabled, c)
                 PROVE  \/ UNCHANGED stored
                        \/ \E h \in open, l \in Lines, m \in Marks :
                             BreakpointToggled(h, l, m)
      BY <2>2 DEF ClosePopover, Cancel, Remove, Done, Marks
    <3> QED BY <1>1, PopoverCases
  <2>3. CASE Tab
    BY <2>3 DEF Tab, OpenFile, CloseTab
  <2>4. CASE Project
    BY <2>4 DEF Project, OpenWorkspace, Restart, NewProject, AcceptSettings
  <2>5. CASE Start
    BY <2>5 DEF Start, LaunchCommand, TutorialLaunch
  <2>6. CASE SaveSession \/ LoadSession
    BY <2>6 DEF SaveSession, LoadSession
  <2>7. CASE UNCHANGED vars
    BY <2>7 DEF vars
  <2>8. CASE Gdb
    BY <2>8 DEF Gdb, Connect, FlushCachedBreakpoints, HandleBkpt, windowVars
  <2> QED BY <1>1, <2>1, <2>2, <2>3, <2>4, <2>5, <2>6, <2>7, <2>8 DEF Next
<1>2. ASSUME TypeOK, ViewsAgree, [Next]_vars
      PROVE  OneLine
  <2>1. CASE UNCHANGED stored
    BY <2>1
  <2>2. ASSUME NEW h \in open, NEW l \in Lines, NEW m \in Marks,
               BreakpointToggled(h, l, m)
        PROVE  OneLine
    BY <1>2, <2>2, SavesOne
  <2> QED BY <1>1, <1>2, <2>1, <2>2
<1>3. TypeOK /\ ViewsAgree /\ [Next]_vars => [OneLine]_vars
  BY <1>2
<1> QED BY <1>3, TypeCorrect, ViewsAgreeHolds, PTL DEF Spec, SavesOneLine

-----------------------------------------------------------------------------
(* The rank.                                                               *)

(* gdb reports a location under no other location it may be asked for:     *)
(* broadcastBreakpoint finds what it deletes by the location reported.     *)
Faithful == \A k, j \in Locations : Reported[k] = j => k = j

(* What the ranks' agreement rests on: a breakpoint is reported as gdb     *)
(* reports its location; where gdb names the location as asked and it was  *)
(* not asked about too early gdb has one breakpoint at most; and gdb has   *)
(* none before it is connected.                                            *)
HeldRight ==
  /\ \A b \in held : b.at = Reported[b.loc]
  /\ \A k \in Locations \ crossed :
       Reported[k] = k => \A b, c \in Here(k) : b = c
  /\ rank \in {"none", "launching"} => held = {}

(* A broadcast deletes what gdb has at the locations, if their replies     *)
(* were handled, and nothing else.                                         *)
LEMMA DeletedHere ==
  ASSUME Faithful, TypeOK, HeldRight, NEW k \in Locations
  PROVE  /\ Deleted(k) \subseteq Here(k)
         /\ Reported[k] = k /\ k \notin crossed /\ (\A b \in Here(k) : b.answered)
              => Deleted(k) = Here(k)
<1>0. \A b \in held : b.loc \in Locations /\ b.n \in Nat
  BY DEF TypeOK, Bkpts
<1>1. ASSUME NEW b \in Deleted(k)
      PROVE  b \in Here(k)
  <2>1. b \in held /\ b.at = k /\ b.loc \in Locations
    BY <1>0 DEF Deleted, Recorded
  <2>2. Reported[b.loc] = k
    BY <2>1 DEF HeldRight
  <2> QED BY <2>1, <2>2 DEF Faithful, Here
<1>2. ASSUME Reported[k] = k, k \notin crossed, \A b \in Here(k) : b.answered,
             NEW b \in Here(k)
      PROVE  b \in Deleted(k)
  <2>1. b \in held /\ b.loc = k /\ b.answered /\ b.at = k /\ b.n \in Nat
    BY <1>0, <1>2 DEF Here, HeldRight
  <2>2. ASSUME NEW c \in Recorded(k)
        PROVE  c = b
    <3>1. c \in held /\ c.at = k /\ c.loc \in Locations
      BY <1>0 DEF Recorded
    <3>2. c \in Here(k)
      BY <3>1 DEF HeldRight, Faithful, Here
    <3> QED BY <1>2, <3>2 DEF HeldRight
  <2>3. b \in Recorded(k)
    BY <2>1 DEF Recorded
  <2>4. \A c \in Recorded(k) : b.n <= c.n
    BY <2>1, <2>2
  <2> QED BY <2>3, <2>4 DEF Deleted
<1> QED BY <1>1, <1>2

(* What a batch of broadcasts leaves at a location. *)
LEMMA BroadcastAt ==
  ASSUME Faithful, TypeOK, HeldRight, NEW locs \in SUBSET Locations,
         NEW isSet \in BOOLEAN, BroadcastAll(locs, isSet), rank # "none",
         NEW k \in Locations
  PROVE  /\ Here(k)' = (Here(k) \ (IF k \in locs THEN Deleted(k) ELSE {}))
                         \cup (IF isSet /\ k \in Taken(locs) THEN AskedFor({k}) ELSE {})
         /\ crossed \subseteq crossed'
         /\ k \in locs \ crossed' => \A b \in Here(k) : b.answered
<1>1. /\ held' = (held \ UNION {Deleted(j) : j \in locs})
                   \cup (IF isSet THEN AskedFor(Taken(locs)) ELSE {})
      /\ crossed' = crossed \cup {j \in locs : \E b \in Here(j) : ~b.answered}
  BY DEF BroadcastAll
<1>2. \A j \in locs : \A b \in Deleted(j) : b.loc = j
  BY DeletedHere DEF Here
<1>3. \A b \in held : b.loc = k =>
        (b \in UNION {Deleted(j) : j \in locs} <=> k \in locs /\ b \in Deleted(k))
  BY <1>2
<1>4. \A b : b \in AskedFor(Taken(locs)) /\ b.loc = k
              <=> k \in Taken(locs) /\ b \in AskedFor({k})
  BY DEF AskedFor
<1>5. Here(k)' = {b \in held' : b.loc = k}
  BY DEF Here
<1>6. ASSUME NEW b
      PROVE  b \in Here(k)' <=>
               \/ b \in Here(k) /\ ~(k \in locs /\ b \in Deleted(k))
               \/ isSet /\ k \in Taken(locs) /\ b \in AskedFor({k})
  BY <1>1, <1>3, <1>4, <1>5 DEF Here
<1>7. Here(k)' = (Here(k) \ (IF k \in locs THEN Deleted(k) ELSE {}))
                  \cup (IF isSet /\ k \in Taken(locs) THEN AskedFor({k}) ELSE {})
  BY <1>6
<1> QED BY <1>1, <1>7

(* Broadcasts keep what the agreement rests on. *)
LEMMA BroadcastKeeps ==
  ASSUME Faithful, TypeOK, HeldRight, NEW locs \in SUBSET Locations,
         NEW isSet \in BOOLEAN, BroadcastAll(locs, isSet), UNCHANGED rank
  PROVE  HeldRight'
<1>1. CASE rank = "none"
  <2>1. UNCHANGED gdbVars
    BY <1>1 DEF BroadcastAll
  <2> QED BY <2>1 DEF gdbVars, HeldRight, Here
<1>2. CASE rank # "none"
  <2>1. /\ held' = (held \ UNION {Deleted(j) : j \in locs})
                     \cup (IF isSet THEN AskedFor(Taken(locs)) ELSE {})
    BY <1>2 DEF BroadcastAll
  <2>2. \A b \in held' : b.at = Reported[b.loc]
    BY <2>1 DEF AskedFor, HeldRight
  <2>3. rank \in {"none", "launching"} => held' = {}
    BY <2>1 DEF HeldRight, AskedFor, Taken
  <2>4. ASSUME NEW k \in Locations, k \notin crossed', Reported[k] = k,
               NEW b \in Here(k)', NEW c \in Here(k)'
        PROVE  b = c
    <3>0. /\ Here(k)' = (Here(k) \ (IF k \in locs THEN Deleted(k) ELSE {}))
                           \cup (IF isSet /\ k \in Taken(locs) THEN AskedFor({k}) ELSE {})
          /\ crossed \subseteq crossed'
          /\ k \in locs \ crossed' => \A d \in Here(k) : d.answered
      BY <1>2, <2>4, BroadcastAt
    <3>1. k \notin crossed
      BY <2>4, <3>0
    <3>2. CASE k \notin locs
      <4>1. Here(k)' = Here(k)
        BY <3>0, <3>2 DEF Taken
      <4> QED BY <2>4, <3>1, <4>1 DEF HeldRight
    <3>3. CASE k \in locs
      <4>1. Deleted(k) = Here(k)
        BY <2>4, <3>0, <3>1, <3>3, DeletedHere
      <4>2. Here(k)' \subseteq AskedFor({k})
        BY <3>0, <3>3, <4>1
      <4> QED BY <2>4, <4>2 DEF AskedFor
    <3> QED BY <3>2, <3>3
  <2> QED BY <2>2, <2>3, <2>4 DEF HeldRight
<1> QED BY <1>1, <1>2

(* A toggle reaches the rank there is. *)
LEMMA ToggledRanks ==
  ASSUME Faithful, TypeOK, HeldRight, RanksAgree, NEW f \in open, NEW l \in Lines,
         NEW mark \in Marks, BreakpointToggled(f, l, mark)
  PROVE  RanksAgree' /\ HeldRight'
<1> DEFINE loc == <<f, l>>
           isSet == mark # Off
<1>0. /\ f \in Files /\ loc \in Locations /\ isSet \in BOOLEAN
      /\ backend' = backend /\ rank' = rank /\ heldFresh' = heldFresh
      /\ {loc} \in SUBSET Locations
  BY DEF TypeOK, BreakpointToggled, Locations, slotVars
<1>1. CASE backend # "gdb"
  <2>1. UNCHANGED <<held, crossed, rank>>
    BY <1>0, <1>1 DEF BreakpointToggled, Send, gdbVars
  <2> QED BY <1>0, <1>1, <2>1 DEF RanksAgree, HeldRight, Here
<1>2. CASE backend = "gdb"
  <2>1. BroadcastAll({loc}, isSet)
    BY <1>2 DEF BreakpointToggled, Send, Broadcast
  <2>2. HeldRight'
    BY <1>0, <2>1, BroadcastKeeps
  <2> SUFFICES ASSUME rank = "synced", heldFresh, NEW g \in Files, NEW m \in Lines
               PROVE  /\ m \in persistent'[g] /\ Reported[<<g, m>>] # Pending
                            => Here(<<g, m>>)' # {}
                      /\ Reported[<<g, m>>] = <<g, m>> /\ <<g, m>> \notin crossed' =>
                           /\ \A b, c \in Here(<<g, m>>)' : b = c
                           /\ Here(<<g, m>>)' # {} => m \in persistent'[g]
    BY <1>0, <2>2 DEF RanksAgree
  <2> DEFINE k == <<g, m>>
  <2>3. k \in Locations /\ (k = loc <=> g = f /\ m = l)
    BY DEF Locations
  <2>4. /\ Here(k)' = (Here(k) \ (IF k \in {loc} THEN Deleted(k) ELSE {}))
                         \cup (IF isSet /\ k \in Taken({loc}) THEN AskedFor({k}) ELSE {})
        /\ crossed \subseteq crossed'
        /\ k \in {loc} \ crossed' => \A b \in Here(k) : b.answered
    BY <1>0, <2>1, <2>3, BroadcastAt
  <2>5. persistent'[g] = IF g # f THEN persistent[g]
                         ELSE IF isSet THEN persistent[g] \cup {l} ELSE persistent[g] \ {l}
    BY <1>0 DEF BreakpointToggled, TypeOK, Lists
  <2>6. Reported[k] = k /\ k \notin crossed' => \A b, c \in Here(k)' : b = c
    BY <2>2, <2>3 DEF HeldRight
  <2>7. CASE k # loc
    <3>1. Here(k)' = Here(k) /\ (m \in persistent'[g] <=> m \in persistent[g])
      BY <2>3, <2>4, <2>5, <2>7 DEF Taken
    <3>2. /\ m \in persistent[g] /\ Reported[k] # Pending => Here(k) # {}
          /\ Reported[k] = k /\ k \notin crossed /\ Here(k) # {} => m \in persistent[g]
      BY <1>2 DEF RanksAgree
    <3> QED BY <2>4, <2>6, <3>1, <3>2
  <2>8. CASE k = loc
    <3>1. m \in persistent'[g] <=> isSet
      BY <2>3, <2>5, <2>8
    <3>2. isSet /\ Reported[k] # Pending => Here(k)' # {}
      BY <2>4, <2>8 DEF Taken, AskedFor
    <3>3. Reported[k] = k /\ k \notin crossed' => Deleted(k) = Here(k)
      BY <2>3, <2>4, <2>8, DeletedHere
    <3>4. Reported[k] = k /\ k \notin crossed' /\ ~isSet => Here(k)' = {}
      BY <2>4, <2>8, <3>3
    <3> QED BY <2>6, <3>1, <3>2, <3>4
  <2> QED BY <2>7, <2>8
<1> QED BY <1>1, <1>2

(* A fresh rank has nothing yet. *)
LEMMA LaunchedRanks ==
  ASSUME RanksAgree, HeldRight, NEW b, Launch(b), backend' = backend
  PROVE  RanksAgree' /\ HeldRight'
<1>1. CASE backend = "gdb"
  <2>1. rank' = "launching" /\ held' = {}
    BY <1>1 DEF Launch
  <2> QED BY <2>1 DEF RanksAgree, HeldRight, Here
<1>2. CASE backend # "gdb"
  <2>1. UNCHANGED <<rank, held, crossed>>
    BY <1>2 DEF Launch, slotVars, gdbVars
  <2> QED BY <1>2, <2>1 DEF RanksAgree, HeldRight, Here
<1> QED BY <1>1, <1>2

(* The flush asks for the list saved; what was asked for before is crossed. *)
LEMMA FlushRanks ==
  ASSUME TypeOK, HeldRight, FlushCachedBreakpoints
  PROVE  RanksAgree' /\ HeldRight'
<1> DEFINE lists == stored[workspace][binary]
           locs == {k \in Locations : k[2] \in lists[k[1]]}
<1>1. /\ held' = held \cup AskedFor(locs) /\ crossed' = crossed \cup {b.loc : b \in held}
      /\ heldFresh' = (lists = persistent) /\ persistent' = persistent
      /\ rank' = "synced"
  BY DEF FlushCachedBreakpoints, windowVars
<1>2. \A b \in AskedFor(locs) : b.loc \in locs /\ b.at = Reported[b.loc]
  BY DEF AskedFor
<1>3. \A b \in held' : b.at = Reported[b.loc]
  BY <1>1, <1>2 DEF HeldRight
<1>4. ASSUME NEW k \in Locations
      PROVE  /\ k \notin crossed' => Here(k)' \subseteq AskedFor(locs)
             /\ k \in locs => Here(k)' # {}
  <2>1. k \notin crossed' => \A b \in held : b.loc # k
    BY <1>1
  <2>2. ASSUME k \in locs
        PROVE  \E b \in AskedFor(locs) : b.loc = k
    <3> DEFINE b == [n |-> asked, loc |-> k, at |-> Reported[k], answered |-> FALSE]
    <3>1. b \in AskedFor(locs) /\ b.loc = k
      BY <2>2 DEF AskedFor
    <3> QED BY <3>1
  <2> QED BY <1>1, <2>1, <2>2 DEF Here
<1>5. ASSUME NEW k \in Locations, k \notin crossed', NEW b \in Here(k)', NEW c \in Here(k)'
      PROVE  b = c /\ k \in locs
  <2>1. b \in AskedFor(locs) /\ c \in AskedFor(locs) /\ b.loc = k /\ c.loc = k
    BY <1>4, <1>5 DEF Here
  <2>2. \A d \in AskedFor(locs) :
          d = [n |-> asked, loc |-> d.loc, at |-> Reported[d.loc], answered |-> FALSE]
    BY DEF AskedFor
  <2>3. b = c
    BY <2>1, <2>2
  <2> QED BY <1>2, <2>1, <2>3
<1>6. HeldRight'
  BY <1>1, <1>3, <1>5 DEF HeldRight
<1>7. ASSUME heldFresh', NEW f \in Files, NEW l \in Lines
      PROVE  <<f, l>> \in Locations /\ (<<f, l>> \in locs <=> l \in persistent'[f])
  BY <1>1, <1>7 DEF Locations
<1> QED BY <1>4, <1>5, <1>6, <1>7 DEF RanksAgree

(* A reply handled is told of a breakpoint gdb has. *)
LEMMA AnsweredRanks ==
  ASSUME TypeOK, RanksAgree, HeldRight, HandleBkpt
  PROVE  RanksAgree' /\ HeldRight'
<1>1. PICK b \in held : held' = (held \ {b}) \cup {[b EXCEPT !.answered = TRUE]}
  BY DEF HandleBkpt
<1> DEFINE a == [b EXCEPT !.answered = TRUE]
<1>2. b \in Bkpts /\ a.loc = b.loc /\ a.at = b.at
  BY DEF TypeOK, Bkpts
<1>3. UNCHANGED <<backend, persistent, rank, crossed, heldFresh>>
  BY DEF HandleBkpt, windowVars
<1> HIDE DEF a
<1>4. held' = (held \ {b}) \cup {a}
  BY <1>1 DEF a
<1>5. \A c \in held' : c.at = Reported[c.loc]
  BY <1>2, <1>4 DEF HeldRight
<1>6. ASSUME NEW k
      PROVE  /\ Here(k)' = {} <=> Here(k) = {}
             /\ (\A c, d \in Here(k) : c = d) => \A c, d \in Here(k)' : c = d
  BY <1>2, <1>4 DEF Here
<1>7. HeldRight'
  BY <1>3, <1>5, <1>6, <1>4 DEF HeldRight
<1> QED BY <1>3, <1>6, <1>7 DEF RanksAgree

(* Every step keeps the rank at the window's list, or says that it was     *)
(* given another.                                                          *)
LEMMA RanksStep ==
  ASSUME Faithful, TypeOK, RanksAgree, HeldRight, [Next]_vars
  PROVE  RanksAgree' /\ HeldRight'
<1> DEFINE Agree == RanksAgree' /\ HeldRight'
<1>a. NoCondition \in Marks /\ Off \in Marks
  BY DEF Marks
<1>b. CASE UNCHANGED <<backend, persistent, slotVars, gdbVars, heldFresh>>
  BY <1>b DEF RanksAgree, HeldRight, Here, slotVars, gdbVars
<1>c. CASE backend = "dap" /\ backend' = backend /\ UNCHANGED <<slotVars, gdbVars>>
  BY <1>c DEF RanksAgree, HeldRight, Here, slotVars, gdbVars
<1>1. CASE Edit
  <2> SUFFICES ASSUME NEW f \in Files, NEW l \in Lines,
                      \/ Click(f, l) \/ RightClick(f, l)
                      \/ ToggleBreakpointCommand(f, l)
               PROVE  Agree
    BY <1>1 DEF Edit
  <2>1. CASE Click(f, l)
    BY <1>a, <2>1, ToggledRanks DEF Click
  <2>2. CASE RightClick(f, l)
    BY <1>a, <1>b, <2>2, ToggledRanks DEF RightClick
  <2>3. CASE ToggleBreakpointCommand(f, l)
    BY <1>c, <2>3 DEF ToggleBreakpointCommand
  <2> QED BY <2>1, <2>2, <2>3
<1>2. CASE ClosePopover
  <2> SUFFICES ASSUME NEW accepted \in BOOLEAN, NEW enabled \in BOOLEAN,
                      NEW c \in Marks, PopoverResult(accepted, enabled, c)
               PROVE  Agree
    BY <1>2 DEF ClosePopover, Cancel, Remove, Done, Marks
  <2> QED BY <1>b, PopoverCases, ToggledRanks
<1>3. CASE Tab
  BY <1>3, <1>b DEF Tab, OpenFile, CloseTab
<1>4. ASSUME NEW w \in Workspaces, OpenWorkspace(w)
      PROVE  Agree
  <2>1. /\ UNCHANGED <<backend, slotVars, gdbVars>>
        /\ heldFresh' => heldFresh /\ persistent' = persistent
    BY <1>4 DEF OpenWorkspace
  <2> QED BY <2>1 DEF RanksAgree, HeldRight, Here, slotVars, gdbVars
<1>5. ASSUME NEW w \in Workspaces, Restart(w)
      PROVE  Agree
  BY <1>5 DEF Restart, RanksAgree, HeldRight, Here
<1>6. ASSUME NEW w \in Workspaces, NEW b \in Binaries, NewProject(w, b)
      PROVE  Agree
  BY <1>6, LaunchedRanks DEF NewProject
<1>7. CASE \E b \in Binaries : AcceptSettings(b)
  BY <1>7, <1>b DEF AcceptSettings
<1>8. CASE LaunchCommand
  <2>1. PICK b : Launch(b) /\ backend' = backend
    BY <1>8 DEF LaunchCommand
  <2> QED BY <2>1, LaunchedRanks
<1>9. ASSUME NEW f \in Files, TutorialLaunch(f)
      PROVE  Agree
  BY <1>9, LaunchedRanks DEF TutorialLaunch
<1>10. CASE SaveSession
  BY <1>10, <1>b DEF SaveSession
<1>11. CASE LoadSession
  <2> DEFINE locs == {k \in Locations : k[2] \in session[k[1]]}
  <2>1. heldFresh' = FALSE /\ rank' = rank /\ SendAll(session)
    BY <1>11 DEF LoadSession, slotVars
  <2>2. RanksAgree'
    BY <2>1 DEF RanksAgree
  <2>3. CASE BroadcastAll(locs, TRUE)
    <3>1. locs \in SUBSET Locations
      OBVIOUS
    <3> HIDE DEF locs
    <3>2. HeldRight'
      BY <2>1, <2>3, <3>1, BroadcastKeeps
    <3> QED BY <2>2, <3>2
  <2>4. CASE UNCHANGED gdbVars
    <3>1. HeldRight'
      BY <2>1, <2>4 DEF HeldRight, Here, gdbVars
    <3> QED BY <2>2, <3>1
  <2> QED BY <2>1, <2>2, <2>3, <2>4 DEF SendAll
<1>12. CASE Connect
  BY <1>12 DEF Connect, RanksAgree, HeldRight, Here, gdbVars
<1>13. CASE FlushCachedBreakpoints
  BY <1>13, FlushRanks
<1>14. CASE HandleBkpt
  BY <1>14, AnsweredRanks
<1>15. CASE UNCHANGED vars
  BY <1>15, <1>b DEF vars
<1> QED BY <1>1, <1>2, <1>3, <1>4, <1>5, <1>6, <1>7, <1>8, <1>9, <1>10, <1>11, <1>12,
           <1>13, <1>14, <1>15 DEF Next, Project, Start, Gdb

(* A rank that was flushed with the window's list has each of its          *)
(* breakpoints that gdb can resolve, and stops at no other where gdb names *)
(* the location as asked and its replies were not overtaken, whatever was  *)
(* clicked, opened and launched since, if gdb reports no location as       *)
(* another one of the program.                                             *)
THEOREM RanksAgreeHolds == ASSUME Faithful PROVE Spec => []RanksAgree
<1>1. Init => RanksAgree /\ HeldRight
  BY DEF Init, RanksAgree, HeldRight, Here
<1>2. TypeOK /\ (RanksAgree /\ HeldRight) /\ [Next]_vars => (RanksAgree /\ HeldRight)'
  BY RanksStep
<1>3. Spec => [](RanksAgree /\ HeldRight)
  BY <1>1, <1>2, TypeCorrect, PTL DEF Spec
<1> QED BY <1>3, PTL

=============================================================================

-------------------------- MODULE GdbSession_proofs --------------------------
(***************************************************************************)
(* Proofs about GdbSession, for every number of ranks, sessions, edits and *)
(* stops, and whatever locations gdb reports.                              *)
(***************************************************************************)
EXTENDS GdbSession, TLAPS, FiniteSetTheorems, WellFoundedInduction

(* gdb reports a location, or that it has none yet. *)
LEMMA ReportedType == \A l \in Lines : Reported[l] \in Locations
BY DEF Locations

(* Every command the coordinator writes is one. *)
LEMMA CommandsType ==
  /\ \A s \in 1..MaxLaunches : Connect(s) \in Commands
  /\ \A l \in Lines : Insert(l) \in Commands /\ FlushOf(l) \in Commands
  /\ \A id \in Nat \ {0} : Delete(id) \in Commands
  /\ Exec("continue") \in Commands /\ Exec("interrupt") \in Commands
<1>1. \A s \in 1..MaxLaunches : Connect(s) \in Commands
  BY DEF Connect, Commands
<1>2. \A l \in Lines : Insert(l) \in Commands /\ FlushOf(l) \in Commands
  BY DEF Insert, FlushOf, Commands
<1>3. \A id \in Nat \ {0} : Delete(id) \in Commands
  BY DEF Delete, Commands
<1>4. Exec("continue") \in Commands /\ Exec("interrupt") \in Commands
  BY DEF Exec, Commands
<1> QED BY <1>1, <1>2, <1>3, <1>4

(* Every record gdb prints is one. *)
LEMMA RecordsType ==
  /\ \A b \in Breakpoint : Bkpt(b) \in Records
  /\ \A mp \in BOOLEAN : Stopped(mp) \in Records
  /\ Plain("running") \in Records /\ Plain("exited") \in Records
  /\ Plain("refused") \in Records
<1>1. \A b \in Breakpoint : Bkpt(b) \in Records
  BY DEF Bkpt, Records
<1>2. \A mp \in BOOLEAN : Stopped(mp) \in Records
  BY DEF Stopped, Records
<1>3. /\ Plain("running") \in Records /\ Plain("exited") \in Records
      /\ Plain("refused") \in Records
  BY DEF Plain, Records
<1> QED BY <1>1, <1>2, <1>3

(* A flush writes commands only. *)
LEMMA FlushType ==
  ASSUME persisted \subseteq Lines, NEW cmds \in FlushCommands
  PROVE  /\ cmds \in Seq(Commands)
         /\ \A i \in 1..Len(cmds) : cmds[i].name = "flush"
<1>1. Cardinality(persisted) \in Nat
  BY GdbAssumption, FS_Subset, FS_CardinalityType
<1>2. PICK order \in [1..Cardinality(persisted) -> persisted] :
        cmds = [i \in 1..Cardinality(persisted) |-> FlushOf(order[i])]
  BY DEF FlushCommands
<1>3. \A i \in 1..Cardinality(persisted) : order[i] \in Lines
  OBVIOUS
<1>4. \A i \in 1..Cardinality(persisted) :
        cmds[i] \in Commands /\ cmds[i].name = "flush"
  BY <1>2, <1>3, CommandsType DEF FlushOf
<1> QED BY <1>1, <1>2, <1>4

(* What writing, taking, reading and printing do to the types of the pipes *)
(* between the coordinator and a gdb.                                      *)
LEMMA PipesType ==
  ASSUME TypeOK, NEW r \in Ranks
  PROVE  /\ \A cmds \in Seq(Commands) :
              Write(r, cmds) => toGdb' \in [Ranks -> Seq(Commands)]
         /\ \A records \in Seq(Records) :
              Emit(r, records) => fromGdb' \in [Ranks -> Seq(Records)]
         /\ \A kind : Take(r, kind) =>
              /\ fromGdb' \in [Ranks -> Seq(Records)]
              /\ Head(fromGdb[r]) \in Records
              /\ Head(fromGdb[r]).kind = kind
         /\ \A names : Reads(r, names) =>
              /\ toGdb' \in [Ranks -> Seq(Commands)]
              /\ Head(toGdb[r]) \in Commands
              /\ Head(toGdb[r]).name \in names
<1>1. toGdb \in [Ranks -> Seq(Commands)] /\ fromGdb \in [Ranks -> Seq(Records)]
  BY DEF TypeOK
<1>2. toGdb[r] \in Seq(Commands) /\ fromGdb[r] \in Seq(Records)
  BY <1>1
<1>3. \A cmds \in Seq(Commands) :
        Write(r, cmds) => toGdb' \in [Ranks -> Seq(Commands)]
  <2> SUFFICES ASSUME NEW cmds \in Seq(Commands), Write(r, cmds)
               PROVE  toGdb' \in [Ranks -> Seq(Commands)]
    OBVIOUS
  <2>1. toGdb[r] \o cmds \in Seq(Commands)
    BY <1>2
  <2> QED BY <1>1, <1>2, <2>1 DEF Write
<1>4. \A records \in Seq(Records) :
        Emit(r, records) => fromGdb' \in [Ranks -> Seq(Records)]
  <2> SUFFICES ASSUME NEW records \in Seq(Records), Emit(r, records)
               PROVE  fromGdb' \in [Ranks -> Seq(Records)]
    OBVIOUS
  <2>1. fromGdb[r] \o records \in Seq(Records)
    BY <1>2
  <2> QED BY <1>1, <2>1 DEF Emit
<1>5. ASSUME NEW kind, Take(r, kind)
      PROVE  /\ fromGdb' \in [Ranks -> Seq(Records)]
             /\ Head(fromGdb[r]) \in Records
             /\ Head(fromGdb[r]).kind = kind
  <2>1. fromGdb[r] # <<>>
    BY <1>5 DEF Take
  <2>2. Tail(fromGdb[r]) \in Seq(Records) /\ Head(fromGdb[r]) \in Records
    BY <1>2, <2>1
  <2> QED BY <1>1, <1>5, <2>2 DEF Take
<1>6. ASSUME NEW names, Reads(r, names)
      PROVE  /\ toGdb' \in [Ranks -> Seq(Commands)]
             /\ Head(toGdb[r]) \in Commands
             /\ Head(toGdb[r]).name \in names
  <2>1. toGdb[r] # <<>>
    BY <1>6 DEF Reads
  <2>2. Tail(toGdb[r]) \in Seq(Commands) /\ Head(toGdb[r]) \in Commands
    BY <1>2, <2>1
  <2> QED BY <1>1, <1>6, <2>2 DEF Reads
<1> QED BY <1>3, <1>4, <1>5, <1>6

(* A single record can be printed. *)
LEMMA OneRecord == \A m \in Records : <<m>> \in Seq(Records)
OBVIOUS

(* What each kind of record and command carries. *)
LEMMA RecordFields ==
  ASSUME NEW m \in Records
  PROVE  /\ m.mapped \in BOOLEAN
         /\ m.kind = "bkpt" => m.bp \in Breakpoint
BY DEF Records

(* What each kind of command carries. *)
LEMMA CommandFields ==
  ASSUME NEW c \in Commands
  PROVE  /\ c.name \in {"insert", "flush"} => c.line \in Lines
         /\ c.name = "connect" => c.n \in 1..MaxLaunches
         /\ c.name = "delete" => c.n \in Nat \ {0}
BY DEF Commands

(* Taking an entry out of the table, or a reply into it, keeps its type. *)
LEMMA TableType ==
  ASSUME TypeOK, NEW r \in Ranks
  PROVE  /\ \A id : TableWithout(r, id) \subseteq [id : Nat \ {0}, at : Locations \ {Pending}]
         /\ \A b \in Breakpoint :
              TableWith(r, b) \subseteq [id : Nat \ {0}, at : Locations \ {Pending}]
         /\ \A line : Victims(r, line) \subseteq Nat
<1>1. breakpoints[r] \subseteq [id : Nat \ {0}, at : Locations \ {Pending}]
  BY DEF TypeOK
<1> QED BY <1>1 DEF TableWithout, TableWith, Victims, Breakpoint

(* The initial state is well typed. *)
LEMMA InitType == Init => TypeOK
<1> SUFFICES ASSUME Init PROVE TypeOK
  OBVIOUS
<1>1. spent \in [DOMAIN Bounds -> Nat]
  BY DEF Init
<1>2. <<>> \in Seq(Commands) /\ <<>> \in Seq(Records)
  OBVIOUS
<1>3. timers \in [Ranks -> [1..MaxLaunches -> Nat]]
  BY DEF Init
<1>4. sessions \in 0..MaxLaunches
  BY GdbAssumption DEF Init
<1>5. /\ currentState \in [Ranks -> States]
      /\ server \in [Ranks -> {"none", "starting", "listening", "attached", "gone"}]
      /\ target \in [Ranks -> {"unattached", "stopped", "running", "over"}]
  BY DEF Init, States
<1>6. /\ toGdb \in [Ranks -> Seq(Commands)]
      /\ fromGdb \in [Ranks -> Seq(Records)]
  BY <1>2 DEF Init
<1>7. /\ breakpoints \in [Ranks -> SUBSET [id : Nat \ {0}, at : Locations \ {Pending}]]
      /\ gdbBps \in [Ranks -> SUBSET Breakpoint]
  BY DEF Init
<1>8. /\ synced \in [Ranks -> BOOLEAN] /\ located \in [Ranks -> BOOLEAN]
      /\ pendingBreakpoints \in [Ranks -> Int] /\ nextId \in [Ranks -> Nat \ {0}]
  BY DEF Init
<1>9. persisted \subseteq Lines /\ launched \in BOOLEAN
  BY DEF Init
<1> QED BY <1>1, <1>3, <1>4, <1>5, <1>6, <1>7, <1>8, <1>9 DEF TypeOK

(* Spending a bound keeps the record of what is spent. *)
LEMMA SpendType ==
  ASSUME TypeOK, NEW what \in DOMAIN Bounds, Spend(what)
  PROVE  spent' \in [DOMAIN Bounds -> Nat]
BY DEF TypeOK, Spend

(* Arming or firing a timer keeps their type. *)
LEMMA TimersType ==
  ASSUME TypeOK, NEW r \in Ranks, NEW s \in Int
  PROVE  /\ [timers[r] EXCEPT ![s] = @ + 1] \in [1..MaxLaunches -> Nat]
         /\ timers[r][s] > 0 =>
              [timers[r] EXCEPT ![s] = @ - 1] \in [1..MaxLaunches -> Nat]
<1>1. timers[r] \in [1..MaxLaunches -> Nat]
  BY DEF TypeOK
<1>2. \A i \in 1..MaxLaunches : timers[r][i] \in Nat
  BY <1>1
<1> DEFINE t == timers[r]
<1> HIDE DEF t
<1>3. [t EXCEPT ![s] = @ + 1] \in [1..MaxLaunches -> Nat]
  <2>1. CASE s \in 1..MaxLaunches
    BY <1>1, <1>2, <2>1, GdbAssumption DEF t
  <2>2. CASE s \notin 1..MaxLaunches
    <3>1. [t EXCEPT ![s] = @ + 1] = t
      BY <1>1, <2>2 DEF t
    <3> QED BY <1>1, <3>1 DEF t
  <2> QED BY <2>1, <2>2
<1>4. ASSUME t[s] > 0
      PROVE  [t EXCEPT ![s] = @ - 1] \in [1..MaxLaunches -> Nat]
  <2>1. CASE s \in 1..MaxLaunches
    BY <1>1, <1>2, <1>4, <2>1, GdbAssumption DEF t
  <2>2. CASE s \notin 1..MaxLaunches
    <3>1. [t EXCEPT ![s] = @ - 1] = t
      BY <1>1, <2>2 DEF t
    <3> QED BY <1>1, <3>1 DEF t
  <2> QED BY <2>1, <2>2
<1> QED BY <1>3, <1>4 DEF t

(* Fresh slots are well typed. *)
LEMMA FreshSlotsType ==
  ASSUME NEW state \in States, NEW up \in {"none", "starting"}, FreshSlots(state, up)
  PROVE  /\ currentState' \in [Ranks -> States]
         /\ synced' \in [Ranks -> BOOLEAN] /\ located' \in [Ranks -> BOOLEAN]
         /\ pendingBreakpoints' \in [Ranks -> Int]
         /\ breakpoints' \in [Ranks -> SUBSET [id : Nat \ {0}, at : Locations \ {Pending}]]
         /\ toGdb' \in [Ranks -> Seq(Commands)] /\ fromGdb' \in [Ranks -> Seq(Records)]
         /\ server' \in [Ranks -> {"none", "starting", "listening", "attached", "gone"}]
         /\ target' \in [Ranks -> {"unattached", "stopped", "running", "over"}]
         /\ gdbBps' \in [Ranks -> SUBSET Breakpoint]
         /\ nextId' \in [Ranks -> Nat \ {0}]
<1>1. <<>> \in Seq(Commands) /\ <<>> \in Seq(Records)
  OBVIOUS
<1> QED BY <1>1 DEF FreshSlots

(* The views keep the types. *)
LEMMA ViewsType ==
  ASSUME TypeOK, Views
  PROVE  TypeOK'
<1>1. CASE LaunchParallelSession
  <2>1. sessions' \in 0..MaxLaunches /\ sessions + 1 \in 1..MaxLaunches
    BY <1>1, GdbAssumption DEF LaunchParallelSession, TypeOK
  <2>2. timers' \in [Ranks -> [1..MaxLaunches -> Nat]]
    BY <1>1, TimersType DEF LaunchParallelSession
  <2>3. "launching" \in States
    BY DEF States
  <2> QED BY <1>1, <2>1, <2>2, <2>3, FreshSlotsType DEF LaunchParallelSession, TypeOK
<1>2. CASE TerminateAllSessions
  <2>1. "none" \in States
    BY DEF States
  <2> QED BY <1>2, <2>1, FreshSlotsType DEF TerminateAllSessions, TypeOK
<1>3. ASSUME NEW line \in Lines, NEW isSet \in BOOLEAN, EditBreakpoint(line, isSet)
      PROVE  TypeOK'
  <2>1. spent' \in [DOMAIN Bounds -> Nat]
    BY <1>3, SpendType DEF EditBreakpoint, Bounds
  <2>2. persisted' \subseteq Lines
    BY <1>3 DEF EditBreakpoint, TypeOK
  <2>3. /\ toGdb' \in [Ranks -> Seq(Commands)]
        /\ breakpoints' \in [Ranks -> SUBSET [id : Nat \ {0}, at : Locations \ {Pending}]]
    <3>1. CASE launched
      <4>1. PICK id \in [Ranks -> UNION {Victims(r, line) : r \in Ranks}] :
              /\ \A r \in Ranks : id[r] \in Victims(r, line)
              /\ breakpoints' = [r \in Ranks |-> TableWithout(r, id[r])]
              /\ toGdb' = [r \in Ranks |-> toGdb[r] \o EditCommands(line, isSet, id[r])]
        BY <1>3, <3>1 DEF EditBreakpoint
      <4>2. \A r \in Ranks : id[r] \in Nat
        BY <4>1, TableType
      <4>3. \A r \in Ranks : EditCommands(line, isSet, id[r]) \in Seq(Commands)
        BY <4>2, CommandsType DEF EditCommands
      <4>4. \A r \in Ranks : toGdb[r] \in Seq(Commands)
        BY DEF TypeOK
      <4>5. \A r \in Ranks : toGdb[r] \o EditCommands(line, isSet, id[r]) \in Seq(Commands)
        BY <4>3, <4>4
      <4> QED BY <4>1, <4>5, TableType
    <3>2. CASE ~launched
      BY <1>3, <3>2 DEF EditBreakpoint, TypeOK
    <3> QED BY <3>1, <3>2
  <2> QED BY <1>3, <2>1, <2>2, <2>3 DEF EditBreakpoint, TypeOK, gdbVars
<1>4. ASSUME NEW name \in {"continue", "interrupt"}, NEW to, Command(name, to)
      PROVE  TypeOK'
  <2>1. spent' \in [DOMAIN Bounds -> Nat]
    BY <1>4, SpendType DEF Command, Bounds
  <2>2. \A r \in Ranks : Append(toGdb[r], Exec(name)) \in Seq(Commands)
    BY CommandsType DEF TypeOK
  <2>3. toGdb' \in [Ranks -> Seq(Commands)]
    BY <1>4, <2>2 DEF Command, TypeOK
  <2> QED BY <1>4, <2>1, <2>3 DEF Command, TypeOK, stateVars, gdbVars
<1> QED BY <1>1, <1>2, <1>3, <1>4 DEF Views

(* Timers and processGdbOutput keep the types. *)
LEMMA HandleType ==
  ASSUME TypeOK, NEW r \in Ranks,
         Handle(r) \/ \E s \in 1..MaxLaunches : TimerFires(r, s)
  PROVE  TypeOK'
<1>1. ASSUME NEW s \in 1..MaxLaunches, TimerFires(r, s)
      PROVE  TypeOK'
  <2>1. timers' \in [Ranks -> [1..MaxLaunches -> Nat]]
    <3>1. timers' = [timers EXCEPT ![r] = [timers[r] EXCEPT ![s] = @ - 1]]
      BY <1>1 DEF TimerFires, TypeOK
    <3>2. [timers[r] EXCEPT ![s] = @ - 1] \in [1..MaxLaunches -> Nat]
      BY <1>1, TimersType DEF TimerFires
    <3> QED BY <3>1, <3>2 DEF TypeOK
  <2>2. <<Connect(s)>> \in Seq(Commands)
    BY CommandsType
  <2>3. toGdb' \in [Ranks -> Seq(Commands)]
    BY <1>1, <2>2, PipesType DEF TimerFires
  <2> QED BY <1>1, <2>1, <2>3 DEF TimerFires, TypeOK, stateVars, gdbVars
<1>2. CASE HandleFirstStop(r)
  <2>1. fromGdb' \in [Ranks -> Seq(Records)] /\ Head(fromGdb[r]).mapped \in BOOLEAN
    BY <1>2, PipesType, RecordFields DEF HandleFirstStop
  <2>2. synced' \in [Ranks -> BOOLEAN]
    BY <1>2 DEF HandleFirstStop, TypeOK
  <2>3. located' \in [Ranks -> BOOLEAN]
    BY <1>2, <2>1 DEF HandleFirstStop, TypeOK
  <2>5. /\ toGdb' \in [Ranks -> Seq(Commands)]
        /\ currentState' \in [Ranks -> States]
        /\ pendingBreakpoints' \in [Ranks -> Int]
    <3>1. PICK cmds \in FlushCommands :
            IF cmds = <<>> THEN Release(r)
            ELSE /\ Write(r, cmds)
                 /\ currentState' = [currentState EXCEPT ![r] = "sync_flushing"]
                 /\ pendingBreakpoints' = [pendingBreakpoints EXCEPT ![r] = Len(cmds)]
      BY <1>2 DEF HandleFirstStop
    <3>2. cmds \in Seq(Commands)
      BY FlushType DEF TypeOK
    <3>3. <<Exec("continue")>> \in Seq(Commands)
      BY CommandsType
    <3>4. CASE cmds = <<>>
      <4>1. toGdb' \in [Ranks -> Seq(Commands)]
        BY <3>1, <3>3, <3>4, PipesType DEF Release
      <4> QED BY <3>1, <3>4, <4>1 DEF Release, TypeOK, States
    <3>5. CASE cmds # <<>>
      <4>1. toGdb' \in [Ranks -> Seq(Commands)]
        BY <3>1, <3>2, <3>5, PipesType
      <4>2. Len(cmds) \in Int
        BY <3>2
      <4> QED BY <3>1, <3>5, <4>1, <4>2 DEF TypeOK, States
    <3> QED BY <3>4, <3>5
  <2> QED BY <1>2, <2>1, <2>2, <2>3, <2>5 DEF HandleFirstStop, TypeOK, gdbVars
<1>3. CASE HandleStopped(r)
  <2>1. fromGdb' \in [Ranks -> Seq(Records)] /\ Head(fromGdb[r]).mapped \in BOOLEAN
    BY <1>3, PipesType, RecordFields DEF HandleStopped
  <2>2. located' \in [Ranks -> BOOLEAN]
    BY <1>3, <2>1 DEF HandleStopped, TypeOK
  <2>3. <<Exec("continue")>> \in Seq(Commands)
    BY CommandsType
  <2>4. toGdb' \in [Ranks -> Seq(Commands)]
    BY <1>3, <2>3, PipesType DEF HandleStopped, TypeOK
  <2>5. currentState' \in [Ranks -> States]
    BY <1>3 DEF HandleStopped, TypeOK, States
  <2> QED BY <1>3, <2>1, <2>2, <2>4, <2>5 DEF HandleStopped, TypeOK, gdbVars
<1>4. CASE HandleExecution(r)
  <2>1. fromGdb' \in [Ranks -> Seq(Records)]
    BY <1>4, PipesType DEF HandleExecution
  <2>2. currentState' \in [Ranks -> States]
    BY <1>4 DEF HandleExecution, ShownExited, TypeOK, States
  <2> QED BY <1>4, <2>1, <2>2 DEF HandleExecution, TypeOK, gdbVars
<1>5. CASE HandleBkpt(r)
  <2> DEFINE m == Head(fromGdb[r])
  <2>1. /\ fromGdb' \in [Ranks -> Seq(Records)]
        /\ m.bp \in Breakpoint
    BY <1>5, PipesType, RecordFields DEF HandleBkpt
  <2>2. breakpoints' \in [Ranks -> SUBSET [id : Nat \ {0}, at : Locations \ {Pending}]]
    BY <1>5, <2>1, TableType DEF HandleBkpt, TypeOK
  <2>3. pendingBreakpoints' \in [Ranks -> Int]
    BY <1>5 DEF HandleBkpt, TypeOK
  <2>4. <<Exec("continue")>> \in Seq(Commands)
    BY CommandsType
  <2>5. toGdb' \in [Ranks -> Seq(Commands)]
    BY <1>5, <2>4, PipesType DEF HandleBkpt, TypeOK
  <2>6. currentState' \in [Ranks -> States]
    <3>1. \/ currentState' = [currentState EXCEPT ![r] = "running"]
          \/ currentState' = currentState
      BY <1>5 DEF HandleBkpt
    <3> QED BY <3>1 DEF TypeOK, States
  <2> QED BY <1>5, <2>1, <2>2, <2>3, <2>5, <2>6 DEF HandleBkpt, TypeOK, gdbVars
<1>6. CASE HandleRefused(r)
  <2>1. fromGdb' \in [Ranks -> Seq(Records)]
    BY <1>6, PipesType DEF HandleRefused
  <2>2. timers' \in [Ranks -> [1..MaxLaunches -> Nat]]
    <3>1. timers' = [timers EXCEPT ![r] = [timers[r] EXCEPT ![sessions] = @ + 1]]
      BY <1>6 DEF HandleRefused, TypeOK
    <3>2. [timers[r] EXCEPT ![sessions] = @ + 1] \in [1..MaxLaunches -> Nat]
      BY TimersType
    <3> QED BY <3>1, <3>2 DEF TypeOK
  <2> QED BY <1>6, <2>1, <2>2 DEF HandleRefused, TypeOK, stateVars, gdbVars
<1> QED BY <1>1, <1>2, <1>3, <1>4, <1>5, <1>6 DEF Handle

(* gdb, gdbserver and the target keep the types. *)
LEMMA GdbType ==
  ASSUME TypeOK, NEW r \in Ranks,
         \/ Gdb(r)
         \/ ServerListens(r)
         \/ \E mp \in BOOLEAN : TargetStops(r, mp)
         \/ TargetExits(r)
  PROVE  TypeOK'
<1>1. CASE GdbConnects(r)
  <2>1. <<Stopped(FALSE)>> \in Seq(Records) /\ <<Plain("refused")>> \in Seq(Records)
    <3>1. Stopped(FALSE) \in Records /\ Plain("refused") \in Records
      BY RecordsType
    <3>2. <<Stopped(FALSE)>> \in Seq(Records)
      BY <3>1, OneRecord, Zenon
    <3>3. <<Plain("refused")>> \in Seq(Records)
      BY <3>1
    <3> QED BY <3>2, <3>3
  <2>2. fromGdb' \in [Ranks -> Seq(Records)] /\ toGdb' \in [Ranks -> Seq(Commands)]
    BY <1>1, <2>1, PipesType DEF GdbConnects
  <2>3. /\ server' \in [Ranks -> {"none", "starting", "listening", "attached", "gone"}]
        /\ target' \in [Ranks -> {"unattached", "stopped", "running", "over"}]
    BY <1>1 DEF GdbConnects, TypeOK
  <2> QED BY <1>1, <2>2, <2>3 DEF GdbConnects, TypeOK, stateVars
<1>2. CASE GdbInserts(r)
  <2> DEFINE c  == Head(toGdb[r])
             at == IF target[r] = "unattached" THEN Pending ELSE Reported[c.line]
             b  == [id |-> nextId[r], line |-> c.line, at |-> at]
  <2>1. toGdb' \in [Ranks -> Seq(Commands)] /\ c.line \in Lines
    BY <1>2, PipesType, CommandFields DEF GdbInserts
  <2>2. at \in Locations
    BY <2>1, ReportedType DEF Locations
  <2>3. b \in Breakpoint
    BY <2>1, <2>2 DEF TypeOK, Breakpoint
  <2> HIDE DEF b
  <2>4. <<Bkpt(b)>> \in Seq(Records)
    <3>1. Bkpt(b) \in Records
      BY <2>3, RecordsType
    <3> QED BY <3>1
  <2>5. fromGdb' \in [Ranks -> Seq(Records)]
    <3>1. \/ Emit(r, <<Bkpt(b)>>)
          \/ UNCHANGED fromGdb
      BY <1>2 DEF GdbInserts, b
    <3> QED BY <2>4, <3>1, PipesType DEF TypeOK
  <2>6. gdbBps' \in [Ranks -> SUBSET Breakpoint]
    <3>1. \/ gdbBps' = [gdbBps EXCEPT ![r] = @ \cup {b}]
          \/ gdbBps' = gdbBps
      BY <1>2 DEF GdbInserts, b
    <3>2. gdbBps \in [Ranks -> SUBSET Breakpoint] /\ gdbBps[r] \cup {b} \in SUBSET Breakpoint
      BY <2>3 DEF TypeOK
    <3> QED BY <3>1, <3>2
  <2>7. nextId' \in [Ranks -> Nat \ {0}]
    <3>1. nextId' = [nextId EXCEPT ![r] = @ + 1] \/ nextId' = nextId
      BY <1>2 DEF GdbInserts
    <3>2. nextId \in [Ranks -> Nat \ {0}] /\ nextId[r] + 1 \in Nat \ {0}
      BY DEF TypeOK
    <3> QED BY <3>1, <3>2
  <2> QED BY <1>2, <2>1, <2>5, <2>6, <2>7 DEF GdbInserts, TypeOK, stateVars
<1>3. CASE GdbDeletes(r)
  <2>1. toGdb' \in [Ranks -> Seq(Commands)]
    BY <1>3, PipesType DEF GdbDeletes
  <2>2. gdbBps' \in [Ranks -> SUBSET Breakpoint]
    BY <1>3 DEF GdbDeletes, TypeOK
  <2> QED BY <1>3, <2>1, <2>2 DEF GdbDeletes, TypeOK, stateVars
<1>4. CASE GdbExecutes(r)
  <2>1. toGdb' \in [Ranks -> Seq(Commands)]
    BY <1>4, PipesType DEF GdbExecutes
  <2>2. /\ <<Plain("running")>> \in Seq(Records)
        /\ \A mp \in BOOLEAN : <<Stopped(mp)>> \in Seq(Records)
    BY RecordsType
  <2>3. /\ target' \in [Ranks -> {"unattached", "stopped", "running", "over"}]
        /\ fromGdb' \in [Ranks -> Seq(Records)]
    BY <1>4, <2>2, PipesType DEF GdbExecutes, TypeOK
  <2> QED BY <1>4, <2>1, <2>3 DEF GdbExecutes, TypeOK, stateVars
<1>5. CASE ServerListens(r)
  BY <1>5 DEF ServerListens, TypeOK, stateVars
<1>6. ASSUME NEW mp \in BOOLEAN, TargetStops(r, mp)
      PROVE  TypeOK'
  <2>1. <<Stopped(mp)>> \in Seq(Records)
    BY RecordsType
  <2>2. fromGdb' \in [Ranks -> Seq(Records)]
    BY <1>6, <2>1, PipesType DEF TargetStops
  <2>3. spent' \in [DOMAIN Bounds -> Nat]
    BY <1>6, SpendType DEF TargetStops, Bounds
  <2>4. target' \in [Ranks -> {"unattached", "stopped", "running", "over"}]
    BY <1>6 DEF TargetStops, TypeOK
  <2> QED BY <1>6, <2>2, <2>3, <2>4 DEF TargetStops, TypeOK, stateVars
<1>7. CASE TargetExits(r)
  <2>1. <<Plain("exited")>> \in Seq(Records)
    BY RecordsType
  <2>2. fromGdb' \in [Ranks -> Seq(Records)]
    BY <1>7, <2>1, PipesType DEF TargetExits
  <2> QED BY <1>7, <2>2 DEF TargetExits, TypeOK, stateVars
<1> QED BY <1>1, <1>2, <1>3, <1>4, <1>5, <1>6, <1>7 DEF Gdb

(* Every step keeps the types. *)
LEMMA StepType == TypeOK /\ [Next]_vars => TypeOK'
<1> SUFFICES ASSUME TypeOK, [Next]_vars PROVE TypeOK'
  OBVIOUS
<1>1. CASE Next
  BY <1>1, ViewsType, HandleType, GdbType DEF Next
<1>2. CASE UNCHANGED vars
  BY <1>2 DEF TypeOK, vars, stateVars, gdbVars
<1> QED BY <1>1, <1>2

(* Whatever the user, gdb and the targets do, in whatever order, the state *)
(* GdbRankCoordinator keeps for its ranks is well formed, and no location  *)
(* gdb could not resolve is in a breakpoint table.                         *)
THEOREM TypeCorrect == Spec => []TypeOK
BY InitType, StepType, PTL DEF Spec

-----------------------------------------------------------------------------
(* TableAgrees, one rank at a time.                                        *)

BkptsIn(records) == {i \in 1..Len(records) : records[i].kind = "bkpt"}

Agree(bps, table, to, from, next) ==
  /\ \A b \in bps : b.id < next
  /\ \A b, c \in bps : b.id = c.id => b = c
  /\ \A id \in DeletedIn(to) : id < next
  /\ \A e \in table : /\ \E b \in bps : b.id = e.id /\ b.at = e.at
                      /\ e.id \notin DeletedIn(to)
  /\ \A i \in BkptsIn(from) : /\ from[i].bp \in bps
                              /\ from[i].bp.id \notin DeletedIn(to)
                              /\ \A e \in table : e.id # from[i].bp.id
  /\ \A i, j \in BkptsIn(from) : from[i].bp.id = from[j].bp.id => i = j

AgreeAt(r) == Agree(gdbBps[r], breakpoints[r], toGdb[r], fromGdb[r], nextId[r])

(* The agreement is one of each rank by itself. *)
LEMMA RankByRank == TableAgrees <=> \A r \in Ranks : AgreeAt(r)
BY DEF TableAgrees, TableSound, IdsGenuine, RepliesFresh, AgreeAt, Agree, BkptsIn, Leaving

(* The same of the next state. *)
LEMMA RankByRankNext == TableAgrees' <=> \A r \in Ranks : AgreeAt(r)'
BY DEF TableAgrees, TableSound, IdsGenuine, RepliesFresh, AgreeAt, Agree, BkptsIn, Leaving

(* The ids deleted by the commands of a queue. *)
LEMMA DeletedConcat ==
  ASSUME NEW s \in Seq(Commands), NEW t \in Seq(Commands)
  PROVE  DeletedIn(s \o t) = DeletedIn(s) \cup DeletedIn(t)
<1>1. /\ Len(s \o t) = Len(s) + Len(t)
      /\ \A i \in 1..Len(s) : (s \o t)[i] = s[i]
      /\ \A i \in 1..Len(t) : (s \o t)[Len(s) + i] = t[i]
  OBVIOUS
<1>2. ASSUME NEW id \in DeletedIn(s \o t)
      PROVE  id \in DeletedIn(s) \cup DeletedIn(t)
  <2>1. PICK i \in 1..Len(s \o t) : (s \o t)[i].name = "delete" /\ id = (s \o t)[i].n
    BY DEF DeletedIn
  <2>2. CASE i <= Len(s)
    BY <1>1, <2>1, <2>2 DEF DeletedIn
  <2>3. CASE i > Len(s)
    <3>1. i - Len(s) \in 1..Len(t) /\ (s \o t)[i] = t[i - Len(s)]
      BY <1>1, <2>3
    <3> QED BY <2>1, <3>1 DEF DeletedIn
  <2> QED BY <2>2, <2>3
<1>3. ASSUME NEW id \in DeletedIn(s) \cup DeletedIn(t)
      PROVE  id \in DeletedIn(s \o t)
  <2>1. CASE id \in DeletedIn(s)
    <3>1. PICK i \in 1..Len(s) : s[i].name = "delete" /\ id = s[i].n
      BY <2>1 DEF DeletedIn
    <3>2. i \in 1..Len(s \o t) /\ (s \o t)[i] = s[i]
      BY <1>1
    <3> QED BY <3>1, <3>2 DEF DeletedIn
  <2>2. CASE id \in DeletedIn(t)
    <3>1. PICK i \in 1..Len(t) : t[i].name = "delete" /\ id = t[i].n
      BY <2>2 DEF DeletedIn
    <3>2. Len(s) + i \in 1..Len(s \o t) /\ (s \o t)[Len(s) + i] = t[i]
      BY <1>1
    <3> QED BY <3>1, <3>2 DEF DeletedIn
  <2> QED BY <1>3, <2>1, <2>2
<1> QED BY <1>2, <1>3

(* A queue without its head deletes what the head does not, and no more. *)
LEMMA DeletedTail ==
  ASSUME NEW s \in Seq(Commands), s # <<>>
  PROVE  /\ DeletedIn(Tail(s)) \subseteq DeletedIn(s)
         /\ Head(s).name = "delete" => Head(s).n \in DeletedIn(s)
<1>1. /\ Len(Tail(s)) = Len(s) - 1 /\ Len(s) \in Nat \ {0} /\ Head(s) = s[1]
      /\ \A i \in 1..Len(Tail(s)) : i + 1 \in 1..Len(s) /\ Tail(s)[i] = s[i + 1]
  OBVIOUS
<1>2. ASSUME NEW id \in DeletedIn(Tail(s))
      PROVE  id \in DeletedIn(s)
  <2>1. PICK i \in 1..Len(Tail(s)) : Tail(s)[i].name = "delete" /\ id = Tail(s)[i].n
    BY DEF DeletedIn
  <2> QED BY <1>1, <2>1 DEF DeletedIn
<1>3. ASSUME Head(s).name = "delete"
      PROVE  Head(s).n \in DeletedIn(s)
  <2>1. 1 \in 1..Len(s)
    BY <1>1
  <2> QED BY <1>1, <1>3, <2>1 DEF DeletedIn
<1> QED BY <1>2, <1>3

(* Commands that delete nothing. *)
LEMMA DeletesNothing ==
  ASSUME NEW s \in Seq(Commands), \A i \in 1..Len(s) : s[i].name # "delete"
  PROVE  DeletedIn(s) = {}
BY DEF DeletedIn

(* A queue from which deletions only go away keeps the agreement. *)
LEMMA QueueKeeps ==
  ASSUME NEW bps, NEW table, NEW to, NEW from, NEW next, NEW to2,
         Agree(bps, table, to, from, next), DeletedIn(to2) \subseteq DeletedIn(to)
  PROVE  Agree(bps, table, to2, from, next)
BY DEF Agree

(* Taking a record keeps it, and the records left are not the one taken.   *)
LEMMA TailKeeps ==
  ASSUME NEW bps, NEW table, NEW to, NEW from \in Seq(Records), NEW next,
         Agree(bps, table, to, from, next), from # <<>>
  PROVE  /\ Agree(bps, table, to, Tail(from), next)
         /\ Head(from).kind = "bkpt" =>
              /\ Head(from).bp \in bps
              /\ Head(from).bp.id \notin DeletedIn(to)
              /\ \A i \in BkptsIn(Tail(from)) : Tail(from)[i].bp.id # Head(from).bp.id
<1>1. /\ Len(Tail(from)) = Len(from) - 1 /\ Len(from) \in Nat \ {0} /\ Head(from) = from[1]
      /\ \A i \in 1..Len(Tail(from)) : i + 1 \in 1..Len(from) /\ Tail(from)[i] = from[i + 1]
  OBVIOUS
<1>2. \A i \in BkptsIn(Tail(from)) : i + 1 \in BkptsIn(from) /\ Tail(from)[i] = from[i + 1]
  BY <1>1 DEF BkptsIn
<1>3. \A i, j \in BkptsIn(Tail(from)) :
        Tail(from)[i].bp.id = Tail(from)[j].bp.id => i = j
  <2> SUFFICES ASSUME NEW i \in BkptsIn(Tail(from)), NEW j \in BkptsIn(Tail(from)),
                      Tail(from)[i].bp.id = Tail(from)[j].bp.id
               PROVE  i = j
    OBVIOUS
  <2> DEFINE k == i + 1
             l == j + 1
  <2>3. /\ k \in BkptsIn(from) /\ Tail(from)[i] = from[k]
        /\ l \in BkptsIn(from) /\ Tail(from)[j] = from[l]
    BY <1>2
  <2>4. from[k].bp.id = from[l].bp.id
    BY <2>3
  <2> HIDE DEF k, l
  <2>5. k = l
    BY <2>3, <2>4 DEF Agree
  <2>1. i + 1 = j + 1
    BY <2>5 DEF k, l
  <2>2. i \in Int /\ j \in Int
    BY DEF BkptsIn
  <2> QED BY <2>1, <2>2
<1>4. Agree(bps, table, to, Tail(from), next)
  <2>1. \A i \in BkptsIn(Tail(from)) : \E k \in BkptsIn(from) : Tail(from)[i] = from[k]
    BY <1>2
  <2>2. \A i \in BkptsIn(Tail(from)) :
          /\ Tail(from)[i].bp \in bps
          /\ Tail(from)[i].bp.id \notin DeletedIn(to)
          /\ \A e \in table : e.id # Tail(from)[i].bp.id
    <3> SUFFICES ASSUME NEW i \in BkptsIn(Tail(from))
                 PROVE  /\ Tail(from)[i].bp \in bps
                        /\ Tail(from)[i].bp.id \notin DeletedIn(to)
                        /\ \A e \in table : e.id # Tail(from)[i].bp.id
      OBVIOUS
    <3>1. PICK k \in BkptsIn(from) : Tail(from)[i] = from[k]
      BY <2>1
    <3>2. /\ from[k].bp \in bps /\ from[k].bp.id \notin DeletedIn(to)
          /\ \A e \in table : e.id # from[k].bp.id
      BY DEF Agree
    <3> QED BY <3>1, <3>2
  <2> QED BY <2>2, <1>3 DEF Agree
<1>5. ASSUME Head(from).kind = "bkpt"
      PROVE  /\ Head(from).bp \in bps
             /\ Head(from).bp.id \notin DeletedIn(to)
             /\ \A i \in BkptsIn(Tail(from)) : Tail(from)[i].bp.id # Head(from).bp.id
  <2>1. 1 \in BkptsIn(from)
    BY <1>1, <1>5 DEF BkptsIn
  <2>2. from[1].bp \in bps /\ from[1].bp.id \notin DeletedIn(to)
    BY <2>1 DEF Agree
  <2>3. ASSUME NEW i \in BkptsIn(Tail(from))
        PROVE  Tail(from)[i].bp.id # from[1].bp.id
    <3> DEFINE k == i + 1
    <3>1. k \in BkptsIn(from) /\ Tail(from)[i] = from[k]
      BY <1>2
    <3>2. k # 1
      BY DEF BkptsIn
    <3> HIDE DEF k
    <3>3. from[k].bp.id # from[1].bp.id
      BY <2>1, <3>1, <3>2 DEF Agree
    <3> QED BY <3>1, <3>3
  <2> QED BY <1>1, <2>2, <2>3
<1> QED BY <1>4, <1>5

(* Printing a record that answers no insertion keeps it. *)
LEMMA PrintKeeps ==
  ASSUME NEW bps, NEW table, NEW to, NEW from \in Seq(Records), NEW next,
         Agree(bps, table, to, from, next), NEW m \in Records, m.kind # "bkpt"
  PROVE  Agree(bps, table, to, from \o <<m>>, next)
<1>1. /\ Len(from \o <<m>>) = Len(from) + 1
      /\ \A i \in 1..Len(from) : (from \o <<m>>)[i] = from[i]
      /\ (from \o <<m>>)[Len(from) + 1] = m
  OBVIOUS
<1>2. \A i \in BkptsIn(from \o <<m>>) : i \in BkptsIn(from) /\ (from \o <<m>>)[i] = from[i]
  BY <1>1 DEF BkptsIn
<1> DEFINE now == from \o <<m>>
<1>3. \A i \in BkptsIn(now) : i \in BkptsIn(from) /\ now[i] = from[i]
  BY <1>2
<1> HIDE DEF now
<1>4. \A i \in BkptsIn(now) : /\ now[i].bp \in bps
                              /\ now[i].bp.id \notin DeletedIn(to)
                              /\ \A e \in table : e.id # now[i].bp.id
  BY <1>3 DEF Agree
<1>5. \A i, j \in BkptsIn(now) : now[i].bp.id = now[j].bp.id => i = j
  BY <1>3 DEF Agree
<1>6. Agree(bps, table, to, now, next)
  BY <1>4, <1>5 DEF Agree
<1> QED BY <1>6 DEF now

(* gdb inserts under a number that nothing carries yet. *)
LEMMA InsertKeeps ==
  ASSUME NEW bps \in SUBSET Breakpoint, NEW table, NEW to, NEW from \in Seq(Records),
         NEW next \in Nat \ {0}, Agree(bps, table, to, from, next),
         NEW b \in Breakpoint, b.id = next,
         DeletedIn(to) \subseteq Nat
  PROVE  Agree(bps \cup {b}, table, to, from \o <<Bkpt(b)>>, next + 1)
<1> DEFINE m == Bkpt(b)
           f == from \o <<m>>
<1>1. m \in Records /\ m.kind = "bkpt" /\ m.bp = b
  BY RecordsType DEF Bkpt
<1> HIDE DEF m
<1>2. /\ Len(f) = Len(from) + 1
      /\ \A i \in 1..Len(from) : f[i] = from[i]
      /\ f[Len(from) + 1] = m
  BY <1>1
<1> HIDE DEF f
<1>3. \A i \in BkptsIn(f) : \/ i \in BkptsIn(from) /\ f[i] = from[i]
                            \/ i = Len(from) + 1 /\ f[i] = m
  BY <1>2 DEF BkptsIn
<1>4. \A x \in bps : x.id \in Nat /\ x.id < next
  BY DEF Agree, Breakpoint
<1>5. \A i \in BkptsIn(from) : from[i].bp.id # next
  BY <1>4 DEF Agree
<1>6. \A e \in table : e.id # next
  BY <1>4 DEF Agree
<1>7. next \notin DeletedIn(to)
  BY DEF Agree
<1>8. \A x \in bps \cup {b} : x.id < next + 1
  BY <1>4
<1>9. \A x, y \in bps \cup {b} : x.id = y.id => x = y
  BY <1>4 DEF Agree
<1>10. \A id \in DeletedIn(to) : id < next + 1
  BY <1>7 DEF Agree
<1>11. \A i \in BkptsIn(f) : /\ f[i].bp \in bps \cup {b}
                             /\ f[i].bp.id \notin DeletedIn(to)
                             /\ \A e \in table : e.id # f[i].bp.id
  BY <1>1, <1>3, <1>6, <1>7 DEF Agree
<1>12. \A i, j \in BkptsIn(f) : f[i].bp.id = f[j].bp.id => i = j
  BY <1>1, <1>3, <1>5 DEF Agree
<1> QED BY <1>8, <1>9, <1>10, <1>11, <1>12 DEF Agree, f, m

(* gdb deletes a breakpoint that no entry and no reply names. *)
LEMMA DeleteKeeps ==
  ASSUME NEW bps, NEW table, NEW to \in Seq(Commands), NEW from, NEW next,
         Agree(bps, table, to, from, next), to # <<>>, Head(to).name = "delete"
  PROVE  Agree({b \in bps : b.id # Head(to).n}, table, Tail(to), from, next)
<1>1. Head(to).n \in DeletedIn(to) /\ DeletedIn(Tail(to)) \subseteq DeletedIn(to)
  BY DeletedTail
<1>2. Agree({b \in bps : b.id # Head(to).n}, table, to, from, next)
  <2>1. \A e \in table : \E b \in {x \in bps : x.id # Head(to).n} : b.id = e.id /\ b.at = e.at
    BY <1>1 DEF Agree
  <2>2. \A i \in BkptsIn(from) : from[i].bp \in {b \in bps : b.id # Head(to).n}
    BY <1>1 DEF Agree
  <2> QED BY <2>1, <2>2 DEF Agree
<1> QED BY <1>1, <1>2, QueueKeeps

(* A reply that is handled enters the table, or is dropped when pending.   *)
LEMMA ReplyKeeps ==
  ASSUME NEW bps, NEW table, NEW to, NEW from \in Seq(Records), NEW next,
         Agree(bps, table, to, from, next), from # <<>>, Head(from).kind = "bkpt",
         NEW table2,
         \/ table2 = table
         \/ table2 = {e \in table : e.id # Head(from).bp.id}
                       \cup {[id |-> Head(from).bp.id, at |-> Head(from).bp.at]}
  PROVE  Agree(bps, table2, to, Tail(from), next)
<1> DEFINE b == Head(from).bp
<1>1. /\ Agree(bps, table, to, Tail(from), next)
      /\ b \in bps /\ b.id \notin DeletedIn(to)
      /\ \A i \in BkptsIn(Tail(from)) : Tail(from)[i].bp.id # b.id
  BY TailKeeps
<1>2. \A e \in table2 : \/ e \in table
                        \/ e.id = b.id /\ e.at = b.at
  OBVIOUS
<1> HIDE DEF b
<1>3. \A e \in table2 : /\ \E x \in bps : x.id = e.id /\ x.at = e.at
                        /\ e.id \notin DeletedIn(to)
  BY <1>1, <1>2 DEF Agree
<1>4. \A i \in BkptsIn(Tail(from)) : \A e \in table2 : e.id # Tail(from)[i].bp.id
  BY <1>1, <1>2 DEF Agree
<1> QED BY <1>1, <1>3, <1>4 DEF Agree

(* The commands of an edit delete the entry it found, and nothing else. *)
LEMMA EditDeletes ==
  ASSUME NEW line \in Lines, NEW isSet \in BOOLEAN, NEW id \in Nat,
         NEW added, added = EditCommands(line, isSet, id)
  PROVE  added \in Seq(Commands) /\ DeletedIn(added) = (IF id = 0 THEN {} ELSE {id})
<1> DEFINE deleting  == IF id # 0 THEN <<Delete(id)>> ELSE <<>>
           inserting == IF isSet THEN <<Insert(line)>> ELSE <<>>
<1>1. deleting \in Seq(Commands) /\ DeletedIn(deleting) = (IF id = 0 THEN {} ELSE {id})
  <2>1. CASE id = 0
    <3>1. Len(deleting) = 0 /\ deleting \in Seq(Commands)
      BY <2>1
    <3> HIDE DEF deleting
    <3>2. DeletedIn(deleting) = {}
      <4>1. \A i \in 1..Len(deleting) : deleting[i].name # "delete"
        BY <3>1
      <4> QED BY <3>1, <4>1, DeletesNothing
    <3> QED BY <2>1, <3>1, <3>2
  <2>2. CASE id # 0
    <3>1. Delete(id) \in Commands /\ Delete(id).name = "delete" /\ Delete(id).n = id
      BY <2>2, CommandsType DEF Delete
    <3>2. Len(deleting) = 1 /\ deleting[1] = Delete(id) /\ deleting \in Seq(Commands)
      BY <2>2, <3>1
    <3> HIDE DEF deleting
    <3>3. {k \in 1..Len(deleting) : deleting[k].name = "delete"} = {1}
      BY <3>1, <3>2
    <3>4. DeletedIn(deleting) = {deleting[1].n}
      BY <3>3 DEF DeletedIn
    <3> QED BY <2>2, <3>1, <3>2, <3>4
  <2> QED BY <2>1, <2>2
<1>2. inserting \in Seq(Commands) /\ DeletedIn(inserting) = {}
  <2>1. Insert(line) \in Commands /\ Insert(line).name # "delete"
    BY CommandsType DEF Insert
  <2>2. inserting \in Seq(Commands) /\ \A i \in 1..Len(inserting) : inserting[i] = Insert(line)
    BY <2>1
  <2> HIDE DEF inserting
  <2> QED BY <2>1, <2>2, DeletesNothing
<1>3. added = deleting \o inserting
  BY DEF EditCommands
<1> HIDE DEF deleting, inserting
<1>4. DeletedIn(deleting \o inserting) = DeletedIn(deleting) \cup DeletedIn(inserting)
  BY <1>1, <1>2, DeletedConcat
<1>5. deleting \o inserting \in Seq(Commands)
  BY <1>1, <1>2
<1> QED BY <1>1, <1>2, <1>3, <1>4, <1>5

(* An edit takes the entry it deletes out of the table. *)
LEMMA EditKeeps ==
  ASSUME NEW bps \in SUBSET Breakpoint, NEW table, NEW to \in Seq(Commands), NEW from,
         NEW next \in Nat, Agree(bps, table, to, from, next),
         NEW line \in Lines, NEW isSet \in BOOLEAN, NEW id \in Nat,
         id = 0 \/ \E e \in table : e.id = id,
         NEW table2, table2 = {e \in table : e.id # id},
         NEW added, added = EditCommands(line, isSet, id)
  PROVE  Agree(bps, table2, to \o added, from, next)
<1>1. added \in Seq(Commands) /\ DeletedIn(added) = (IF id = 0 THEN {} ELSE {id})
  BY EditDeletes
<1>2. DeletedIn(to \o added) = DeletedIn(to) \cup (IF id = 0 THEN {} ELSE {id})
  BY <1>1, DeletedConcat
<1>3. id # 0 => /\ id < next
                /\ \A i \in BkptsIn(from) : from[i].bp.id # id
  <2> SUFFICES ASSUME id # 0
               PROVE  id < next /\ \A i \in BkptsIn(from) : from[i].bp.id # id
    OBVIOUS
  <2>1. PICK e \in table : e.id = id
    OBVIOUS
  <2>2. \E b \in bps : b.id = id
    BY <2>1 DEF Agree
  <2> QED BY <2>1, <2>2 DEF Agree
<1>4. \A x \in DeletedIn(to \o added) : x < next
  BY <1>2, <1>3 DEF Agree
<1>5. \A e \in table2 : /\ \E b \in bps : b.id = e.id /\ b.at = e.at
                        /\ e.id \notin DeletedIn(to \o added)
  BY <1>2 DEF Agree
<1>6. \A i \in BkptsIn(from) : /\ from[i].bp \in bps
                               /\ from[i].bp.id \notin DeletedIn(to \o added)
                               /\ \A e \in table2 : e.id # from[i].bp.id
  BY <1>2, <1>3 DEF Agree
<1> QED BY <1>4, <1>5, <1>6 DEF Agree

(* A step that leaves what a rank's agreement is about alone keeps it. *)
LEMMA OthersKeep ==
  ASSUME NEW q, AgreeAt(q), gdbBps'[q] = gdbBps[q], breakpoints'[q] = breakpoints[q],
         DeletedIn(toGdb'[q]) \subseteq DeletedIn(toGdb[q]), fromGdb'[q] = fromGdb[q],
         nextId'[q] = nextId[q]
  PROVE  AgreeAt(q)'
BY QueueKeeps DEF AgreeAt

(* Writing commands that delete nothing, or reading one, adds no deletion. *)
LEMMA QueueShrinks ==
  ASSUME TypeOK, NEW r \in Ranks
  PROVE  /\ \A cmds \in Seq(Commands) :
              Write(r, cmds) /\ (\A i \in 1..Len(cmds) : cmds[i].name # "delete")
              => \A q \in Ranks : DeletedIn(toGdb'[q]) \subseteq DeletedIn(toGdb[q])
         /\ \A names : Reads(r, names) =>
              \A q \in Ranks : DeletedIn(toGdb'[q]) \subseteq DeletedIn(toGdb[q])
<1>1. toGdb \in [Ranks -> Seq(Commands)] /\ toGdb[r] \in Seq(Commands)
  BY DEF TypeOK
<1>2. ASSUME NEW cmds \in Seq(Commands), Write(r, cmds),
             \A i \in 1..Len(cmds) : cmds[i].name # "delete"
      PROVE  \A q \in Ranks : DeletedIn(toGdb'[q]) \subseteq DeletedIn(toGdb[q])
  <2>1. DeletedIn(toGdb[r] \o cmds) = DeletedIn(toGdb[r])
    <3>1. DeletedIn(cmds) = {}
      BY <1>2, DeletesNothing
    <3>2. DeletedIn(toGdb[r] \o cmds) = DeletedIn(toGdb[r]) \cup DeletedIn(cmds)
      BY <1>1, DeletedConcat
    <3> QED BY <3>1, <3>2
  <2>2. toGdb'[r] = toGdb[r] \o cmds \/ toGdb'[r] = toGdb[r]
    BY <1>1, <1>2 DEF Write
  <2>3. \A q \in Ranks : q # r => toGdb'[q] = toGdb[q]
    BY <1>1, <1>2 DEF Write
  <2> QED BY <2>1, <2>2, <2>3
<1>3. ASSUME NEW names, Reads(r, names)
      PROVE  \A q \in Ranks : DeletedIn(toGdb'[q]) \subseteq DeletedIn(toGdb[q])
  <2>1. toGdb'[r] = Tail(toGdb[r]) /\ toGdb[r] # <<>>
    BY <1>1, <1>3 DEF Reads
  <2>2. \A q \in Ranks : q # r => toGdb'[q] = toGdb[q]
    BY <1>1, <1>3 DEF Reads
  <2> QED BY <1>1, <2>1, <2>2, DeletedTail
<1> QED BY <1>2, <1>3

(* Taking a record that answers no insertion, or printing one, keeps the   *)
(* agreement of every rank if no deletion is added and nothing else it is  *)
(* about changes.                                                          *)
LEMMA TakeKeeps ==
  ASSUME TypeOK, TableAgrees, NEW r \in Ranks, NEW kind, Take(r, kind),
         \A q \in Ranks : DeletedIn(toGdb'[q]) \subseteq DeletedIn(toGdb[q]),
         UNCHANGED <<gdbBps, breakpoints, nextId>>
  PROVE  TableAgrees'
<1>1. fromGdb \in [Ranks -> Seq(Records)] /\ fromGdb[r] \in Seq(Records)
  BY DEF TypeOK
<1>2. fromGdb[r] # <<>> /\ fromGdb'[r] = Tail(fromGdb[r])
  BY <1>1 DEF Take
<1>3. \A q \in Ranks : AgreeAt(q)
  BY RankByRank
<1>4. AgreeAt(r)'
  <2>1. Agree(gdbBps[r], breakpoints[r], toGdb[r], Tail(fromGdb[r]), nextId[r])
    BY <1>1, <1>2, <1>3, TailKeeps DEF AgreeAt
  <2>2. Agree(gdbBps[r], breakpoints[r], toGdb'[r], Tail(fromGdb[r]), nextId[r])
    BY <2>1, QueueKeeps
  <2> QED BY <1>2, <2>2 DEF AgreeAt
<1>5. ASSUME NEW q \in Ranks, q # r PROVE AgreeAt(q)'
  <2>1. fromGdb'[q] = fromGdb[q]
    BY <1>1, <1>5 DEF Take
  <2> QED BY <1>3, <2>1, OthersKeep
<1>6. \A q \in Ranks : AgreeAt(q)'
  BY <1>4, <1>5
<1> QED BY <1>6, RankByRankNext

(* Printing a record that answers no insertion keeps the agreement of
   every rank. *)
LEMMA PrintsKeep ==
  ASSUME TypeOK, TableAgrees, NEW r \in Ranks, NEW m \in Records, m.kind # "bkpt",
         Emit(r, <<m>>) \/ UNCHANGED fromGdb,
         \A q \in Ranks : DeletedIn(toGdb'[q]) \subseteq DeletedIn(toGdb[q]),
         UNCHANGED <<gdbBps, breakpoints, nextId>>
  PROVE  TableAgrees'
<1>1. fromGdb \in [Ranks -> Seq(Records)] /\ fromGdb[r] \in Seq(Records)
  BY DEF TypeOK
<1>2. \/ fromGdb'[r] = fromGdb[r] \o <<m>>
      \/ fromGdb'[r] = fromGdb[r]
  BY <1>1 DEF Emit
<1>3. \A q \in Ranks : AgreeAt(q)
  BY RankByRank
<1>4. AgreeAt(r)'
  <2>1. Agree(gdbBps[r], breakpoints[r], toGdb[r], fromGdb'[r], nextId[r])
    BY <1>1, <1>2, <1>3, PrintKeeps DEF AgreeAt
  <2>2. Agree(gdbBps[r], breakpoints[r], toGdb'[r], fromGdb'[r], nextId[r])
    BY <2>1, QueueKeeps
  <2> QED BY <2>2 DEF AgreeAt
<1>5. ASSUME NEW q \in Ranks, q # r PROVE AgreeAt(q)'
  <2>1. fromGdb'[q] = fromGdb[q]
    BY <1>1, <1>5 DEF Emit
  <2> QED BY <1>3, <2>1, OthersKeep
<1>6. \A q \in Ranks : AgreeAt(q)'
  BY <1>4, <1>5
<1> QED BY <1>6, RankByRankNext

(* Nothing agrees with nothing. *)
LEMMA EmptyAgrees == ASSUME NEW n PROVE Agree({}, {}, <<>>, <<>>, n)
<1>1. DeletedIn(<<>>) = {} /\ BkptsIn(<<>>) = {}
  BY DEF DeletedIn, BkptsIn
<1> QED BY <1>1 DEF Agree

(* Fresh slots agree. *)
LEMMA FreshAgrees ==
  ASSUME NEW state, NEW up, FreshSlots(state, up)
  PROVE  TableAgrees'
<1>1. \A r \in Ranks : AgreeAt(r)'
  BY EmptyAgrees DEF FreshSlots, AgreeAt
<1> QED BY <1>1, RankByRankNext

(* Nothing is launched at first, so nothing disagrees. *)
LEMMA InitAgrees == Init => TableAgrees
<1>1. Init => \A r \in Ranks : AgreeAt(r)
  BY EmptyAgrees DEF Init, AgreeAt
<1> QED BY <1>1, RankByRank

(* The views keep the agreement. *)
LEMMA ViewsAgree ==
  ASSUME TypeOK, TableAgrees, Views
  PROVE  TableAgrees'
<1> USE RankByRank
<1>1. CASE LaunchParallelSession
  BY <1>1, FreshAgrees DEF LaunchParallelSession
<1>2. CASE TerminateAllSessions
  BY <1>2, FreshAgrees DEF TerminateAllSessions
<1>3. ASSUME NEW line \in Lines, NEW isSet \in BOOLEAN, EditBreakpoint(line, isSet)
      PROVE  TableAgrees'
  <2>1. UNCHANGED <<gdbBps, fromGdb, nextId>>
    BY <1>3 DEF EditBreakpoint, gdbVars
  <2>2. CASE launched
    <3>1. PICK id \in [Ranks -> UNION {Victims(r, line) : r \in Ranks}] :
            /\ \A r \in Ranks : id[r] \in Victims(r, line)
            /\ breakpoints' = [r \in Ranks |-> TableWithout(r, id[r])]
            /\ toGdb' = [r \in Ranks |-> toGdb[r] \o EditCommands(line, isSet, id[r])]
      BY <1>3, <2>2 DEF EditBreakpoint
    <3>2. ASSUME NEW r \in Ranks PROVE AgreeAt(r)'
      <4>1. id[r] \in Nat /\ (id[r] = 0 \/ \E e \in breakpoints[r] : e.id = id[r])
        <5>1. id[r] \in Victims(r, line)
          BY <3>1
        <5>2. id[r] \in Nat
          BY <5>1, TableType
        <5> QED BY <5>1, <5>2 DEF Victims
      <4>2. /\ gdbBps[r] \in SUBSET Breakpoint /\ toGdb[r] \in Seq(Commands)
            /\ nextId[r] \in Nat
        BY DEF TypeOK
      <4>3. Agree(gdbBps[r], breakpoints[r], toGdb[r], fromGdb[r], nextId[r])
        BY DEF AgreeAt
      <4>4. Agree(gdbBps[r], {e \in breakpoints[r] : e.id # id[r]},
                  toGdb[r] \o EditCommands(line, isSet, id[r]), fromGdb[r], nextId[r])
        <5> DEFINE i      == id[r]
                   table2 == {e \in breakpoints[r] : e.id # i}
                   added  == EditCommands(line, isSet, i)
        <5>1. i \in Nat /\ (i = 0 \/ \E e \in breakpoints[r] : e.id = i)
          BY <4>1
        <5>2. table2 = {e \in breakpoints[r] : e.id # i} /\ added = EditCommands(line, isSet, i)
          OBVIOUS
        <5> HIDE DEF i, table2, added
        <5>3. Agree(gdbBps[r], table2, toGdb[r] \o added, fromGdb[r], nextId[r])
          BY <4>2, <4>3, <5>1, <5>2, EditKeeps
        <5> QED BY <5>3 DEF i, table2, added
      <4>5. /\ breakpoints'[r] = {e \in breakpoints[r] : e.id # id[r]}
            /\ toGdb'[r] = toGdb[r] \o EditCommands(line, isSet, id[r])
        BY <3>1 DEF TableWithout
      <4> QED BY <2>1, <4>4, <4>5 DEF AgreeAt
    <3> QED BY <3>2, RankByRankNext
  <2>3. CASE ~launched
    <3>1. UNCHANGED <<breakpoints, toGdb>>
      BY <1>3, <2>3 DEF EditBreakpoint
    <3>2. \A r \in Ranks : AgreeAt(r)'
      BY <2>1, <3>1, OthersKeep
    <3> QED BY <3>2, RankByRankNext
  <2> QED BY <2>2, <2>3
<1>4. ASSUME NEW name \in {"continue", "interrupt"}, NEW to, Command(name, to)
      PROVE  TableAgrees'
  <2>1. UNCHANGED <<gdbBps, breakpoints, fromGdb, nextId>>
    BY <1>4 DEF Command, gdbVars, stateVars
  <2>2. Exec(name) \in Commands /\ Exec(name).name # "delete"
    BY CommandsType DEF Exec
  <2>3. ASSUME NEW r \in Ranks
        PROVE  DeletedIn(toGdb'[r]) \subseteq DeletedIn(toGdb[r])
    <3>1. toGdb[r] \in Seq(Commands)
      BY DEF TypeOK
    <3> DEFINE one == <<Exec(name)>>
    <3>2. one \in Seq(Commands) /\ \A i \in 1..Len(one) : one[i].name # "delete"
      BY <2>2
    <3>3. toGdb'[r] = Append(toGdb[r], Exec(name)) \/ toGdb'[r] = toGdb[r]
      BY <1>4 DEF Command, TypeOK
    <3>4. Append(toGdb[r], Exec(name)) = toGdb[r] \o one
      BY <2>2, <3>1
    <3> HIDE DEF one
    <3>5. DeletedIn(one) = {}
      BY <3>2, DeletesNothing
    <3>6. DeletedIn(toGdb[r] \o one) = DeletedIn(toGdb[r])
      <4>1. DeletedIn(toGdb[r] \o one) = DeletedIn(toGdb[r]) \cup DeletedIn(one)
        BY <3>1, <3>2, DeletedConcat
      <4> QED BY <3>5, <4>1
    <3> QED BY <3>3, <3>4, <3>6
  <2>4. \A r \in Ranks : AgreeAt(r)'
    BY <2>1, <2>3, OthersKeep
  <2> QED BY <2>4, RankByRankNext
<1> QED BY <1>1, <1>2, <1>3, <1>4 DEF Views

(* Writing one `continue` or `connect` deletes nothing. *)
LEMMA OneCommand ==
  /\ <<Exec("continue")>> \in Seq(Commands)
  /\ \A i \in 1..Len(<<Exec("continue")>>) : <<Exec("continue")>>[i].name # "delete"
  /\ \A s \in 1..MaxLaunches :
       /\ <<Connect(s)>> \in Seq(Commands)
       /\ \A i \in 1..Len(<<Connect(s)>>) : <<Connect(s)>>[i].name # "delete"
BY CommandsType DEF Exec, Connect

(* Timers and processGdbOutput keep the agreement. *)
LEMMA HandleAgrees ==
  ASSUME TypeOK, TableAgrees, NEW r \in Ranks,
         Handle(r) \/ \E s \in 1..MaxLaunches : TimerFires(r, s)
  PROVE  TableAgrees'
<1> DEFINE Shrinks == \A q \in Ranks : DeletedIn(toGdb'[q]) \subseteq DeletedIn(toGdb[q])
<1>0. UNCHANGED toGdb => Shrinks
  OBVIOUS
<1>1. ASSUME NEW s \in 1..MaxLaunches, TimerFires(r, s)
      PROVE  TableAgrees'
  <2>1. Shrinks
    BY <1>1, OneCommand, QueueShrinks DEF TimerFires
  <2>2. UNCHANGED <<gdbBps, breakpoints, fromGdb, nextId>>
    BY <1>1 DEF TimerFires, gdbVars, stateVars
  <2>3. \A q \in Ranks : AgreeAt(q)'
    BY <2>1, <2>2, OthersKeep, RankByRank
  <2> QED BY <2>3, RankByRankNext
<1>2. CASE HandleFirstStop(r)
  <2>1. Shrinks
    <3>1. PICK cmds \in FlushCommands :
            IF cmds = <<>> THEN Write(r, <<Exec("continue")>>) ELSE Write(r, cmds)
      BY <1>2 DEF HandleFirstStop, Release
    <3>2. cmds \in Seq(Commands) /\ \A i \in 1..Len(cmds) : cmds[i].name # "delete"
      BY FlushType DEF TypeOK
    <3> QED BY <3>1, <3>2, OneCommand, QueueShrinks
  <2>2. UNCHANGED <<gdbBps, breakpoints, nextId>>
    BY <1>2 DEF HandleFirstStop, gdbVars
  <2> QED BY <1>2, <2>1, <2>2, TakeKeeps DEF HandleFirstStop
<1>3. CASE HandleStopped(r)
  <2>1. Shrinks
    BY <1>3, <1>0, OneCommand, QueueShrinks DEF HandleStopped
  <2>2. UNCHANGED <<gdbBps, breakpoints, nextId>>
    BY <1>3 DEF HandleStopped, gdbVars
  <2> QED BY <1>3, <2>1, <2>2, TakeKeeps DEF HandleStopped
<1>4. CASE HandleExecution(r)
  <2>1. Shrinks
    BY <1>4, <1>0 DEF HandleExecution
  <2>2. UNCHANGED <<gdbBps, breakpoints, nextId>>
    BY <1>4 DEF HandleExecution, gdbVars
  <2> QED BY <1>4, <2>1, <2>2, TakeKeeps DEF HandleExecution
<1>5. CASE HandleBkpt(r)
  <2> DEFINE m == Head(fromGdb[r])
  <2>1. Shrinks
    BY <1>5, <1>0, OneCommand, QueueShrinks DEF HandleBkpt
  <2>2. UNCHANGED <<gdbBps, nextId>>
    BY <1>5 DEF HandleBkpt, gdbVars
  <2>3. fromGdb \in [Ranks -> Seq(Records)] /\ fromGdb[r] \in Seq(Records)
    BY DEF TypeOK
  <2>4. fromGdb[r] # <<>> /\ fromGdb' = [fromGdb EXCEPT ![r] = Tail(@)] /\ m.kind = "bkpt"
    BY <1>5 DEF HandleBkpt, Take
  <2>5. breakpoints' = [breakpoints EXCEPT ![r] = TableWith(r, m.bp)]
    BY <1>5 DEF HandleBkpt
  <2>6. breakpoints'[r] = TableWith(r, m.bp) /\ fromGdb'[r] = Tail(fromGdb[r])
    BY <2>3, <2>4, <2>5 DEF TypeOK
  <2>7. AgreeAt(r)
    BY RankByRank
  <2>8. Agree(gdbBps[r], TableWith(r, m.bp), toGdb[r], Tail(fromGdb[r]), nextId[r])
    BY <2>3, <2>4, <2>7, ReplyKeeps DEF AgreeAt, TableWith
  <2>9. Agree(gdbBps[r], TableWith(r, m.bp), toGdb'[r], Tail(fromGdb[r]), nextId[r])
    BY <2>1, <2>8, QueueKeeps
  <2>10. AgreeAt(r)'
    BY <2>2, <2>6, <2>9 DEF AgreeAt
  <2>11. ASSUME NEW q \in Ranks, q # r PROVE AgreeAt(q)'
    <3>1. breakpoints'[q] = breakpoints[q] /\ fromGdb'[q] = fromGdb[q]
      BY <2>3, <2>4, <2>5, <2>11 DEF TypeOK
    <3> QED BY <2>1, <2>2, <3>1, OthersKeep, RankByRank
  <2>12. \A q \in Ranks : AgreeAt(q)'
    BY <2>10, <2>11
  <2> QED BY <2>12, RankByRankNext
<1>6. CASE HandleRefused(r)
  <2>1. Shrinks
    BY <1>6, <1>0 DEF HandleRefused
  <2>2. UNCHANGED <<gdbBps, breakpoints, nextId>>
    BY <1>6 DEF HandleRefused, gdbVars, stateVars
  <2> QED BY <1>6, <2>1, <2>2, TakeKeeps DEF HandleRefused
<1> QED BY <1>1, <1>2, <1>3, <1>4, <1>5, <1>6 DEF Handle

(* gdb, gdbserver and the target keep the agreement. *)
LEMMA GdbAgrees ==
  ASSUME TypeOK, TableAgrees, NEW r \in Ranks,
         \/ Gdb(r)
         \/ ServerListens(r)
         \/ \E mp \in BOOLEAN : TargetStops(r, mp)
         \/ TargetExits(r)
  PROVE  TableAgrees'
<1> DEFINE Shrinks == \A q \in Ranks : DeletedIn(toGdb'[q]) \subseteq DeletedIn(toGdb[q])
<1>0. UNCHANGED toGdb => Shrinks
  OBVIOUS
<1>a. fromGdb \in [Ranks -> Seq(Records)] /\ toGdb \in [Ranks -> Seq(Commands)]
  BY DEF TypeOK
<1>b. \A q \in Ranks : AgreeAt(q)
  BY RankByRank
<1>c. /\ \A mp \in BOOLEAN : Stopped(mp) \in Records /\ Stopped(mp).kind # "bkpt"
      /\ \A kind \in {"running", "exited", "refused"} :
           Plain(kind) \in Records /\ Plain(kind).kind # "bkpt"
  BY RecordsType DEF Stopped, Plain
<1>1. CASE GdbConnects(r)
  <2>1. Shrinks
    BY <1>1, QueueShrinks DEF GdbConnects
  <2>2. UNCHANGED <<gdbBps, breakpoints, nextId>>
    BY <1>1 DEF GdbConnects, stateVars
  <2>3. Emit(r, <<Stopped(FALSE)>>) \/ Emit(r, <<Plain("refused")>>)
    BY <1>1 DEF GdbConnects
  <2>4. CASE Emit(r, <<Stopped(FALSE)>>)
    <3> DEFINE m == Stopped(FALSE)
    <3>1. m \in Records /\ m.kind # "bkpt" /\ Emit(r, <<m>>)
      BY <1>c, <2>4
    <3> HIDE DEF m
    <3> QED BY <2>1, <2>2, <3>1, PrintsKeep
  <2>5. CASE Emit(r, <<Plain("refused")>>)
    BY <1>c, <2>1, <2>2, <2>5, PrintsKeep
  <2> QED BY <2>3, <2>4, <2>5
<1>2. CASE GdbInserts(r)
  <2> DEFINE c  == Head(toGdb[r])
             at == IF target[r] = "unattached" THEN Pending ELSE Reported[c.line]
             b  == [id |-> nextId[r], line |-> c.line, at |-> at]
  <2>1. Shrinks
    BY <1>2, QueueShrinks DEF GdbInserts
  <2>2. UNCHANGED breakpoints
    BY <1>2 DEF GdbInserts, stateVars
  <2>3. c.line \in Lines
    BY <1>2, PipesType, CommandFields DEF GdbInserts
  <2>4. b \in Breakpoint /\ b.id = nextId[r]
    BY <2>3, ReportedType DEF TypeOK, Breakpoint, Locations
  <2>5. \/ /\ gdbBps' = [gdbBps EXCEPT ![r] = @ \cup {b}]
           /\ nextId' = [nextId EXCEPT ![r] = @ + 1]
           /\ Emit(r, <<Bkpt(b)>>)
        \/ UNCHANGED <<gdbBps, nextId, fromGdb>>
    BY <1>2 DEF GdbInserts
  <2> HIDE DEF b
  <2>6. CASE /\ gdbBps' = [gdbBps EXCEPT ![r] = @ \cup {b}]
             /\ nextId' = [nextId EXCEPT ![r] = @ + 1]
             /\ Emit(r, <<Bkpt(b)>>)
    <3>1. /\ gdbBps[r] \in SUBSET Breakpoint /\ fromGdb[r] \in Seq(Records)
          /\ nextId[r] \in Nat \ {0} /\ toGdb[r] \in Seq(Commands)
      BY DEF TypeOK
    <3>2. DeletedIn(toGdb[r]) \subseteq Nat
      <4>1. \A i \in 1..Len(toGdb[r]) : toGdb[r][i] \in Commands
        BY <3>1
      <4>2. \A i \in 1..Len(toGdb[r]) : toGdb[r][i].name = "delete" => toGdb[r][i].n \in Nat
        BY <4>1, CommandFields
      <4> QED BY <4>2 DEF DeletedIn
    <3>3. Agree(gdbBps[r] \cup {b}, breakpoints[r], toGdb[r],
                fromGdb[r] \o <<Bkpt(b)>>, nextId[r] + 1)
      BY <1>b, <2>4, <3>1, <3>2, InsertKeeps DEF AgreeAt
    <3>4. /\ gdbBps'[r] = gdbBps[r] \cup {b} /\ nextId'[r] = nextId[r] + 1
          /\ fromGdb'[r] = fromGdb[r] \o <<Bkpt(b)>>
      BY <2>6, <1>a DEF TypeOK, Emit
    <3>5. AgreeAt(r)'
      <4>1. Agree(gdbBps[r] \cup {b}, breakpoints[r], toGdb'[r],
                  fromGdb[r] \o <<Bkpt(b)>>, nextId[r] + 1)
        BY <2>1, <3>3, QueueKeeps
      <4> QED BY <2>2, <3>4, <4>1 DEF AgreeAt
    <3>6. ASSUME NEW q \in Ranks, q # r PROVE AgreeAt(q)'
      <4>1. /\ gdbBps'[q] = gdbBps[q] /\ nextId'[q] = nextId[q]
            /\ fromGdb'[q] = fromGdb[q]
        BY <2>6, <1>a, <3>6 DEF TypeOK, Emit
      <4> QED BY <1>b, <2>1, <2>2, <4>1, OthersKeep
    <3>7. \A q \in Ranks : AgreeAt(q)'
      BY <3>5, <3>6
    <3> QED BY <3>7, RankByRankNext
  <2>7. CASE UNCHANGED <<gdbBps, nextId, fromGdb>>
    <3>1. \A q \in Ranks : AgreeAt(q)'
      BY <1>b, <2>1, <2>2, <2>7, OthersKeep
    <3> QED BY <3>1, RankByRankNext
  <2> QED BY <2>5, <2>6, <2>7
<1>3. CASE GdbDeletes(r)
  <2>1. toGdb[r] # <<>> /\ Head(toGdb[r]).name = "delete" /\ toGdb'[r] = Tail(toGdb[r])
    BY <1>3, <1>a DEF GdbDeletes, Reads
  <2>2. gdbBps'[r] = {b \in gdbBps[r] : b.id # Head(toGdb[r]).n}
    BY <1>3 DEF GdbDeletes, TypeOK
  <2>3. UNCHANGED <<breakpoints, fromGdb, nextId>>
    BY <1>3 DEF GdbDeletes, stateVars
  <2>4. Agree({b \in gdbBps[r] : b.id # Head(toGdb[r]).n}, breakpoints[r],
              Tail(toGdb[r]), fromGdb[r], nextId[r])
    BY <1>a, <1>b, <2>1, DeleteKeeps DEF AgreeAt
  <2>5. AgreeAt(r)'
    BY <2>1, <2>2, <2>3, <2>4 DEF AgreeAt
  <2>6. ASSUME NEW q \in Ranks, q # r PROVE AgreeAt(q)'
    <3>1. gdbBps'[q] = gdbBps[q] /\ toGdb'[q] = toGdb[q]
      BY <1>3, <1>a, <2>6 DEF GdbDeletes, Reads, TypeOK
    <3> QED BY <1>b, <2>3, <3>1, OthersKeep
  <2>7. \A q \in Ranks : AgreeAt(q)'
    BY <2>5, <2>6
  <2> QED BY <2>7, RankByRankNext
<1>4. CASE GdbExecutes(r)
  <2>1. Shrinks
    BY <1>4, QueueShrinks DEF GdbExecutes
  <2>2. UNCHANGED <<gdbBps, breakpoints, nextId>>
    BY <1>4 DEF GdbExecutes, stateVars
  <2>3. \/ Emit(r, <<Plain("running")>>)
        \/ \E mp \in BOOLEAN : Emit(r, <<Stopped(mp)>>)
        \/ UNCHANGED fromGdb
    BY <1>4 DEF GdbExecutes
  <2> QED BY <1>c, <2>1, <2>2, <2>3, PrintsKeep
<1>5. CASE ServerListens(r)
  <2>1. UNCHANGED <<gdbBps, breakpoints, toGdb, fromGdb, nextId>>
    BY <1>5 DEF ServerListens, stateVars
  <2>2. \A q \in Ranks : AgreeAt(q)'
    BY <1>b, <2>1, OthersKeep
  <2> QED BY <2>2, RankByRankNext
<1>6. ASSUME NEW mp \in BOOLEAN, TargetStops(r, mp)
      PROVE  TableAgrees'
  <2>1. UNCHANGED <<gdbBps, breakpoints, toGdb, nextId>> /\ Emit(r, <<Stopped(mp)>>)
    BY <1>6 DEF TargetStops, stateVars
  <2> QED BY <1>0, <1>c, <2>1, PrintsKeep
<1>7. CASE TargetExits(r)
  <2>1. UNCHANGED <<gdbBps, breakpoints, toGdb, nextId>> /\ Emit(r, <<Plain("exited")>>)
    BY <1>7 DEF TargetExits, stateVars
  <2> QED BY <1>0, <1>c, <2>1, PrintsKeep
<1> QED BY <1>1, <1>2, <1>3, <1>4, <1>5, <1>6, <1>7 DEF Gdb

(* Every step keeps the agreement. *)
LEMMA StepAgrees == TypeOK /\ TableAgrees /\ [Next]_vars => TableAgrees'
<1> SUFFICES ASSUME TypeOK, TableAgrees, [Next]_vars PROVE TableAgrees'
  OBVIOUS
<1>1. CASE Next
  BY <1>1, ViewsAgree, HandleAgrees, GdbAgrees DEF Next
<1>2. CASE UNCHANGED vars
  <2>1. UNCHANGED <<gdbBps, breakpoints, toGdb, fromGdb, nextId>>
    BY <1>2 DEF vars, stateVars, gdbVars
  <2>2. \A r \in Ranks : AgreeAt(r)'
    BY <2>1, RankByRank, OthersKeep
  <2> QED BY <2>2, RankByRankNext
<1> QED BY <1>1, <1>2

(* The breakpoint table, the replies on their way, the deletions on their  *)
(* way and gdb's own breakpoints agree on what each number stands for.     *)
THEOREM TableAgreement == Spec => []TableAgrees
BY InitType, StepType, InitAgrees, StepAgrees, PTL DEF Spec

(* Whatever is edited, relaunched or answered late, on every rank, a       *)
(* number in a breakpoint table is a breakpoint gdb has, at that place,    *)
(* with no deletion on its way: broadcastBreakpoint deletes what it means. *)
THEOREM TableSoundHolds == Spec => []TableSound
<1>1. TableAgrees => TableSound
  BY DEF TableAgrees
<1> QED BY <1>1, TableAgreement, PTL
-----------------------------------------------------------------------------
(* The records a gdb printed lead from the phase the coordinator knows of  *)
(* to the phase the target is in.                                          *)

Phases == {"attaching", "halted", "going", "over"}

MovesPhase(a, m, c) ==
  /\ m.kind = "stopped" => a \in {"attaching", "going"} /\ c = "halted"
  /\ m.kind = "running" => a = "halted" /\ c = "going"
  /\ m.kind = "exited" => a = "going" /\ c = "over"
  /\ m.kind \in {"bkpt", "refused"} => c = a

Leads(a, from, b) ==
  \E h \in [0..Len(from) -> Phases] :
    /\ h[0] = a /\ h[Len(from)] = b
    /\ \A i \in 1..Len(from) : MovesPhase(h[i - 1], from[i], h[i])

(* What the coordinator shows in a phase. *)
Shows(state, isSynced, now) ==
  /\ isSynced <=> now # "attaching"
  /\ state \in {"none", "launching"} <=> now = "attaching"
  /\ state = "exited" <=> now = "over"
  /\ state \in {"sync_flushing", "stopped"} => now = "halted"

(* What the target may be in a phase: a second connection drops it.        *)
Stands(tg, last) ==
  /\ tg = "unattached" <=> last = "attaching"
  /\ tg = "stopped" => last = "halted"
  /\ tg = "running" => last = "going"

Follows(state, isSynced, from, tg) ==
  \E now, last \in Phases :
    Shows(state, isSynced, now) /\ Leads(now, from, last) /\ Stands(tg, last)

FollowsAt(r) == Follows(currentState[r], synced[r], fromGdb[r], target[r])

(* Without slots nothing is shown, written or printed. *)
Slots ==
  \A r \in Ranks :
    IF launched THEN currentState[r] # "none"
    ELSE /\ currentState[r] = "none" /\ target[r] = "unattached"
         /\ toGdb[r] = <<>> /\ fromGdb[r] = <<>>

ShownRight == Slots /\ \A r \in Ranks : FollowsAt(r)

(* No record leads nowhere. *)
LEMMA LeadsNowhere ==
  ASSUME NEW a \in Phases
  PROVE  Leads(a, <<>>, a) /\ \A b : Leads(a, <<>>, b) => b = a
<1>1. Len(<<>>) = 0
  OBVIOUS
<1>2. Leads(a, <<>>, a)
  <2> DEFINE h == [i \in 0..0 |-> a]
  <2>1. h \in [0..0 -> Phases] /\ h[0] = a
    OBVIOUS
  <2>2. \A i \in 1..0 : FALSE
    OBVIOUS
  <2> HIDE DEF h
  <2> QED BY <1>1, <2>1, <2>2 DEF Leads
<1> QED BY <1>1, <1>2 DEF Leads

(* The first record moves the phase, and the others lead on from there. *)
LEMMA LeadsTail ==
  ASSUME NEW a, NEW b, NEW q \in Seq(Records), q # <<>>, Leads(a, q, b)
  PROVE  \E c \in Phases : MovesPhase(a, Head(q), c) /\ Leads(c, Tail(q), b)
<1>1. PICK h \in [0..Len(q) -> Phases] :
        /\ h[0] = a /\ h[Len(q)] = b
        /\ \A i \in 1..Len(q) : MovesPhase(h[i - 1], q[i], h[i])
  BY DEF Leads
<1>2. /\ Len(q) \in Nat \ {0} /\ Len(Tail(q)) = Len(q) - 1 /\ Head(q) = q[1]
      /\ \A i \in 1..(Len(q) - 1) : Tail(q)[i] = q[i + 1]
  OBVIOUS
<1> DEFINE g == [i \in 0..(Len(q) - 1) |-> h[i + 1]]
<1>3. g \in [0..Len(Tail(q)) -> Phases]
  BY <1>1, <1>2
<1>4. g[0] = h[1] /\ g[Len(Tail(q))] = b
  BY <1>1, <1>2
<1>5. ASSUME NEW i \in 1..Len(Tail(q)) PROVE MovesPhase(g[i - 1], Tail(q)[i], g[i])
  <2>1. i + 1 \in 1..Len(q) /\ i \in 0..(Len(q) - 1) /\ i - 1 \in 0..(Len(q) - 1) /\ (i + 1) - 1 = i
    BY <1>2
  <2>2. g[i - 1] = h[i] /\ g[i] = h[i + 1] /\ Tail(q)[i] = q[i + 1]
    BY <1>2, <2>1
  <2>3. MovesPhase(h[(i + 1) - 1], q[i + 1], h[i + 1])
    BY <1>1, <2>1
  <2> HIDE DEF g
  <2> QED BY <2>1, <2>2, <2>3
<1> HIDE DEF g
<1>6. Leads(h[1], Tail(q), b)
  BY <1>3, <1>4, <1>5 DEF Leads
<1>7. h[1] \in Phases /\ MovesPhase(a, q[1], h[1])
  <2>1. 1 \in 1..Len(q) /\ 1 \in 0..Len(q) /\ 1 - 1 = 0
    BY <1>2
  <2>2. MovesPhase(h[1 - 1], q[1], h[1])
    BY <1>1, <2>1
  <2> QED BY <1>1, <2>1, <2>2
<1> QED BY <1>2, <1>6, <1>7

(* A record printed last moves the phase the others lead to. *)
LEMMA LeadsAppend ==
  ASSUME NEW a, NEW b, NEW c \in Phases, NEW q \in Seq(Records), NEW m \in Records,
         Leads(a, q, b), MovesPhase(b, m, c)
  PROVE  Leads(a, q \o <<m>>, c)
<1>1. PICK h \in [0..Len(q) -> Phases] :
        /\ h[0] = a /\ h[Len(q)] = b
        /\ \A i \in 1..Len(q) : MovesPhase(h[i - 1], q[i], h[i])
  BY DEF Leads
<1> DEFINE p == q \o <<m>>
<1>2. /\ Len(q) \in Nat /\ Len(p) = Len(q) + 1 /\ p[Len(q) + 1] = m
      /\ \A i \in 1..Len(q) : p[i] = q[i]
  OBVIOUS
<1> HIDE DEF p
<1> DEFINE g == [i \in 0..Len(p) |-> IF i = Len(p) THEN c ELSE h[i]]
<1>3. g \in [0..Len(p) -> Phases] /\ g[0] = a /\ g[Len(p)] = c
  BY <1>1, <1>2
<1>4. ASSUME NEW i \in 1..Len(p) PROVE MovesPhase(g[i - 1], p[i], g[i])
  <2>1. CASE i = Len(p)
    <3>1. g[i] = c /\ g[i - 1] = b /\ p[i] = m
      BY <1>1, <1>2, <2>1
    <3> HIDE DEF g
    <3> QED BY <3>1
  <2>2. CASE i # Len(p)
    <3>1. i \in 1..Len(q) /\ g[i] = h[i] /\ g[i - 1] = h[i - 1] /\ p[i] = q[i]
      BY <1>2, <2>2
    <3>2. MovesPhase(h[i - 1], q[i], h[i])
      BY <1>1, <3>1
    <3> HIDE DEF g
    <3> QED BY <3>1, <3>2
  <2> QED BY <2>1, <2>2
<1> HIDE DEF g
<1> QED BY <1>3, <1>4 DEF Leads, p

(* Taking the first record, the coordinator is where it moves the phase.   *)
LEMMA FollowsTail ==
  ASSUME NEW st, NEW sy, NEW from \in Seq(Records), NEW tg, Follows(st, sy, from, tg),
         from # <<>>, NEW st2, NEW sy2,
         \A now, n2 \in Phases : Shows(st, sy, now) /\ MovesPhase(now, Head(from), n2)
                                   => Shows(st2, sy2, n2)
  PROVE  Follows(st2, sy2, Tail(from), tg)
<1>1. PICK now, last \in Phases : Shows(st, sy, now) /\ Leads(now, from, last) /\ Stands(tg, last)
  BY DEF Follows
<1>2. PICK n2 \in Phases : MovesPhase(now, Head(from), n2) /\ Leads(n2, Tail(from), last)
  BY <1>1, LeadsTail
<1>3. Shows(st2, sy2, n2)
  BY <1>1, <1>2
<1> QED BY <1>1, <1>2, <1>3 DEF Follows

(* Printing a record of what happened to the target. *)
LEMMA FollowsAppend ==
  ASSUME NEW st, NEW sy, NEW from \in Seq(Records), NEW tg, Follows(st, sy, from, tg),
         NEW m \in Records, NEW tg2,
         \A last \in Phases : Stands(tg, last) =>
           \E l2 \in Phases : MovesPhase(last, m, l2) /\ Stands(tg2, l2)
  PROVE  Follows(st, sy, from \o <<m>>, tg2)
<1>1. PICK now, last \in Phases : Shows(st, sy, now) /\ Leads(now, from, last) /\ Stands(tg, last)
  BY DEF Follows
<1>2. PICK l2 \in Phases : MovesPhase(last, m, l2) /\ Stands(tg2, l2)
  BY <1>1
<1>3. Leads(now, from \o <<m>>, l2)
  BY <1>1, <1>2, LeadsAppend
<1> QED BY <1>1, <1>2, <1>3 DEF Follows

(* A fresh slot is attaching, and so is its target. *)
LEMMA FollowsFresh ==
  ASSUME NEW state \in {"none", "launching"}
  PROVE  Follows(state, FALSE, <<>>, "unattached")
<1>1. "attaching" \in Phases /\ Leads("attaching", <<>>, "attaching")
  BY LeadsNowhere DEF Phases
<1> QED BY <1>1 DEF Follows, Shows, Stands

(* Fresh slots show what they should. *)
LEMMA FreshFollows ==
  ASSUME NEW state \in {"none", "launching"}, NEW up, FreshSlots(state, up),
         launched' = (state = "launching")
  PROVE  ShownRight'
<1>1. \A r \in Ranks : Follows(currentState'[r], synced'[r], fromGdb'[r], target'[r])
  BY FollowsFresh DEF FreshSlots
<1>2. Slots'
  BY DEF Slots, FreshSlots
<1> QED BY <1>1, <1>2 DEF ShownRight, FollowsAt

(* Nothing is shown at first. *)
LEMMA InitFollows == Init => ShownRight
<1> SUFFICES ASSUME Init PROVE ShownRight
  OBVIOUS
<1>1. \A r \in Ranks : FollowsAt(r)
  BY FollowsFresh DEF Init, FollowsAt
<1> QED BY <1>1 DEF Init, ShownRight, Slots

(* A step that leaves what a rank shows and its target alone.              *)
LEMMA OthersFollow ==
  ASSUME NEW q, FollowsAt(q), currentState'[q] = currentState[q], synced'[q] = synced[q],
         fromGdb'[q] = fromGdb[q], target'[q] = target[q]
  PROVE  FollowsAt(q)'
BY DEF FollowsAt

(* The views keep what is shown in step, and launch or end a session.      *)
LEMMA ViewsFollow ==
  ASSUME TypeOK, ShownRight, Views
  PROVE  ShownRight' /\ (Lifecycle!Launch \/ Lifecycle!Terminate \/ UNCHANGED currentState)
<1>1. CASE LaunchParallelSession
  <2>1. FreshSlots("launching", "starting") /\ launched'
    BY <1>1 DEF LaunchParallelSession
  <2>2. launched' = ("launching" = "launching")
    BY <1>1 DEF LaunchParallelSession
  <2>3. ShownRight'
    BY <2>1, <2>2, FreshFollows
  <2> QED BY <2>1, <2>3 DEF FreshSlots, Lifecycle!Launch
<1>2. CASE TerminateAllSessions
  <2>1. FreshSlots("none", "none")
    BY <1>2 DEF TerminateAllSessions
  <2>2. launched' = ("none" = "launching")
    BY <1>2 DEF TerminateAllSessions
  <2>3. ShownRight'
    BY <2>1, <2>2, FreshFollows
  <2> QED BY <2>1, <2>3 DEF FreshSlots, Lifecycle!Terminate
<1>3. ASSUME UNCHANGED <<launched, currentState, synced, fromGdb, target>>,
             ~ launched => UNCHANGED toGdb
      PROVE  ShownRight' /\ UNCHANGED currentState
  <2>1. \A r \in Ranks : FollowsAt(r)'
    BY <1>3, OthersFollow DEF ShownRight
  <2>2. Slots'
    BY <1>3 DEF ShownRight, Slots
  <2> QED BY <1>3, <2>1, <2>2 DEF ShownRight
<1>4. ASSUME NEW line \in Lines, NEW isSet \in BOOLEAN, EditBreakpoint(line, isSet)
      PROVE  ShownRight' /\ UNCHANGED currentState
  BY <1>3, <1>4 DEF EditBreakpoint, gdbVars
<1>5. ASSUME NEW name \in {"continue", "interrupt"}, NEW to, Command(name, to)
      PROVE  ShownRight' /\ UNCHANGED currentState
  BY <1>3, <1>5 DEF Command, gdbVars, stateVars
<1> QED BY <1>1, <1>2, <1>4, <1>5 DEF Views

(* A record is handled in the phase it leaves, and moves what is shown     *)
(* along: a first stop finds the rank launching, an exit finds it running. *)
LEMMA TakeFollows ==
  ASSUME TypeOK, ShownRight, NEW r \in Ranks, NEW kind, Take(r, kind),
         NEW st2 \in States \ {"none"}, NEW sy2 \in BOOLEAN,
         currentState' = [currentState EXCEPT ![r] = st2],
         synced' = [synced EXCEPT ![r] = sy2],
         UNCHANGED <<launched, target>>,
         \A now, n2 \in Phases :
           Shows(currentState[r], synced[r], now) /\ MovesPhase(now, Head(fromGdb[r]), n2)
             => Shows(st2, sy2, n2)
  PROVE  ShownRight'
<1>1. fromGdb \in [Ranks -> Seq(Records)] /\ fromGdb[r] \in Seq(Records)
  BY DEF TypeOK
<1>2. fromGdb[r] # <<>> /\ fromGdb' = [fromGdb EXCEPT ![r] = Tail(@)]
  BY DEF Take
<1>3. launched
  BY <1>2 DEF ShownRight, Slots
<1>4. Follows(st2, sy2, Tail(fromGdb[r]), target[r])
  BY <1>1, <1>2, FollowsTail DEF ShownRight, FollowsAt
<1>5. /\ currentState'[r] = st2 /\ synced'[r] = sy2 /\ fromGdb'[r] = Tail(fromGdb[r])
      /\ target'[r] = target[r]
  BY <1>1, <1>2 DEF TypeOK
<1>6. FollowsAt(r)'
  BY <1>4, <1>5 DEF FollowsAt
<1>7. ASSUME NEW q \in Ranks, q # r PROVE FollowsAt(q)'
  <2>1. /\ currentState'[q] = currentState[q] /\ synced'[q] = synced[q]
        /\ fromGdb'[q] = fromGdb[q] /\ target'[q] = target[q]
    BY <1>1, <1>2, <1>7 DEF TypeOK
  <2> QED BY <2>1, OthersFollow DEF ShownRight
<1>8. Slots'
  <2>1. \A q \in Ranks : currentState'[q] # "none"
    BY <1>3 DEF ShownRight, Slots, TypeOK
  <2> QED BY <1>3, <2>1 DEF Slots
<1> QED BY <1>6, <1>7, <1>8 DEF ShownRight

(* What the coordinator knows of the rank whose record it handles.         *)
LEMMA HeadMoves ==
  ASSUME TypeOK, ShownRight, NEW r \in Ranks, fromGdb[r] # <<>>
  PROVE  /\ currentState[r] # "none"
         /\ \E now, n2 \in Phases : /\ Shows(currentState[r], synced[r], now)
                                    /\ MovesPhase(now, Head(fromGdb[r]), n2)
<1>1. launched
  BY DEF ShownRight, Slots
<1>2. Follows(currentState[r], synced[r], fromGdb[r], target[r]) /\ fromGdb[r] \in Seq(Records)
  BY DEF ShownRight, FollowsAt, TypeOK
<1>3. PICK now, last \in Phases : /\ Shows(currentState[r], synced[r], now)
                                  /\ Leads(now, fromGdb[r], last)
  BY <1>2 DEF Follows
<1>4. \E n2 \in Phases : MovesPhase(now, Head(fromGdb[r]), n2)
  BY <1>2, <1>3, LeadsTail
<1> QED BY <1>1, <1>3, <1>4 DEF ShownRight, Slots

(* What is shown of a rank moves as RankLifecycle allows, or not at all.   *)
MayShow(r) ==
  \/ UNCHANGED currentState
  \/ \E to \in States : /\ Lifecycle!Moves(currentState[r], to)
                        /\ currentState' = [currentState EXCEPT ![r] = to]

(* Timers and processGdbOutput keep what is shown in step. *)
LEMMA HandleFollows ==
  ASSUME TypeOK, ShownRight, NEW r \in Ranks,
         Handle(r) \/ \E s \in 1..MaxLaunches : TimerFires(r, s)
  PROVE  ShownRight' /\ MayShow(r)
<1> DEFINE st == currentState[r]
           sy == synced[r]
           m  == Head(fromGdb[r])
<1>a. /\ currentState = [currentState EXCEPT ![r] = st] /\ synced = [synced EXCEPT ![r] = sy]
      /\ st \in States /\ sy \in BOOLEAN
  BY DEF TypeOK
<1>b. /\ "running" \in States /\ "stopped" \in States /\ "exited" \in States
      /\ "sync_flushing" \in States
  BY DEF States
<1>1. ASSUME NEW s \in 1..MaxLaunches, TimerFires(r, s)
      PROVE  ShownRight' /\ MayShow(r)
  <2>1. UNCHANGED <<launched, currentState, synced, fromGdb, target>>
    BY <1>1 DEF TimerFires, stateVars, gdbVars
  <2>2. \A q \in Ranks : FollowsAt(q)'
    BY <2>1, OthersFollow DEF ShownRight
  <2>3. ~ launched => \A q \in Ranks : toGdb'[q] = toGdb[q]
    BY <1>1 DEF TimerFires, Write, TypeOK
  <2>4. Slots'
    BY <2>1, <2>3 DEF ShownRight, Slots
  <2> QED BY <2>1, <2>2, <2>4 DEF ShownRight, MayShow
<1>2. CASE HandleFirstStop(r)
  <2>1. /\ Take(r, "stopped") /\ ~ synced[r] /\ synced' = [synced EXCEPT ![r] = TRUE]
        /\ UNCHANGED <<launched, target>>
    BY <1>2 DEF HandleFirstStop, gdbVars
  <2>2. PICK st2 \in {"running", "sync_flushing"} :
          currentState' = [currentState EXCEPT ![r] = st2]
    BY <1>2 DEF HandleFirstStop, Release
  <2>3. m.kind = "stopped" /\ fromGdb[r] # <<>>
    BY <2>1 DEF Take
  <2>4. st = "launching"
    BY <2>1, <2>3, HeadMoves, <1>a DEF Shows
  <2>5. \A now, n2 \in Phases :
          Shows(st, sy, now) /\ MovesPhase(now, m, n2) => Shows(st2, TRUE, n2)
    BY <2>3 DEF Shows, MovesPhase
  <2>6. ShownRight'
    BY <1>b, <2>1, <2>2, <2>5, TakeFollows
  <2>7. MayShow(r)
    BY <1>b, <2>2, <2>4 DEF MayShow, Lifecycle!Moves
  <2> QED BY <2>6, <2>7
<1>3. CASE HandleStopped(r)
  <2>1. /\ Take(r, "stopped") /\ synced[r] /\ UNCHANGED <<launched, synced, target>>
    BY <1>3 DEF HandleStopped, gdbVars
  <2>2. PICK st2 \in {"running", "stopped"} :
          currentState' = [currentState EXCEPT ![r] = st2]
    BY <1>3 DEF HandleStopped
  <2>3. m.kind = "stopped" /\ fromGdb[r] # <<>>
    BY <2>1 DEF Take
  <2>4. st = "running"
    BY <2>1, <2>3, HeadMoves, <1>a DEF Shows, MovesPhase, Phases, States
  <2>5. \A now, n2 \in Phases :
          Shows(st, sy, now) /\ MovesPhase(now, m, n2) => Shows(st2, sy, n2)
    BY <2>1, <2>3 DEF Shows, MovesPhase
  <2>6. synced' = [synced EXCEPT ![r] = sy]
    BY <1>a, <2>1
  <2>a. st2 \in States \ {"none"} /\ sy \in BOOLEAN
    BY <1>a, <1>b
  <2>7. ShownRight'
    BY <2>a, <2>1, <2>2, <2>5, <2>6, TakeFollows
  <2>8. MayShow(r)
    <3>1. CASE st2 = "stopped"
      BY <1>b, <2>2, <2>4, <3>1 DEF MayShow, Lifecycle!Moves
    <3>2. CASE st2 = "running"
      BY <1>a, <2>2, <2>4, <3>2 DEF MayShow
    <3> QED BY <3>1, <3>2
  <2> QED BY <2>7, <2>8
<1>4. CASE HandleExecution(r)
  <2>1. UNCHANGED <<launched, synced, target>>
    BY <1>4 DEF HandleExecution, gdbVars
  <2>2. PICK st2 \in {"running", "exited"} :
          Take(r, st2) /\ currentState' = [currentState EXCEPT ![r] = st2]
    BY <1>4 DEF HandleExecution, ShownExited
  <2>3. m.kind = st2 /\ fromGdb[r] # <<>>
    BY <2>2 DEF Take
  <2>4. /\ st2 = "running" => st \in {"sync_flushing", "stopped", "running"}
        /\ st2 = "exited" => st = "running"
    BY <2>3, HeadMoves, <1>a DEF Shows, MovesPhase, Phases, States
  <2>5. \A now, n2 \in Phases :
          Shows(st, sy, now) /\ MovesPhase(now, m, n2) => Shows(st2, sy, n2)
    BY <2>3 DEF Shows, MovesPhase
  <2>6. synced' = [synced EXCEPT ![r] = sy]
    BY <1>a, <2>1
  <2>a. st2 \in States \ {"none"} /\ sy \in BOOLEAN
    BY <1>a, <1>b
  <2>7. ShownRight'
    BY <2>a, <2>1, <2>2, <2>5, <2>6, TakeFollows
  <2>8. MayShow(r)
    <3>1. CASE st = st2
      BY <1>a, <2>2, <3>1 DEF MayShow
    <3>2. CASE st # st2
      BY <1>b, <2>2, <2>4, <3>2 DEF MayShow, Lifecycle!Moves
    <3> QED BY <3>1, <3>2
  <2> QED BY <2>7, <2>8
<1>5. CASE HandleBkpt(r)
  <2>1. Take(r, "bkpt") /\ UNCHANGED <<launched, synced, target>>
    BY <1>5 DEF HandleBkpt, gdbVars
  <2>2. PICK st2 \in States :
          /\ currentState' = [currentState EXCEPT ![r] = st2]
          /\ st2 = st \/ (st = "sync_flushing" /\ st2 = "running")
    BY <1>5, <1>a, <1>b DEF HandleBkpt
  <2>3. m.kind = "bkpt" /\ fromGdb[r] # <<>>
    BY <2>1 DEF Take
  <2>4. st # "none"
    BY <2>3, HeadMoves
  <2>5. \A now, n2 \in Phases :
          Shows(st, sy, now) /\ MovesPhase(now, m, n2) => Shows(st2, sy, n2)
    BY <2>2, <2>3 DEF Shows, MovesPhase
  <2>6. synced' = [synced EXCEPT ![r] = sy]
    BY <1>a, <2>1
  <2>7. ShownRight'
    BY <1>a, <2>1, <2>2, <2>4, <2>5, <2>6, TakeFollows
  <2>8. MayShow(r)
    <3>1. CASE st2 = st
      BY <1>a, <2>2, <3>1 DEF MayShow
    <3>2. CASE st2 # st
      BY <1>b, <2>2, <3>2 DEF MayShow, Lifecycle!Moves
    <3> QED BY <3>1, <3>2
  <2> QED BY <2>7, <2>8
<1>6. CASE HandleRefused(r)
  <2>1. Take(r, "refused") /\ UNCHANGED <<launched, currentState, synced, target>>
    BY <1>6 DEF HandleRefused, gdbVars, stateVars
  <2>2. m.kind = "refused" /\ fromGdb[r] # <<>>
    BY <2>1 DEF Take
  <2>3. st # "none"
    BY <2>2, HeadMoves
  <2>4. \A now, n2 \in Phases :
          Shows(st, sy, now) /\ MovesPhase(now, m, n2) => Shows(st, sy, n2)
    BY <2>2 DEF Shows, MovesPhase
  <2>5. currentState' = [currentState EXCEPT ![r] = st] /\ synced' = [synced EXCEPT ![r] = sy]
    BY <1>a, <2>1
  <2>6. st \in States \ {"none"} /\ sy \in BOOLEAN
    BY <1>a, <1>b, <2>3
  <2>7. ShownRight'
    BY <2>1, <2>4, <2>5, <2>6, TakeFollows
  <2> QED BY <2>1, <2>7 DEF MayShow
<1> QED BY <1>1, <1>2, <1>3, <1>4, <1>5, <1>6 DEF Handle

(* gdb prints a record of what happens to its target.                      *)
LEMMA EmitFollows ==
  ASSUME TypeOK, ShownRight, NEW r \in Ranks, NEW m \in Records, Emit(r, <<m>>), launched,
         NEW tg, target' = [target EXCEPT ![r] = tg],
         UNCHANGED <<launched, currentState, synced>>,
         \A last \in Phases : Stands(target[r], last) =>
           \E l2 \in Phases : MovesPhase(last, m, l2) /\ Stands(tg, l2)
  PROVE  ShownRight'
<1>1. fromGdb \in [Ranks -> Seq(Records)] /\ fromGdb[r] \in Seq(Records)
  BY DEF TypeOK
<1>2. fromGdb'[r] = fromGdb[r] \o <<m>> /\ target'[r] = tg
  BY <1>1 DEF Emit, TypeOK
<1>3. Follows(currentState[r], synced[r], fromGdb[r] \o <<m>>, tg)
  BY <1>1, FollowsAppend DEF ShownRight, FollowsAt
<1>4. FollowsAt(r)'
  BY <1>2, <1>3 DEF FollowsAt
<1>5. ASSUME NEW q \in Ranks, q # r PROVE FollowsAt(q)'
  <2>1. fromGdb'[q] = fromGdb[q] /\ target'[q] = target[q]
    BY <1>1, <1>5 DEF Emit, TypeOK
  <2> QED BY <2>1, OthersFollow DEF ShownRight
<1>6. Slots'
  BY DEF ShownRight, Slots
<1> QED BY <1>4, <1>5, <1>6 DEF ShownRight

(* Nothing that is shown changes, and a queue is read only if it is not empty. *)
LEMMA SilentFollows ==
  ASSUME ShownRight, UNCHANGED <<launched, currentState, synced, fromGdb, target>>,
         launched \/ UNCHANGED toGdb
  PROVE  ShownRight'
<1>1. \A q \in Ranks : FollowsAt(q)'
  BY OthersFollow DEF ShownRight
<1>2. Slots'
  BY DEF ShownRight, Slots
<1> QED BY <1>1, <1>2 DEF ShownRight

(* gdb, gdbserver and the target show nothing, and keep what is shown in   *)
(* step with what they do.                                                 *)
LEMMA GdbFollows ==
  ASSUME TypeOK, ShownRight, NEW r \in Ranks,
         \/ Gdb(r)
         \/ ServerListens(r)
         \/ \E mp \in BOOLEAN : TargetStops(r, mp)
         \/ TargetExits(r)
  PROVE  ShownRight' /\ UNCHANGED currentState
<1>a. \A names : Reads(r, names) => launched
  BY DEF ShownRight, Slots, Reads
<1>b. target[r] # "unattached" => launched
  BY DEF ShownRight, Slots
<1>c. target = [target EXCEPT ![r] = target[r]]
  BY DEF TypeOK
<1>d. /\ \A mp \in BOOLEAN : Stopped(mp) \in Records /\ Stopped(mp).kind = "stopped"
      /\ \A kind \in {"running", "exited", "refused"} :
           Plain(kind) \in Records /\ Plain(kind).kind = kind
      /\ \A b \in Breakpoint : Bkpt(b) \in Records /\ Bkpt(b).kind = "bkpt"
  BY RecordsType DEF Stopped, Plain, Bkpt
<1>e. \A last \in Phases, m \in Records : m.kind \in {"bkpt", "refused"} => MovesPhase(last, m, last)
  BY DEF MovesPhase
<1>f. /\ \A m \in Records : m.kind = "stopped" =>
             /\ MovesPhase("attaching", m, "halted") /\ MovesPhase("going", m, "halted")
      /\ \A m \in Records : m.kind = "running" => MovesPhase("halted", m, "going")
      /\ \A m \in Records : m.kind = "exited" => MovesPhase("going", m, "over")
  BY DEF MovesPhase
<1>g. "attaching" \in Phases /\ "halted" \in Phases /\ "going" \in Phases /\ "over" \in Phases
  BY DEF Phases
<1>1. ASSUME NEW mp \in BOOLEAN, target[r] = "running" \/ target[r] = "unattached", launched,
             Emit(r, <<Stopped(mp)>>), target' = [target EXCEPT ![r] = "stopped"],
             UNCHANGED <<launched, currentState, synced>>
      PROVE  ShownRight'
  <2> DEFINE m == Stopped(mp)
  <2>1. m \in Records /\ m.kind = "stopped" /\ Emit(r, <<m>>)
    BY <1>d, <1>1
  <2> HIDE DEF m
  <2>2. \A last \in Phases : Stands(target[r], last) =>
           \E l2 \in Phases : MovesPhase(last, m, l2) /\ Stands("stopped", l2)
    BY <1>f, <1>g, <1>1, <2>1 DEF Stands
  <2> QED BY <1>1, <2>1, <2>2, EmitFollows
<1>2. CASE GdbConnects(r)
  <2>1. launched /\ UNCHANGED <<launched, currentState, synced>>
    BY <1>a, <1>2 DEF GdbConnects, stateVars
  <2>2. CASE target[r] = "unattached" /\ server[r] = "listening"
    <3>1. Emit(r, <<Stopped(FALSE)>>) /\ target' = [target EXCEPT ![r] = "stopped"]
      BY <1>2, <2>2 DEF GdbConnects
    <3> QED BY <1>1, <2>1, <2>2, <3>1
  <2>3. CASE ~ (target[r] = "unattached" /\ server[r] = "listening")
    <3> DEFINE m  == Plain("refused")
               tg == IF target[r] = "unattached" THEN target[r] ELSE "over"
    <3>1. Emit(r, <<m>>) /\ target' = [target EXCEPT ![r] = tg]
      BY <1>2, <2>3 DEF GdbConnects
    <3>2. m \in Records /\ m.kind = "refused"
      BY <1>d
    <3>3. \A last \in Phases : Stands(target[r], last) => Stands(tg, last)
      BY DEF Stands
    <3> HIDE DEF m, tg
    <3>4. \A last \in Phases : Stands(target[r], last) =>
             \E l2 \in Phases : MovesPhase(last, m, l2) /\ Stands(tg, l2)
      BY <1>e, <3>2, <3>3
    <3> QED BY <2>1, <3>1, <3>2, <3>4, EmitFollows
  <2> QED BY <2>1, <2>2, <2>3
<1>3. CASE GdbInserts(r)
  <2> DEFINE c  == Head(toGdb[r])
             at == IF target[r] = "unattached" THEN Pending ELSE Reported[c.line]
             b  == [id |-> nextId[r], line |-> c.line, at |-> at]
             m  == Bkpt(b)
  <2>1. launched /\ UNCHANGED <<launched, currentState, synced, target>>
    BY <1>a, <1>3 DEF GdbInserts, stateVars
  <2>2. Emit(r, <<m>>) \/ UNCHANGED fromGdb
    BY <1>3 DEF GdbInserts
  <2>3. c.line \in Lines
    BY <1>3, PipesType, CommandFields DEF GdbInserts
  <2>4. b \in Breakpoint
    BY <2>3, ReportedType DEF TypeOK, Breakpoint, Locations
  <2>5. m \in Records /\ m.kind = "bkpt"
    BY <1>d, <2>4
  <2> HIDE DEF m
  <2>6. CASE Emit(r, <<m>>)
    <3>1. \A last \in Phases : Stands(target[r], last) =>
             \E l2 \in Phases : MovesPhase(last, m, l2) /\ Stands(target[r], l2)
      BY <1>e, <2>5
    <3> QED BY <1>c, <2>1, <2>5, <2>6, <3>1, EmitFollows
  <2>7. CASE UNCHANGED fromGdb
    BY <2>1, <2>7, SilentFollows
  <2> QED BY <2>1, <2>2, <2>6, <2>7
<1>4. CASE GdbDeletes(r)
  <2>1. launched /\ UNCHANGED <<launched, currentState, synced, fromGdb, target>>
    BY <1>a, <1>4 DEF GdbDeletes, stateVars
  <2> QED BY <2>1, SilentFollows
<1>5. CASE GdbExecutes(r)
  <2>1. launched /\ UNCHANGED <<launched, currentState, synced>>
    BY <1>a, <1>5 DEF GdbExecutes, stateVars
  <2>2. CASE /\ target[r] = "stopped" /\ target' = [target EXCEPT ![r] = "running"]
             /\ Emit(r, <<Plain("running")>>)
    <3> DEFINE m == Plain("running")
    <3>1. m \in Records /\ m.kind = "running" /\ Emit(r, <<m>>)
      BY <1>d, <2>2
    <3> HIDE DEF m
    <3>2. \A last \in Phases : Stands(target[r], last) =>
             \E l2 \in Phases : MovesPhase(last, m, l2) /\ Stands("running", l2)
      BY <1>f, <1>g, <2>2, <3>1 DEF Stands
    <3> QED BY <2>1, <2>2, <3>1, <3>2, EmitFollows
  <2>3. CASE /\ target[r] = "running" /\ target' = [target EXCEPT ![r] = "stopped"]
             /\ \E mp \in BOOLEAN : Emit(r, <<Stopped(mp)>>)
    BY <1>1, <2>1, <2>3
  <2>4. CASE UNCHANGED <<target, fromGdb>>
    BY <2>1, <2>4, SilentFollows
  <2>5. \/ /\ target[r] = "stopped" /\ target' = [target EXCEPT ![r] = "running"]
           /\ Emit(r, <<Plain("running")>>)
        \/ /\ target[r] = "running" /\ target' = [target EXCEPT ![r] = "stopped"]
           /\ \E mp \in BOOLEAN : Emit(r, <<Stopped(mp)>>)
        \/ UNCHANGED <<target, fromGdb>>
    BY <1>5 DEF GdbExecutes
  <2> QED BY <2>1, <2>2, <2>3, <2>4, <2>5
<1>6. CASE ServerListens(r)
  <2>1. UNCHANGED <<launched, currentState, synced, fromGdb, target, toGdb>>
    BY <1>6 DEF ServerListens, stateVars
  <2> QED BY <2>1, SilentFollows
<1>7. ASSUME NEW mp \in BOOLEAN, TargetStops(r, mp)
      PROVE  ShownRight' /\ UNCHANGED currentState
  <2>1. /\ target[r] = "running" /\ Emit(r, <<Stopped(mp)>>)
        /\ target' = [target EXCEPT ![r] = "stopped"]
        /\ UNCHANGED <<launched, currentState, synced>>
    BY <1>7 DEF TargetStops, stateVars
  <2> QED BY <1>b, <1>1, <2>1
<1>8. CASE TargetExits(r)
  <2> DEFINE m == Plain("exited")
  <2>1. /\ target[r] = "running" /\ Emit(r, <<m>>) /\ target' = [target EXCEPT ![r] = "over"]
        /\ UNCHANGED <<launched, currentState, synced>>
    BY <1>8 DEF TargetExits, stateVars
  <2>2. m \in Records /\ m.kind = "exited"
    BY <1>d
  <2> HIDE DEF m
  <2>3. \A last \in Phases : Stands(target[r], last) =>
           \E l2 \in Phases : MovesPhase(last, m, l2) /\ Stands("over", l2)
    BY <1>f, <1>g, <2>1, <2>2 DEF Stands
  <2> QED BY <1>b, <2>1, <2>2, <2>3, EmitFollows
<1> QED BY <1>2, <1>3, <1>4, <1>5, <1>6, <1>7, <1>8 DEF Gdb

(* Every step keeps what is shown in step with the target, and moves what  *)
(* is shown as RankLifecycle does.                                         *)
LEMMA StepFollows ==
  TypeOK /\ ShownRight /\ [Next]_vars => ShownRight' /\ [Lifecycle!Next]_currentState
<1> SUFFICES ASSUME TypeOK, ShownRight, [Next]_vars
             PROVE  ShownRight' /\ [Lifecycle!Next]_currentState
  OBVIOUS
<1>1. \A r \in Ranks : MayShow(r) => [Lifecycle!Next]_currentState
  BY DEF MayShow, Lifecycle!Next, Lifecycle!Move, Lifecycle!States, States
<1>2. CASE Next
  <2>1. CASE Views
    BY <2>1, ViewsFollow DEF Lifecycle!Next
  <2>2. ASSUME NEW r \in Ranks, Handle(r) \/ \E s \in 1..MaxLaunches : TimerFires(r, s)
        PROVE  ShownRight' /\ [Lifecycle!Next]_currentState
    BY <1>1, <2>2, HandleFollows
  <2>3. ASSUME NEW r \in Ranks,
               \/ Gdb(r)
               \/ ServerListens(r)
               \/ \E mp \in BOOLEAN : TargetStops(r, mp)
               \/ TargetExits(r)
        PROVE  ShownRight' /\ [Lifecycle!Next]_currentState
    BY <2>3, GdbFollows
  <2> QED BY <1>2, <2>1, <2>2, <2>3 DEF Next
<1>3. CASE UNCHANGED vars
  <2>1. UNCHANGED <<launched, currentState, synced, fromGdb, target, toGdb>>
    BY <1>3 DEF vars, stateVars, gdbVars
  <2> QED BY <2>1, SilentFollows
<1> QED BY <1>2, <1>3

(* The coordinator's states of the ranks implement RankLifecycle, however  *)
(* records, edits, timers and sessions interleave: a rank is not shown     *)
(* stopped before its breakpoints were flushed, a stop is shown only of a  *)
(* rank that was shown running, and one that exited stays so.              *)
THEOREM LifecycleShown == Spec => ShowsLifecycle
<1>1. Init => Lifecycle!Init
  BY DEF Init, Lifecycle!Init
<1>2. Spec => [](TypeOK /\ ShownRight)
  BY InitType, StepType, InitFollows, StepFollows, PTL DEF Spec
<1>3. Spec => [][Lifecycle!Next]_currentState
  BY <1>2, StepFollows, PTL DEF Spec
<1> QED BY <1>1, <1>3, PTL DEF Spec, ShowsLifecycle, Lifecycle!Spec

-----------------------------------------------------------------------------
(* Whether a queue holds something of a set, and whether it holds just one. *)

Has(q, C) == \E i \in 1..Len(q) : q[i] \in C

HasOne(q, C) == \E i \in 1..Len(q) : q[i] \in C /\ \A j \in 1..Len(q) : q[j] \in C => j = i

(* Nothing is in an empty queue. *)
LEMMA HasNothing == ASSUME NEW C PROVE ~ Has(<<>>, C)
BY DEF Has

(* What a queue holds after more is written to it. *)
LEMMA HasConcat ==
  ASSUME NEW S, NEW q \in Seq(S), NEW s \in Seq(S), NEW C
  PROVE  /\ Has(q \o s, C) <=> Has(q, C) \/ Has(s, C)
         /\ HasOne(q, C) /\ ~ Has(s, C) => HasOne(q \o s, C)
         /\ ~ Has(q, C) /\ HasOne(s, C) => HasOne(q \o s, C)
<1> DEFINE p == q \o s
<1>1. /\ Len(q) \in Nat /\ Len(s) \in Nat /\ Len(p) = Len(q) + Len(s)
      /\ \A i \in 1..Len(q) : i \in 1..Len(p) /\ p[i] = q[i]
      /\ \A i \in 1..Len(s) : Len(q) + i \in 1..Len(p) /\ p[Len(q) + i] = s[i]
  OBVIOUS
<1>2. \A i \in 1..Len(p) : \/ i \in 1..Len(q) /\ p[i] = q[i]
                           \/ i - Len(q) \in 1..Len(s) /\ p[i] = s[i - Len(q)]
  BY <1>1
<1> HIDE DEF p
<1>3. Has(p, C) <=> Has(q, C) \/ Has(s, C)
  <2>1. Has(q, C) => Has(p, C)
    BY <1>1 DEF Has
  <2>2. Has(s, C) => Has(p, C)
    BY <1>1 DEF Has
  <2>3. Has(p, C) => Has(q, C) \/ Has(s, C)
    BY <1>2 DEF Has
  <2> QED BY <2>1, <2>2, <2>3
<1>4. ASSUME HasOne(q, C), ~ Has(s, C) PROVE HasOne(p, C)
  BY <1>1, <1>2, <1>4 DEF Has, HasOne
<1>5. ASSUME ~ Has(q, C), HasOne(s, C) PROVE HasOne(p, C)
  <2>1. PICK i \in 1..Len(s) : s[i] \in C /\ \A j \in 1..Len(s) : s[j] \in C => j = i
    BY <1>5 DEF HasOne
  <2>2. Len(q) + i \in 1..Len(p) /\ p[Len(q) + i] \in C
    BY <1>1, <2>1
  <2>3. ASSUME NEW j \in 1..Len(p), p[j] \in C PROVE j = Len(q) + i
    <3>1. j - Len(q) \in 1..Len(s) /\ s[j - Len(q)] \in C
      BY <1>2, <1>5, <2>3 DEF Has
    <3>2. j - Len(q) = i
      BY <2>1, <3>1
    <3> QED BY <1>1, <3>2
  <2> QED BY <2>2, <2>3 DEF HasOne
<1> QED BY <1>3, <1>4, <1>5 DEF p

(* What a queue holds after its head is taken. *)
LEMMA HasTail ==
  ASSUME NEW S, NEW q \in Seq(S), q # <<>>, NEW C
  PROVE  /\ Has(q, C) <=> Head(q) \in C \/ Has(Tail(q), C)
         /\ HasOne(q, C) /\ Head(q) \in C => ~ Has(Tail(q), C)
         /\ HasOne(q, C) /\ Head(q) \notin C => HasOne(Tail(q), C)
<1> DEFINE p == Tail(q)
<1>1. /\ Len(q) \in Nat \ {0} /\ Len(p) = Len(q) - 1 /\ Head(q) = q[1] /\ 1 \in 1..Len(q)
      /\ \A i \in 1..Len(p) : i + 1 \in 1..Len(q) /\ p[i] = q[i + 1]
  OBVIOUS
<1>2. \A i \in 1..Len(q) : i = 1 \/ (i - 1 \in 1..Len(p) /\ q[i] = p[i - 1])
  BY <1>1
<1> HIDE DEF p
<1>3. Has(q, C) <=> q[1] \in C \/ Has(p, C)
  <2>1. q[1] \in C => Has(q, C)
    BY <1>1 DEF Has
  <2>2. Has(p, C) => Has(q, C)
    BY <1>1 DEF Has
  <2>3. Has(q, C) => q[1] \in C \/ Has(p, C)
    BY <1>2 DEF Has
  <2> QED BY <2>1, <2>2, <2>3
<1>4. ASSUME HasOne(q, C)
      PROVE  (q[1] \in C => ~ Has(p, C)) /\ (q[1] \notin C => HasOne(p, C))
  <2>1. PICK i \in 1..Len(q) : q[i] \in C /\ \A j \in 1..Len(q) : q[j] \in C => j = i
    BY <1>4 DEF HasOne
  <2>2. q[1] \in C => i = 1
    BY <1>1, <2>1
  <2>3. ASSUME NEW j \in 1..Len(p), p[j] \in C PROVE j + 1 = i
    BY <1>1, <2>1, <2>3
  <2>4. q[1] \in C => ~ Has(p, C)
    BY <2>2, <2>3 DEF Has
  <2>5. ASSUME q[1] \notin C PROVE HasOne(p, C)
    <3>1. i - 1 \in 1..Len(p) /\ p[i - 1] \in C
      BY <1>2, <2>1, <2>5
    <3>2. \A j \in 1..Len(p) : p[j] \in C => j = i - 1
      BY <2>3
    <3> QED BY <3>1, <3>2 DEF HasOne
  <2> QED BY <2>4, <2>5
<1> QED BY <1>1, <1>3, <1>4 DEF p

(* A queue of one. *)
LEMMA HasSingle ==
  ASSUME NEW e, NEW C
  PROVE  (Has(<<e>>, C) <=> e \in C) /\ (e \in C => HasOne(<<e>>, C))
BY DEF Has, HasOne

(* A set of numbers that is not empty has a smallest one. *)
LEMMA SmallestNumber ==
  ASSUME NEW T, T \subseteq Nat, T # {}
  PROVE  \E x \in T : \A y \in T : x <= y
<1> DEFINE Less == {ss \in Nat \X Nat : ss[1] < ss[2]}
<1>1. IsWellFoundedOn(Less, Nat)
  BY NatLessThanWellFounded, SMT DEF OpToRel
<1>2. PICK x \in T : \A y \in T : ~ (<<y, x>> \in Less)
  BY <1>1, WFMin
<1>3. ASSUME NEW y \in T PROVE x <= y
  <2>1. x \in Nat /\ y \in Nat /\ <<y, x>> \notin Less
    BY <1>2
  <2>2. ~ (y < x)
    BY <2>1
  <2> QED BY <2>1, <2>2
<1> QED BY <1>3

(* A set of phases that no record of a queue leaves is not left. *)
LEMMA LeadsWithin ==
  ASSUME NEW a, NEW b, NEW q \in Seq(Records), Leads(a, q, b), NEW within, a \in within,
         \A i \in 1..Len(q) : \A c, d \in Phases :
           c \in within /\ MovesPhase(c, q[i], d) => d \in within
  PROVE  b \in within
<1>1. PICK h \in [0..Len(q) -> Phases] :
        /\ h[0] = a /\ h[Len(q)] = b
        /\ \A i \in 1..Len(q) : MovesPhase(h[i - 1], q[i], h[i])
  BY DEF Leads
<1>2. Len(q) \in Nat /\ Len(q) \in 0..Len(q)
  OBVIOUS
<1> DEFINE Out == {i \in 0..Len(q) : h[i] \notin within}
<1>3. SUFFICES ASSUME b \notin within PROVE FALSE
  OBVIOUS
<1>4. Out \subseteq Nat /\ Out # {}
  BY <1>1, <1>2, <1>3
<1>5. PICK i \in Out : \A j \in Out : i <= j
  BY <1>4, SmallestNumber
<1>6. i \in 1..Len(q) /\ i - 1 \in 0..Len(q) /\ i - 1 \notin Out
  <2>1. i # 0
    BY <1>1, <1>5
  <2>2. i \in 1..Len(q) /\ i - 1 \in 0..Len(q) /\ ~ (i <= i - 1)
    BY <1>2, <1>5, <2>1
  <2> HIDE DEF Out
  <2> QED BY <1>5, <2>2
<1>7. h[i - 1] \in within /\ h[i - 1] \in Phases /\ h[i] \in Phases
  BY <1>1, <1>2, <1>6
<1>8. h[i] \in within
  BY <1>1, <1>6, <1>7
<1> QED BY <1>5, <1>8

-----------------------------------------------------------------------------
(* What a step does to the pipes, the state and the target of its rank.    *)

Continues == {c \in Commands : c.name = "continue"}
Connects  == {c \in Commands : c.name = "connect"}
Changes   == {m \in Records : m.kind \in {"stopped", "running", "exited"}}
Exits     == {m \in Records : m.kind = "exited"}
Refusals  == {m \in Records : m.kind = "refused"}

(* A step of a rank leaves the others alone. *)
SameRank(q) ==
  /\ toGdb'[q] = toGdb[q] /\ fromGdb'[q] = fromGdb[q]
  /\ currentState'[q] = currentState[q] /\ synced'[q] = synced[q]
  /\ target'[q] = target[q] /\ timers'[q] = timers[q]
  /\ gdbBps'[q] = gdbBps[q] /\ nextId'[q] = nextId[q] /\ breakpoints'[q] = breakpoints[q]

(* A record of a rank is handled. *)
Handled(r) ==
  LET m == Head(fromGdb[r])
  IN  /\ launched /\ fromGdb[r] # <<>> /\ fromGdb'[r] = Tail(fromGdb[r])
      /\ UNCHANGED <<persisted, launched, sessions, target, gdbBps, nextId>>
      /\ \E added \in Seq(Commands) :
           /\ toGdb'[r] = toGdb[r] \o added
           /\ \A i \in 1..Len(added) : added[i].name \in {"continue", "flush"}
           /\ currentState'[r] = "running" =>
                \/ currentState[r] = "running" /\ m.kind \in {"bkpt", "refused"}
                \/ m.kind = "running"
                \/ Has(added, Continues)
      /\ m.kind = "exited" => currentState'[r] = "exited"
      /\ currentState[r] = "exited" => currentState'[r] = "exited"
      /\ IF m.kind = "refused"
         THEN timers' = [timers EXCEPT ![r][sessions] = @ + 1]
         ELSE UNCHANGED timers

(* gdb reads a command. *)
Read(r) ==
  LET c == Head(toGdb[r])
  IN  /\ launched /\ toGdb[r] # <<>> /\ toGdb'[r] = Tail(toGdb[r])
      /\ UNCHANGED <<persisted, stateVars, timers, sessions>>
      /\ \E added \in Seq(Records) :
           /\ fromGdb'[r] = fromGdb[r] \o added
           /\ \/ /\ c.name = "connect" /\ target[r] = "unattached" /\ target'[r] = "stopped"
                 /\ Has(added, Changes) /\ ~ Has(added, Refusals)
              \/ /\ c.name = "connect" /\ HasOne(added, Refusals)
                 /\ target'[r] = IF target[r] = "unattached" THEN target[r] ELSE "over"
              \/ /\ c.name # "connect" /\ ~ Has(added, Refusals)
                 /\ \/ target'[r] = target[r]
                    \/ target[r] = "stopped" /\ target'[r] = "running"
                    \/ /\ target[r] = "running" /\ target'[r] = "stopped"
                       /\ Has(added, Changes)
                 /\ c.name = "continue" => target'[r] # "stopped"

(* What the records and commands written are. *)
LEMMA WrittenKinds ==
  /\ \A mp \in BOOLEAN : /\ Stopped(mp) \in Records /\ Stopped(mp) \in Changes
                         /\ Stopped(mp) \notin Refusals
  /\ Plain("running") \in Records /\ Plain("running") \notin Refusals
  /\ Plain("exited") \in Records /\ Plain("exited") \in Exits /\ Plain("exited") \notin Refusals
  /\ Plain("refused") \in Records /\ Plain("refused") \in Refusals
  /\ \A b \in Breakpoint : Bkpt(b) \in Records /\ Bkpt(b) \notin Refusals
  /\ Exec("continue") \in Commands /\ Exec("continue") \in Continues
  /\ Exec("continue") \notin Connects
  /\ \A s \in 1..MaxLaunches : Connect(s) \in Commands /\ Connect(s) \in Connects
<1>1. /\ \A mp \in BOOLEAN : Stopped(mp) \in Records /\ Stopped(mp).kind = "stopped"
      /\ \A kind \in {"running", "exited", "refused"} :
           Plain(kind) \in Records /\ Plain(kind).kind = kind
      /\ \A b \in Breakpoint : Bkpt(b) \in Records /\ Bkpt(b).kind = "bkpt"
  BY RecordsType DEF Stopped, Plain, Bkpt
<1>2. /\ Exec("continue") \in Commands /\ Exec("continue").name = "continue"
      /\ \A s \in 1..MaxLaunches : Connect(s) \in Commands /\ Connect(s).name = "connect"
  BY CommandsType DEF Exec, Connect
<1> QED BY <1>1, <1>2 DEF Changes, Exits, Refusals, Continues, Connects

(* Handling a record, and nothing else, is Handled. *)
LEMMA HandleIsHandled ==
  ASSUME TypeOK, ShownRight, NEW r \in Ranks, Handle(r)
  PROVE  Handled(r) /\ \A q \in Ranks \ {r} : SameRank(q)
<1> DEFINE m == Head(fromGdb[r])
<1>a. /\ fromGdb \in [Ranks -> Seq(Records)] /\ toGdb \in [Ranks -> Seq(Commands)]
      /\ currentState \in [Ranks -> States] /\ synced \in [Ranks -> BOOLEAN]
      /\ timers \in [Ranks -> [1..MaxLaunches -> Nat]]
      /\ DOMAIN breakpoints = Ranks
  BY DEF TypeOK
<1>b. fromGdb[r] # <<>> => launched
  BY DEF ShownRight, Slots
<1> DEFINE none == <<>>
<1>c. none \in Seq(Commands) /\ (\A i \in 1..Len(none) : FALSE) /\ toGdb[r] = toGdb[r] \o none
  BY <1>a
<1> HIDE DEF none
<1> DEFINE go == <<Exec("continue")>>
<1>d. /\ go \in Seq(Commands) /\ \A i \in 1..Len(go) : go[i].name = "continue"
      /\ Has(go, Continues)
  BY WrittenKinds, HasSingle DEF Continues
<1> HIDE DEF go
<1>e. ASSUME fromGdb[r] # <<>>, currentState[r] = "exited"
      PROVE  m.kind \in {"bkpt", "refused"} /\ synced[r]
  <2>1. PICK now, n2 \in Phases : Shows("exited", synced[r], now) /\ MovesPhase(now, m, n2)
    BY <1>e, HeadMoves
  <2>2. m \in Records
    BY <1>a, <1>e
  <2> HIDE DEF m
  <2>3. now = "over" /\ synced[r]
    BY <2>1 DEF Shows
  <2>4. m.kind \in {"bkpt", "stopped", "running", "exited", "refused"}
    BY <2>2 DEF Records
  <2> QED BY <2>1, <2>3, <2>4 DEF MovesPhase
<1>1. CASE HandleFirstStop(r)
  <2>1. /\ Take(r, "stopped") /\ ~ synced[r]
        /\ UNCHANGED <<persisted, launched, breakpoints, timers, gdbVars, sessions>>
        /\ synced' = [synced EXCEPT ![r] = TRUE]
    BY <1>1 DEF HandleFirstStop
  <2>2. /\ fromGdb[r] # <<>> /\ m.kind = "stopped" /\ fromGdb'[r] = Tail(fromGdb[r])
        /\ \A q \in Ranks \ {r} : fromGdb'[q] = fromGdb[q] /\ synced'[q] = synced[q]
    BY <1>a, <2>1 DEF Take
  <2>3. PICK added \in Seq(Commands) :
          /\ Write(r, added) /\ \A i \in 1..Len(added) : added[i].name \in {"continue", "flush"}
          /\ \/ /\ Has(added, Continues)
                /\ currentState' = [currentState EXCEPT ![r] = "running"]
             \/ currentState' = [currentState EXCEPT ![r] = "sync_flushing"]
    <3>1. PICK cmds \in FlushCommands :
            \/ /\ Write(r, go) /\ currentState' = [currentState EXCEPT ![r] = "running"]
            \/ /\ Write(r, cmds) /\ currentState' = [currentState EXCEPT ![r] = "sync_flushing"]
      BY <1>1 DEF HandleFirstStop, Release, go
    <3>2. cmds \in Seq(Commands) /\ \A i \in 1..Len(cmds) : cmds[i].name = "flush"
      BY FlushType DEF TypeOK
    <3> QED BY <1>d, <3>1, <3>2
  <2>4. toGdb'[r] = toGdb[r] \o added /\ \A q \in Ranks \ {r} : toGdb'[q] = toGdb[q]
    BY <1>a, <1>b, <2>2, <2>3 DEF Write
  <2>5. /\ \A q \in Ranks \ {r} : currentState'[q] = currentState[q]
        /\ currentState'[r] = "running" => Has(added, Continues)
    BY <1>a, <2>3
  <2>6. currentState[r] # "exited"
    BY <1>e, <2>1, <2>2
  <2>7. Handled(r)
    BY <1>b, <2>1, <2>2, <2>3, <2>4, <2>5, <2>6 DEF Handled, gdbVars
  <2> QED BY <2>1, <2>2, <2>4, <2>5, <2>7 DEF SameRank, gdbVars
<1>2. CASE HandleStopped(r)
  <2>1. /\ Take(r, "stopped")
        /\ UNCHANGED <<persisted, launched, synced, breakpoints, timers, gdbVars, sessions>>
    BY <1>2 DEF HandleStopped
  <2>2. /\ fromGdb[r] # <<>> /\ m.kind = "stopped" /\ fromGdb'[r] = Tail(fromGdb[r])
        /\ \A q \in Ranks \ {r} : fromGdb'[q] = fromGdb[q]
    BY <1>a, <2>1 DEF Take
  <2>3. PICK added \in Seq(Commands) :
          /\ toGdb'[r] = toGdb[r] \o added /\ \A q \in Ranks \ {r} : toGdb'[q] = toGdb[q]
          /\ \A i \in 1..Len(added) : added[i].name \in {"continue", "flush"}
          /\ \/ /\ Has(added, Continues)
                /\ currentState' = [currentState EXCEPT ![r] = "running"]
             \/ currentState' = [currentState EXCEPT ![r] = "stopped"]
    <3>1. CASE Write(r, go) /\ currentState' = [currentState EXCEPT ![r] = "running"]
      <4>1. toGdb'[r] = toGdb[r] \o go /\ \A q \in Ranks \ {r} : toGdb'[q] = toGdb[q]
        BY <1>a, <1>b, <2>2, <3>1 DEF Write
      <4> QED BY <1>d, <3>1, <4>1
    <3>2. CASE UNCHANGED toGdb /\ currentState' = [currentState EXCEPT ![r] = "stopped"]
      BY <1>c, <3>2
    <3> QED BY <1>2, <3>1, <3>2 DEF HandleStopped, go
  <2>4. /\ \A q \in Ranks \ {r} : currentState'[q] = currentState[q]
        /\ currentState'[r] = "running" => Has(added, Continues)
    BY <1>a, <2>3
  <2>5. currentState[r] # "exited"
    BY <1>e, <2>2
  <2>6. Handled(r)
    BY <1>b, <2>1, <2>2, <2>3, <2>4, <2>5 DEF Handled, gdbVars
  <2> QED BY <2>1, <2>2, <2>3, <2>4, <2>6 DEF SameRank, gdbVars
<1>3. CASE HandleExecution(r)
  <2>1. UNCHANGED <<persisted, launched, synced, breakpoints, timers, toGdb, gdbVars, sessions>>
    BY <1>3 DEF HandleExecution
  <2>2. PICK st2 \in {"running", "exited"} :
          Take(r, st2) /\ currentState' = [currentState EXCEPT ![r] = st2]
    BY <1>3 DEF HandleExecution, ShownExited
  <2>3. /\ fromGdb[r] # <<>> /\ m.kind = st2 /\ fromGdb'[r] = Tail(fromGdb[r])
        /\ \A q \in Ranks \ {r} : fromGdb'[q] = fromGdb[q]
    BY <1>a, <2>2 DEF Take
  <2>4. currentState'[r] = st2 /\ \A q \in Ranks \ {r} : currentState'[q] = currentState[q]
    BY <1>a, <2>2
  <2>5. currentState[r] # "exited"
    BY <1>e, <2>3
  <2>6. Handled(r)
    BY <1>b, <1>c, <2>1, <2>3, <2>4, <2>5 DEF Handled, gdbVars
  <2> QED BY <2>1, <2>3, <2>4, <2>6 DEF SameRank, gdbVars
<1>4. CASE HandleBkpt(r)
  <2>1. /\ Take(r, "bkpt")
        /\ UNCHANGED <<persisted, launched, synced, timers, gdbVars, sessions>>
        /\ breakpoints' = [breakpoints EXCEPT ![r] = TableWith(r, m.bp)]
    BY <1>4 DEF HandleBkpt
  <2>2. /\ fromGdb[r] # <<>> /\ m.kind = "bkpt" /\ fromGdb'[r] = Tail(fromGdb[r])
        /\ \A q \in Ranks \ {r} : fromGdb'[q] = fromGdb[q]
    BY <1>a, <2>1 DEF Take
  <2>3. PICK added \in Seq(Commands) :
          /\ toGdb'[r] = toGdb[r] \o added /\ \A q \in Ranks \ {r} : toGdb'[q] = toGdb[q]
          /\ \A i \in 1..Len(added) : added[i].name \in {"continue", "flush"}
          /\ \/ /\ Has(added, Continues) /\ currentState[r] = "sync_flushing"
                /\ currentState' = [currentState EXCEPT ![r] = "running"]
             \/ UNCHANGED currentState
    <3>1. CASE /\ Write(r, go) /\ currentState[r] = "sync_flushing"
               /\ currentState' = [currentState EXCEPT ![r] = "running"]
      <4>1. toGdb'[r] = toGdb[r] \o go /\ \A q \in Ranks \ {r} : toGdb'[q] = toGdb[q]
        BY <1>a, <1>b, <2>2, <3>1 DEF Write
      <4> QED BY <1>d, <3>1, <4>1
    <3>2. CASE UNCHANGED <<toGdb, currentState>>
      BY <1>c, <3>2
    <3> QED BY <1>4, <3>1, <3>2 DEF HandleBkpt, go
  <2>4. /\ \A q \in Ranks \ {r} : currentState'[q] = currentState[q]
        /\ currentState'[r] = "running" => Has(added, Continues) \/ currentState[r] = "running"
        /\ currentState[r] = "exited" => currentState'[r] = "exited"
    BY <1>a, <2>3
  <2>5. Handled(r)
    BY <1>b, <2>1, <2>2, <2>3, <2>4 DEF Handled, gdbVars
  <2>6. \A q \in Ranks \ {r} : breakpoints'[q] = breakpoints[q]
    BY <1>a, <2>1
  <2> QED BY <2>1, <2>2, <2>3, <2>4, <2>5, <2>6 DEF SameRank, gdbVars
<1>5. CASE HandleRefused(r)
  <2>1. /\ Take(r, "refused") /\ timers' = [timers EXCEPT ![r][sessions] = @ + 1]
        /\ UNCHANGED <<persisted, stateVars, toGdb, gdbVars, sessions>>
    BY <1>5 DEF HandleRefused
  <2>2. /\ fromGdb[r] # <<>> /\ m.kind = "refused" /\ fromGdb'[r] = Tail(fromGdb[r])
        /\ \A q \in Ranks \ {r} : fromGdb'[q] = fromGdb[q] /\ timers'[q] = timers[q]
    BY <1>a, <2>1 DEF Take
  <2>3. Handled(r)
    BY <1>b, <1>c, <2>1, <2>2 DEF Handled, gdbVars, stateVars
  <2> QED BY <2>1, <2>2, <2>3 DEF SameRank, gdbVars, stateVars
<1> QED BY <1>1, <1>2, <1>3, <1>4, <1>5 DEF Handle

(* A gdb that acts reads one command, and leaves the other ranks alone. *)
LEMMA GdbIsRead ==
  ASSUME TypeOK, ShownRight, NEW r \in Ranks, Gdb(r)
  PROVE  Read(r) /\ \A q \in Ranks \ {r} : SameRank(q)
<1> DEFINE c == Head(toGdb[r])
           none == <<>>
<1>a. /\ fromGdb \in [Ranks -> Seq(Records)] /\ toGdb \in [Ranks -> Seq(Commands)]
      /\ target \in [Ranks -> {"unattached", "stopped", "running", "over"}]
      /\ DOMAIN gdbBps = Ranks /\ DOMAIN nextId = Ranks
  BY DEF TypeOK
<1>b. /\ none \in Seq(Records) /\ (\A i \in 1..Len(none) : FALSE)
      /\ fromGdb[r] = fromGdb[r] \o none
  BY <1>a
<1> HIDE DEF none
<1>c. ~ Has(none, Refusals)
  BY <1>b DEF Has
<1>d. toGdb[r] # <<>> => launched
  BY DEF ShownRight, Slots
<1>e. ASSUME NEW m \in Records, Emit(r, <<m>>)
      PROVE  /\ <<m>> \in Seq(Records) /\ fromGdb'[r] = fromGdb[r] \o <<m>>
             /\ \A q \in Ranks \ {r} : fromGdb'[q] = fromGdb[q]
             /\ \A C : Has(<<m>>, C) <=> m \in C
             /\ m \in Refusals => HasOne(<<m>>, Refusals)
  BY <1>a, <1>e, HasSingle DEF Emit
<1>f. ASSUME NEW names, Reads(r, names)
      PROVE  /\ launched /\ toGdb[r] # <<>> /\ toGdb'[r] = Tail(toGdb[r]) /\ c.name \in names
             /\ \A q \in Ranks \ {r} : toGdb'[q] = toGdb[q]
  BY <1>a, <1>d, <1>f DEF Reads
<1>1. CASE GdbConnects(r)
  <2>1. /\ Reads(r, {"connect"}) /\ UNCHANGED <<persisted, stateVars, timers, gdbBps, nextId, sessions>>
    BY <1>1 DEF GdbConnects
  <2>2. c.name = "connect"
    BY <1>f, <2>1
  <2> HIDE DEF c
  <2>3. CASE target[r] = "unattached" /\ server[r] = "listening"
    <3>1. Emit(r, <<Stopped(FALSE)>>) /\ target' = [target EXCEPT ![r] = "stopped"]
      BY <1>1, <2>3 DEF GdbConnects
    <3> DEFINE m == Stopped(FALSE)
    <3>2. m \in Records /\ m \in Changes /\ m \notin Refusals /\ Emit(r, <<m>>)
      BY <3>1, WrittenKinds
    <3> HIDE DEF m
    <3>3. target'[r] = "stopped" /\ \A q \in Ranks \ {r} : target'[q] = target[q]
      BY <1>a, <3>1
    <3>4. /\ <<m>> \in Seq(Records) /\ fromGdb'[r] = fromGdb[r] \o <<m>>
          /\ \A q \in Ranks \ {r} : fromGdb'[q] = fromGdb[q]
          /\ Has(<<m>>, Changes) /\ ~ Has(<<m>>, Refusals)
      BY <1>e, <3>2
    <3>5. Read(r)
      BY <1>f, <2>1, <2>2, <2>3, <3>3, <3>4 DEF Read, c
    <3> QED BY <1>f, <2>1, <3>3, <3>4, <3>5 DEF SameRank, stateVars
  <2>4. CASE ~ (target[r] = "unattached" /\ server[r] = "listening")
    <3> DEFINE m  == Plain("refused")
               tg == IF target[r] = "unattached" THEN target[r] ELSE "over"
    <3>1. m \in Records /\ m \in Refusals /\ Emit(r, <<m>>)
      BY <1>1, <2>4, WrittenKinds DEF GdbConnects
    <3>2. target' = [target EXCEPT ![r] = tg]
      BY <1>1, <2>4 DEF GdbConnects
    <3>3. target'[r] = tg /\ \A q \in Ranks \ {r} : target'[q] = target[q]
      BY <1>a, <3>2
    <3> HIDE DEF m
    <3>4. /\ <<m>> \in Seq(Records) /\ fromGdb'[r] = fromGdb[r] \o <<m>>
          /\ \A q \in Ranks \ {r} : fromGdb'[q] = fromGdb[q]
          /\ HasOne(<<m>>, Refusals)
      BY <1>e, <3>1
    <3>5. Read(r)
      BY <1>f, <2>1, <2>2, <3>3, <3>4 DEF Read, c
    <3> QED BY <1>f, <2>1, <3>3, <3>4, <3>5 DEF SameRank, stateVars
  <2> QED BY <2>3, <2>4
<1>2. CASE GdbInserts(r)
  <2> DEFINE at == IF target[r] = "unattached" THEN Pending ELSE Reported[c.line]
             b  == [id |-> nextId[r], line |-> c.line, at |-> at]
             m  == Bkpt(b)
  <2>1. /\ Reads(r, {"insert", "flush"})
        /\ UNCHANGED <<persisted, stateVars, timers, target, sessions>>
    BY <1>2 DEF GdbInserts
  <2>2. \/ /\ Emit(r, <<m>>) /\ gdbBps' = [gdbBps EXCEPT ![r] = @ \cup {b}]
           /\ nextId' = [nextId EXCEPT ![r] = @ + 1]
        \/ UNCHANGED <<fromGdb, gdbBps, nextId>>
    BY <1>2 DEF GdbInserts
  <2>3. c.line \in Lines
    BY <2>1, PipesType, CommandFields
  <2>4. b \in Breakpoint
    BY <2>3, ReportedType DEF TypeOK, Breakpoint, Locations
  <2>5. m \in Records /\ m \notin Refusals
    BY <2>4, WrittenKinds
  <2>6. \A q \in Ranks \ {r} : gdbBps'[q] = gdbBps[q] /\ nextId'[q] = nextId[q]
    BY <1>a, <2>2
  <2>7. c.name \in {"insert", "flush"}
    BY <1>f, <2>1
  <2> HIDE DEF m, c
  <2>8. PICK added \in Seq(Records) :
          /\ fromGdb'[r] = fromGdb[r] \o added
          /\ \A q \in Ranks \ {r} : fromGdb'[q] = fromGdb[q]
          /\ ~ Has(added, Refusals)
    <3>1. CASE Emit(r, <<m>>)
      BY <1>e, <2>5, <3>1
    <3>2. CASE UNCHANGED fromGdb
      BY <1>b, <1>c, <3>2
    <3> QED BY <2>2, <3>1, <3>2
  <2>9. Read(r)
    BY <1>f, <2>1, <2>7, <2>8 DEF Read, c
  <2> QED BY <1>f, <2>1, <2>6, <2>8, <2>9 DEF SameRank, stateVars
<1>3. CASE GdbDeletes(r)
  <2>1. /\ Reads(r, {"delete"})
        /\ UNCHANGED <<persisted, stateVars, timers, fromGdb, target, nextId, sessions>>
    BY <1>3 DEF GdbDeletes
  <2>2. c.name = "delete"
    BY <1>f, <2>1
  <2>3. \A q \in Ranks \ {r} : gdbBps'[q] = gdbBps[q]
    BY <1>3, <1>a DEF GdbDeletes
  <2> HIDE DEF c
  <2>4. Read(r)
    BY <1>b, <1>c, <1>f, <2>1, <2>2 DEF Read, c
  <2> QED BY <1>f, <2>1, <2>3, <2>4 DEF SameRank, stateVars
<1>4. CASE GdbExecutes(r)
  <2>1. /\ Reads(r, {"continue", "interrupt"})
        /\ UNCHANGED <<persisted, stateVars, timers, gdbBps, nextId, sessions>>
    BY <1>4 DEF GdbExecutes
  <2>2. c.name \in {"continue", "interrupt"}
    BY <1>f, <2>1
  <2>3. \/ /\ target[r] = "stopped" /\ target' = [target EXCEPT ![r] = "running"]
           /\ Emit(r, <<Plain("running")>>)
        \/ /\ c.name = "interrupt"
           /\ target[r] = "running" /\ target' = [target EXCEPT ![r] = "stopped"]
           /\ \E mp \in BOOLEAN : Emit(r, <<Stopped(mp)>>)
        \/ /\ c.name = "continue" => target[r] # "stopped"
           /\ UNCHANGED <<target, fromGdb>>
    BY <1>4 DEF GdbExecutes
  <2> HIDE DEF c
  <2>4. PICK added \in Seq(Records) :
          /\ fromGdb'[r] = fromGdb[r] \o added
          /\ \A q \in Ranks \ {r} : fromGdb'[q] = fromGdb[q] /\ target'[q] = target[q]
          /\ ~ Has(added, Refusals)
          /\ \/ /\ target'[r] = target[r]
                /\ c.name = "continue" => target[r] # "stopped"
             \/ target[r] = "stopped" /\ target'[r] = "running"
             \/ /\ target[r] = "running" /\ target'[r] = "stopped" /\ c.name = "interrupt"
                /\ Has(added, Changes)
    <3>1. CASE /\ target[r] = "stopped" /\ target' = [target EXCEPT ![r] = "running"]
               /\ Emit(r, <<Plain("running")>>)
      <4> DEFINE m == Plain("running")
      <4>1. m \in Records /\ m \notin Refusals /\ Emit(r, <<m>>)
        BY <3>1, WrittenKinds
      <4> HIDE DEF m
      <4>2. target'[r] = "running" /\ \A q \in Ranks \ {r} : target'[q] = target[q]
        BY <1>a, <3>1
      <4> QED BY <1>e, <3>1, <4>1, <4>2
    <3>2. CASE /\ c.name = "interrupt"
               /\ target[r] = "running" /\ target' = [target EXCEPT ![r] = "stopped"]
               /\ \E mp \in BOOLEAN : Emit(r, <<Stopped(mp)>>)
      <4>1. PICK m \in Records : m \in Changes /\ m \notin Refusals /\ Emit(r, <<m>>)
        BY <3>2, WrittenKinds
      <4>2. target'[r] = "stopped" /\ \A q \in Ranks \ {r} : target'[q] = target[q]
        BY <1>a, <3>2
      <4> QED BY <1>e, <3>2, <4>1, <4>2
    <3>3. CASE /\ c.name = "continue" => target[r] # "stopped"
               /\ UNCHANGED <<target, fromGdb>>
      BY <1>b, <1>c, <3>3
    <3> QED BY <2>3, <3>1, <3>2, <3>3
  <2>5. Read(r)
    BY <1>f, <2>1, <2>2, <2>4 DEF Read, c
  <2> QED BY <1>f, <2>1, <2>4, <2>5 DEF SameRank, stateVars
<1> QED BY <1>1, <1>2, <1>3, <1>4 DEF Gdb

(* The server listens, or the target stops or exits, on one rank. *)
Happens(r) ==
  /\ UNCHANGED <<persisted, stateVars, timers, toGdb, gdbBps, nextId, sessions>>
  /\ \E added \in Seq(Records) :
       /\ fromGdb'[r] = fromGdb[r] \o added /\ ~ Has(added, Refusals)
       /\ \/ target'[r] = target[r]
          \/ target[r] = "running" /\ target'[r] = "stopped" /\ Has(added, Changes)
          \/ target[r] = "running" /\ target'[r] = "over" /\ Has(added, Exits)

(* A gdbserver or a target that acts does that, and touches one rank only. *)
LEMMA TargetIsHappening ==
  ASSUME TypeOK, NEW r \in Ranks,
         \/ ServerListens(r)
         \/ \E mp \in BOOLEAN : TargetStops(r, mp)
         \/ TargetExits(r)
  PROVE  Happens(r) /\ \A q \in Ranks \ {r} : SameRank(q)
<1> DEFINE none == <<>>
<1>a. /\ fromGdb \in [Ranks -> Seq(Records)]
      /\ target \in [Ranks -> {"unattached", "stopped", "running", "over"}]
  BY DEF TypeOK
<1>b. /\ none \in Seq(Records) /\ (\A i \in 1..Len(none) : FALSE)
      /\ fromGdb[r] = fromGdb[r] \o none
  BY <1>a
<1> HIDE DEF none
<1>c. ~ Has(none, Refusals)
  BY <1>b DEF Has
<1>e. ASSUME NEW m \in Records, Emit(r, <<m>>)
      PROVE  /\ <<m>> \in Seq(Records) /\ fromGdb'[r] = fromGdb[r] \o <<m>>
             /\ \A q \in Ranks \ {r} : fromGdb'[q] = fromGdb[q]
             /\ \A C : Has(<<m>>, C) <=> m \in C
  BY <1>a, <1>e, HasSingle DEF Emit
<1>1. CASE ServerListens(r)
  <2>1. UNCHANGED <<persisted, stateVars, timers, toGdb, fromGdb, target, gdbBps, nextId, sessions>>
    BY <1>1 DEF ServerListens
  <2>2. Happens(r)
    BY <1>b, <1>c, <2>1 DEF Happens
  <2> QED BY <2>1, <2>2 DEF SameRank, stateVars
<1>2. ASSUME NEW mp \in BOOLEAN, TargetStops(r, mp)
      PROVE  Happens(r) /\ \A q \in Ranks \ {r} : SameRank(q)
  <2> DEFINE m == Stopped(mp)
  <2>1. /\ UNCHANGED <<persisted, stateVars, timers, toGdb, gdbBps, nextId, sessions>>
        /\ target[r] = "running" /\ target' = [target EXCEPT ![r] = "stopped"]
        /\ Emit(r, <<m>>) /\ m \in Records /\ m \in Changes /\ m \notin Refusals
    BY <1>2, WrittenKinds DEF TargetStops
  <2> HIDE DEF m
  <2>2. target'[r] = "stopped" /\ \A q \in Ranks \ {r} : target'[q] = target[q]
    BY <1>a, <2>1
  <2>3. /\ <<m>> \in Seq(Records) /\ fromGdb'[r] = fromGdb[r] \o <<m>>
        /\ \A q \in Ranks \ {r} : fromGdb'[q] = fromGdb[q]
        /\ Has(<<m>>, Changes) /\ ~ Has(<<m>>, Refusals)
    BY <1>e, <2>1
  <2>4. Happens(r)
    BY <2>1, <2>2, <2>3 DEF Happens
  <2> QED BY <2>1, <2>2, <2>3, <2>4 DEF SameRank, stateVars
<1>3. CASE TargetExits(r)
  <2> DEFINE m == Plain("exited")
  <2>1. /\ UNCHANGED <<persisted, stateVars, timers, toGdb, gdbBps, nextId, sessions>>
        /\ target[r] = "running" /\ target' = [target EXCEPT ![r] = "over"]
        /\ Emit(r, <<m>>) /\ m \in Records /\ m \in Exits /\ m \notin Refusals
    BY <1>3, WrittenKinds DEF TargetExits
  <2> HIDE DEF m
  <2>2. target'[r] = "over" /\ \A q \in Ranks \ {r} : target'[q] = target[q]
    BY <1>a, <2>1
  <2>3. /\ <<m>> \in Seq(Records) /\ fromGdb'[r] = fromGdb[r] \o <<m>>
        /\ \A q \in Ranks \ {r} : fromGdb'[q] = fromGdb[q]
        /\ Has(<<m>>, Exits) /\ ~ Has(<<m>>, Refusals)
    BY <1>e, <2>1
  <2>4. Happens(r)
    BY <2>1, <2>2, <2>3 DEF Happens
  <2> QED BY <2>1, <2>2, <2>3, <2>4 DEF SameRank, stateVars
<1> QED BY <1>1, <1>2, <1>3

(* Commands that the views write to a rank, and nothing else of it.        *)
Written(q) ==
  /\ fromGdb'[q] = fromGdb[q] /\ currentState'[q] = currentState[q]
  /\ target'[q] = target[q] /\ timers'[q] = timers[q]
  /\ \E added \in Seq(Commands) :
       /\ toGdb'[q] = toGdb[q] \o added
       /\ ~ Has(added, Connects)

(* A view starts or ends a session, or writes to the gdbs. *)
LEMMA ViewsWrite ==
  ASSUME TypeOK, ShownRight, Views
  PROVE  \/ LaunchParallelSession
         \/ TerminateAllSessions
         \/ UNCHANGED <<launched, sessions>> /\ \A q \in Ranks : Written(q)
<1> DEFINE none == <<>>
<1>a. /\ toGdb \in [Ranks -> Seq(Commands)]
      /\ \A q \in Ranks : toGdb[q] \in Seq(Commands)
  BY DEF TypeOK
<1>b. /\ none \in Seq(Commands) /\ (\A i \in 1..Len(none) : FALSE)
      /\ \A q \in Ranks : toGdb[q] = toGdb[q] \o none
  BY <1>a
<1> HIDE DEF none
<1>c. ~ Has(none, Connects)
  BY <1>b DEF Has
<1>d. ASSUME NEW q \in Ranks, UNCHANGED <<fromGdb, currentState, target, timers>>,
             toGdb'[q] = toGdb[q]
      PROVE  Written(q)
  BY <1>b, <1>c, <1>d DEF Written
<1>1. ASSUME NEW line \in Lines, NEW isSet \in BOOLEAN, EditBreakpoint(line, isSet)
      PROVE  UNCHANGED <<launched, sessions>> /\ \A q \in Ranks : Written(q)
  <2>1. UNCHANGED <<launched, sessions, fromGdb, currentState, target, timers>>
    BY <1>1 DEF EditBreakpoint, gdbVars
  <2>2. CASE launched
    <3>1. PICK id \in [Ranks -> UNION {Victims(r, line) : r \in Ranks}] :
            /\ \A r \in Ranks : id[r] \in Victims(r, line)
            /\ toGdb' = [r \in Ranks |-> toGdb[r] \o EditCommands(line, isSet, id[r])]
      BY <1>1, <2>2 DEF EditBreakpoint
    <3>2. ASSUME NEW q \in Ranks PROVE Written(q)
      <4> DEFINE added == EditCommands(line, isSet, id[q])
      <4>1. id[q] \in Nat
        BY <3>1, TableType
      <4>2. added \in Seq(Commands) /\ \A i \in 1..Len(added) : added[i].name # "connect"
        <5> DEFINE deleting  == IF id[q] # 0 THEN <<Delete(id[q])>> ELSE <<>>
                   inserting == IF isSet THEN <<Insert(line)>> ELSE <<>>
        <5>1. /\ deleting \in Seq(Commands)
              /\ \A i \in 1..Len(deleting) : deleting[i].name # "connect"
          BY <4>1, CommandsType DEF Delete
        <5>2. /\ inserting \in Seq(Commands)
              /\ \A i \in 1..Len(inserting) : inserting[i].name # "connect"
          BY CommandsType DEF Insert
        <5>3. added = deleting \o inserting
          BY DEF EditCommands
        <5> HIDE DEF deleting, inserting, added
        <5>4. ~ Has(deleting, Connects) /\ ~ Has(inserting, Connects)
          BY <5>1, <5>2 DEF Has, Connects
        <5>5. added \in Seq(Commands) /\ ~ Has(added, Connects)
          BY <5>1, <5>2, <5>3, <5>4, HasConcat
        <5> QED BY <5>5 DEF Has, Connects
      <4>3. toGdb'[q] = toGdb[q] \o added
        BY <3>1
      <4> HIDE DEF added
      <4>4. ~ Has(added, Connects)
        BY <4>2 DEF Has, Connects
      <4> QED BY <2>1, <4>2, <4>3, <4>4 DEF Written
    <3> QED BY <2>1, <3>2
  <2>3. CASE ~ launched
    <3>1. UNCHANGED toGdb
      BY <1>1, <2>3 DEF EditBreakpoint
    <3> QED BY <1>d, <2>1, <3>1
  <2> QED BY <2>2, <2>3
<1>2. ASSUME NEW name \in {"continue", "interrupt"}, NEW to, Command(name, to)
      PROVE  UNCHANGED <<launched, sessions>> /\ \A q \in Ranks : Written(q)
  <2>1. UNCHANGED <<launched, sessions, fromGdb, currentState, target, timers>>
    BY <1>2 DEF Command, gdbVars, stateVars
  <2>2. ASSUME NEW q \in Ranks PROVE Written(q)
    <3>1. CASE q \in to
      <4> DEFINE c == Exec(name)
      <4>1. c \in Commands /\ c \notin Connects
        BY CommandsType DEF Exec, Connects
      <4>2. toGdb'[q] = Append(toGdb[q], c)
        BY <1>2, <3>1 DEF Command
      <4> HIDE DEF c
      <4>3. toGdb'[q] = toGdb[q] \o <<c>> /\ <<c>> \in Seq(Commands)
        BY <1>a, <4>1, <4>2
      <4>4. ~ Has(<<c>>, Connects)
        BY <4>1, HasSingle
      <4> QED BY <2>1, <4>3, <4>4 DEF Written
    <3>2. CASE q \notin to
      <4>1. toGdb'[q] = toGdb[q]
        BY <1>2, <3>2 DEF Command
      <4> QED BY <1>d, <2>1, <4>1
    <3> QED BY <3>1, <3>2
  <2> QED BY <2>1, <2>2
<1> QED BY <1>1, <1>2 DEF Views

-----------------------------------------------------------------------------
(* A rank is not shown running for nothing: a continue is on its way, or   *)
(* the target runs, or a record of what happened to it is on its way.      *)
Heard(r) ==
  currentState[r] = "running" =>
    \/ Has(toGdb[r], Continues)
    \/ target[r] \in {"running", "over"}
    \/ Has(fromGdb[r], Changes)

(* A rank that is shown with a connection has one.                         *)
LEMMA ShownAttached ==
  ASSUME NEW r \in Ranks, TypeOK, FollowsAt(r), currentState[r] \notin {"none", "launching"}
  PROVE  synced[r] /\ target[r] # "unattached"
<1>1. PICK now, last \in Phases :
        /\ Shows(currentState[r], synced[r], now)
        /\ Leads(now, fromGdb[r], last)
        /\ Stands(target[r], last)
  BY DEF FollowsAt, Follows
<1>2. now # "attaching" /\ synced[r]
  BY <1>1 DEF Shows, TypeOK
<1> DEFINE within == Phases \ {"attaching"}
<1>3. now \in within /\ fromGdb[r] \in Seq(Records)
  BY <1>1, <1>2 DEF TypeOK
<1>4. \A i \in 1..Len(fromGdb[r]) : \A c, d \in Phases :
         c \in within /\ MovesPhase(c, fromGdb[r][i], d) => d \in within
  <2>1. \A i \in 1..Len(fromGdb[r]) : fromGdb[r][i] \in Records
    BY <1>3
  <2>2. \A m \in Records : \A c, d \in Phases : c \in within /\ MovesPhase(c, m, d) => d \in within
    BY DEF Records, MovesPhase
  <2> QED BY <2>1, <2>2
<1> HIDE DEF within
<1>5. last \in within
  BY <1>1, <1>3, <1>4, LeadsWithin
<1> QED BY <1>1, <1>2, <1>5 DEF within, Stands

(* Handling a record keeps it. *)
LEMMA HandledHeard ==
  ASSUME TypeOK, ShownRight, NEW r \in Ranks, Handled(r), Heard(r)
  PROVE  Heard(r)'
<1> DEFINE m == Head(fromGdb[r])
<1>a. fromGdb[r] \in Seq(Records) /\ toGdb[r] \in Seq(Commands) /\ fromGdb[r] # <<>>
  BY DEF TypeOK, Handled
<1>1. PICK added \in Seq(Commands) :
        /\ toGdb'[r] = toGdb[r] \o added
        /\ currentState'[r] = "running" =>
             \/ currentState[r] = "running" /\ m.kind \in {"bkpt", "refused"}
             \/ m.kind = "running"
             \/ Has(added, Continues)
  BY DEF Handled
<1>2. fromGdb'[r] = Tail(fromGdb[r]) /\ target'[r] = target[r]
  BY DEF Handled
<1>3. Has(toGdb'[r], Continues) <=> Has(toGdb[r], Continues) \/ Has(added, Continues)
  BY <1>a, <1>1, HasConcat
<1>4. Has(fromGdb[r], Changes) <=> m \in Changes \/ Has(fromGdb'[r], Changes)
  BY <1>a, <1>2, HasTail
<1>5. SUFFICES ASSUME currentState'[r] = "running"
               PROVE  \/ Has(toGdb'[r], Continues)
                      \/ target'[r] \in {"running", "over"}
                      \/ Has(fromGdb'[r], Changes)
  BY DEF Heard
<1>6. CASE currentState[r] = "running" /\ m.kind \in {"bkpt", "refused"}
  <2>1. m \notin Changes
    BY <1>6 DEF Changes
  <2> HIDE DEF m
  <2> QED BY <1>2, <1>3, <1>4, <1>6, <2>1 DEF Heard
<1>7. CASE m.kind = "running"
  <2>1. PICK now, last \in Phases : /\ Leads(now, fromGdb[r], last) /\ Stands(target[r], last)
    BY DEF ShownRight, FollowsAt, Follows
  <2>2. PICK n2 \in Phases : MovesPhase(now, m, n2) /\ Leads(n2, Tail(fromGdb[r]), last)
    BY <1>a, <2>1, LeadsTail
  <2>3. n2 = "going"
    BY <1>7, <2>2 DEF MovesPhase
  <2>4. CASE ~ Has(Tail(fromGdb[r]), Changes)
    <3> DEFINE q == Tail(fromGdb[r])
    <3>1. q \in Seq(Records) /\ Leads("going", q, last) /\ ~ Has(q, Changes)
      BY <1>a, <2>2, <2>3, <2>4
    <3> HIDE DEF q
    <3>2. \A i \in 1..Len(q) : q[i] \in Records /\ q[i] \notin Changes
      BY <3>1 DEF Has
    <3>3. \A i \in 1..Len(q) : q[i].kind \in {"bkpt", "refused"}
      BY <3>2 DEF Changes, Records
    <3> DEFINE within == {"going"}
    <3>4. \A i \in 1..Len(q) : \A c, d \in Phases :
             c \in within /\ MovesPhase(c, q[i], d) => d \in within
      BY <3>3 DEF MovesPhase
    <3>5. "going" \in within
      OBVIOUS
    <3> HIDE DEF within
    <3>6. last \in within
      BY <3>1, <3>4, <3>5, LeadsWithin
    <3> QED BY <1>2, <2>1, <3>6 DEF within, Stands, TypeOK
  <2> QED BY <1>2, <2>4
<1>8. CASE Has(added, Continues)
  BY <1>3, <1>8
<1> QED BY <1>1, <1>5, <1>6, <1>7, <1>8

(* So does a gdb that reads a command. *)
LEMMA ReadHeard ==
  ASSUME TypeOK, ShownRight, NEW r \in Ranks, Read(r), Heard(r)
  PROVE  Heard(r)'
<1> DEFINE c == Head(toGdb[r])
<1>a. /\ fromGdb[r] \in Seq(Records) /\ toGdb[r] \in Seq(Commands) /\ toGdb[r] # <<>>
      /\ c \in Commands
      /\ target[r] \in {"unattached", "stopped", "running", "over"}
  BY DEF TypeOK, Read
<1>1. PICK added \in Seq(Records) :
        /\ fromGdb'[r] = fromGdb[r] \o added
        /\ \/ target'[r] = "stopped" /\ Has(added, Changes)
           \/ c.name = "connect" /\ target'[r] = IF target[r] = "unattached" THEN target[r] ELSE "over"
           \/ /\ \/ target'[r] = target[r]
                 \/ target[r] = "stopped" /\ target'[r] = "running"
                 \/ target'[r] = "stopped" /\ Has(added, Changes)
              /\ c.name = "continue" => target'[r] # "stopped"
  BY DEF Read
<1>2. toGdb'[r] = Tail(toGdb[r]) /\ currentState'[r] = currentState[r]
  BY DEF Read, stateVars
<1>3. Has(fromGdb'[r], Changes) <=> Has(fromGdb[r], Changes) \/ Has(added, Changes)
  BY <1>a, <1>1, HasConcat
<1>4. Has(toGdb[r], Continues) <=> c \in Continues \/ Has(toGdb'[r], Continues)
  BY <1>a, <1>2, HasTail
<1>5. c \in Continues => c.name = "continue"
  BY DEF Continues
<1> HIDE DEF c
<1>6. SUFFICES ASSUME currentState[r] = "running"
               PROVE  \/ Has(toGdb'[r], Continues)
                      \/ target'[r] \in {"running", "over"}
                      \/ Has(fromGdb'[r], Changes)
  BY <1>2 DEF Heard
<1>7. target[r] # "unattached"
  BY <1>6, ShownAttached DEF ShownRight
<1> QED BY <1>a, <1>1, <1>3, <1>4, <1>5, <1>6, <1>7 DEF Heard

(* And the target itself. *)
LEMMA HappensHeard ==
  ASSUME TypeOK, NEW r \in Ranks, Happens(r), Heard(r)
  PROVE  Heard(r)'
<1>a. fromGdb[r] \in Seq(Records)
  BY DEF TypeOK
<1>1. PICK added \in Seq(Records) :
        /\ fromGdb'[r] = fromGdb[r] \o added
        /\ \/ target'[r] = target[r]
           \/ Has(added, Changes)
           \/ target'[r] = "over"
  BY DEF Happens
<1>2. toGdb'[r] = toGdb[r] /\ currentState'[r] = currentState[r]
  BY DEF Happens, stateVars
<1>3. Has(fromGdb'[r], Changes) <=> Has(fromGdb[r], Changes) \/ Has(added, Changes)
  BY <1>a, <1>1, HasConcat
<1> QED BY <1>1, <1>2, <1>3 DEF Heard

(* What leaves a rank alone, or writes to it, keeps it. *)
LEMMA WrittenHeard ==
  ASSUME TypeOK, NEW q \in Ranks, Heard(q), SameRank(q) \/ Written(q)
  PROVE  Heard(q)'
<1>1. CASE SameRank(q)
  BY <1>1 DEF SameRank, Heard
<1>2. CASE Written(q)
  <2>1. PICK added \in Seq(Commands) : toGdb'[q] = toGdb[q] \o added
    BY <1>2 DEF Written
  <2>2. Has(toGdb[q], Continues) => Has(toGdb'[q], Continues)
    BY <2>1, HasConcat DEF TypeOK
  <2> QED BY <1>2, <2>2 DEF Written, Heard
<1> QED BY <1>1, <1>2

(* A timer that fires writes a connect, or nothing after the session. *)
LEMMA TimerWrites ==
  ASSUME TypeOK, ShownRight, NEW r \in Ranks, NEW s \in 1..MaxLaunches, TimerFires(r, s)
  PROVE  /\ \A q \in Ranks \ {r} : SameRank(q)
         /\ fromGdb'[r] = fromGdb[r] /\ currentState'[r] = currentState[r]
         /\ target'[r] = target[r]
         /\ timers' = [timers EXCEPT ![r][s] = @ - 1] /\ timers[r][s] > 0
         /\ toGdb'[r] = IF launched THEN toGdb[r] \o <<Connect(s)>> ELSE toGdb[r]
         /\ UNCHANGED <<launched, sessions>>
<1>1. /\ timers[r][s] > 0 /\ timers' = [timers EXCEPT ![r][s] = @ - 1]
      /\ Write(r, <<Connect(s)>>) /\ UNCHANGED <<persisted, stateVars, fromGdb, gdbVars, sessions>>
  BY DEF TimerFires
<1>2. toGdb \in [Ranks -> Seq(Commands)] /\ timers \in [Ranks -> [1..MaxLaunches -> Nat]]
  BY DEF TypeOK
<1> QED BY <1>1, <1>2 DEF Write, SameRank, stateVars, gdbVars

(* Every step keeps it, on every rank. *)
LEMMA StepHeard ==
  TypeOK /\ ShownRight /\ (\A r \in Ranks : Heard(r)) /\ [Next]_vars
    => \A r \in Ranks : Heard(r)'
<1> SUFFICES ASSUME TypeOK, ShownRight, \A r \in Ranks : Heard(r), [Next]_vars, NEW p \in Ranks
             PROVE  Heard(p)'
  OBVIOUS
<1>1. CASE Views
  <2>1. CASE LaunchParallelSession \/ TerminateAllSessions
    BY <2>1 DEF LaunchParallelSession, TerminateAllSessions, FreshSlots, Heard
  <2>2. CASE \A q \in Ranks : Written(q)
    BY <2>2, WrittenHeard
  <2> QED BY <1>1, <2>1, <2>2, ViewsWrite
<1>2. ASSUME NEW r \in Ranks, Handle(r)
      PROVE  Heard(p)'
  BY <1>2, HandleIsHandled, HandledHeard, WrittenHeard
<1>3. ASSUME NEW r \in Ranks, NEW s \in 1..MaxLaunches, TimerFires(r, s)
      PROVE  Heard(p)'
  <2>1. CASE p = r
    <3> DEFINE one == <<Connect(s)>>
    <3>1. one \in Seq(Commands) /\ toGdb[p] \in Seq(Commands)
      BY CommandsType DEF TypeOK
    <3>2. /\ toGdb'[p] = toGdb[p] \o one \/ toGdb'[p] = toGdb[p]
          /\ fromGdb'[p] = fromGdb[p] /\ currentState'[p] = currentState[p]
          /\ target'[p] = target[p]
      BY <1>3, <2>1, TimerWrites
    <3> HIDE DEF one
    <3>3. Has(toGdb[p], Continues) => Has(toGdb[p] \o one, Continues)
      BY <3>1, HasConcat
    <3> QED BY <3>2, <3>3 DEF Heard
  <2>2. CASE p # r
    BY <1>3, <2>2, TimerWrites, WrittenHeard
  <2> QED BY <2>1, <2>2
<1>4. ASSUME NEW r \in Ranks, Gdb(r)
      PROVE  Heard(p)'
  BY <1>4, GdbIsRead, ReadHeard, WrittenHeard
<1>5. ASSUME NEW r \in Ranks,
             \/ ServerListens(r)
             \/ \E mp \in BOOLEAN : TargetStops(r, mp)
             \/ TargetExits(r)
      PROVE  Heard(p)'
  BY <1>5, TargetIsHappening, HappensHeard, WrittenHeard
<1>6. CASE UNCHANGED vars
  <2>1. UNCHANGED <<toGdb, fromGdb, currentState, target>>
    BY <1>6 DEF vars, stateVars, gdbVars
  <2> QED BY <2>1 DEF Heard
<1> QED BY <1>1, <1>2, <1>3, <1>4, <1>5, <1>6 DEF Next

-----------------------------------------------------------------------------
(* Within one session there is one connection to a rank: a timer is armed, *)
(* or the command is written, or a refusal is on its way, or it is made.   *)
Token(timer, to, from, tg) ==
  \/ timer = 1 /\ ~ Has(to, Connects) /\ ~ Has(from, Refusals) /\ tg = "unattached"
  \/ timer = 0 /\ HasOne(to, Connects) /\ ~ Has(from, Refusals) /\ tg = "unattached"
  \/ timer = 0 /\ ~ Has(to, Connects) /\ HasOne(from, Refusals) /\ tg = "unattached"
  \/ timer = 0 /\ ~ Has(to, Connects) /\ ~ Has(from, Refusals) /\ tg # "unattached"

TokenOf(r) == launched => Token(timers[r][1], toGdb[r], fromGdb[r], target[r])

NotYet == sessions = 0 => ~ launched /\ \A r \in Ranks : timers[r][1] = 0

(* So a target that is over has exited, and the exit is shown or heard of. *)
ExitTold(r) == target[r] = "over" => currentState[r] = "exited" \/ Has(fromGdb[r], Exits)

OneSession == NotYet /\ \A r \in Ranks : TokenOf(r) /\ ExitTold(r)

(* One thing in a queue is something in it. *)
LEMMA OneIsSome == ASSUME NEW q, NEW C, HasOne(q, C) PROVE Has(q, C)
BY DEF HasOne, Has

(* Nothing has started at first. *)
LEMMA InitOne == ASSUME MaxLaunches = 1, Init PROVE OneSession
<1>1. NotYet
  BY DEF Init, NotYet
<1> QED BY <1>1 DEF Init, OneSession, TokenOf, ExitTold

(* Handling a record keeps the token, and tells of an exit. *)
LEMMA HandledOne ==
  ASSUME MaxLaunches = 1, TypeOK, NEW r \in Ranks, Handled(r), NotYet, TokenOf(r), ExitTold(r)
  PROVE  TokenOf(r)' /\ ExitTold(r)'
<1> DEFINE m == Head(fromGdb[r])
<1>a. /\ fromGdb[r] \in Seq(Records) /\ toGdb[r] \in Seq(Commands) /\ fromGdb[r] # <<>>
      /\ m \in Records /\ launched
  BY DEF TypeOK, Handled
<1>1. PICK added \in Seq(Commands) :
        /\ toGdb'[r] = toGdb[r] \o added
        /\ \A i \in 1..Len(added) : added[i].name \in {"continue", "flush"}
  BY DEF Handled
<1>2. /\ fromGdb'[r] = Tail(fromGdb[r]) /\ target'[r] = target[r] /\ launched'
      /\ m.kind = "exited" => currentState'[r] = "exited"
      /\ currentState[r] = "exited" => currentState'[r] = "exited"
      /\ IF m.kind = "refused"
         THEN timers' = [timers EXCEPT ![r][sessions] = @ + 1]
         ELSE UNCHANGED timers
  BY DEF Handled
<1>3. ~ Has(added, Connects)
  BY <1>1 DEF Has, Connects
<1>4. Has(toGdb'[r], Connects) <=> Has(toGdb[r], Connects)
  BY <1>a, <1>1, <1>3, HasConcat
<1>5. HasOne(toGdb[r], Connects) => HasOne(toGdb'[r], Connects)
  BY <1>a, <1>1, <1>3, HasConcat
<1>6. /\ Has(fromGdb[r], Refusals) <=> m \in Refusals \/ Has(fromGdb'[r], Refusals)
      /\ HasOne(fromGdb[r], Refusals) /\ m \in Refusals => ~ Has(fromGdb'[r], Refusals)
      /\ HasOne(fromGdb[r], Refusals) /\ m \notin Refusals => HasOne(fromGdb'[r], Refusals)
      /\ Has(fromGdb[r], Exits) <=> m \in Exits \/ Has(fromGdb'[r], Exits)
  BY <1>a, <1>2, HasTail
<1>7. (m \in Refusals <=> m.kind = "refused") /\ (m \in Exits <=> m.kind = "exited")
  BY <1>a DEF Refusals, Exits
<1>8. Token(timers[r][1], toGdb[r], fromGdb[r], target[r])
  BY <1>a DEF TokenOf
<1>9. sessions = 1
  BY <1>a DEF NotYet, TypeOK
<1> HIDE DEF m
<1>10. ExitTold(r)'
  BY <1>2, <1>6, <1>7 DEF ExitTold
<1>11. CASE m.kind = "refused"
  <2>1. timers'[r][1] = timers[r][1] + 1
    <3>1. timers \in [Ranks -> [1..1 -> Nat]]
      BY DEF TypeOK
    <3> QED BY <1>2, <1>9, <1>11, <3>1
  <2>2. Has(fromGdb[r], Refusals)
    BY <1>6, <1>7, <1>11
  <2>3. /\ timers[r][1] = 0 /\ ~ Has(toGdb[r], Connects) /\ HasOne(fromGdb[r], Refusals)
        /\ target[r] = "unattached"
    BY <1>8, <2>2 DEF Token
  <2>4. Token(timers'[r][1], toGdb'[r], fromGdb'[r], target'[r])
    BY <1>2, <1>4, <1>6, <1>7, <1>11, <2>1, <2>3 DEF Token
  <2> QED BY <1>10, <2>4 DEF TokenOf
<1>12. CASE m.kind # "refused"
  <2>1. timers'[r][1] = timers[r][1]
    BY <1>2, <1>12
  <2>2. Token(timers'[r][1], toGdb'[r], fromGdb'[r], target'[r])
    BY <1>2, <1>4, <1>5, <1>6, <1>7, <1>8, <1>12, <2>1 DEF Token
  <2> QED BY <1>10, <2>2 DEF TokenOf
<1> QED BY <1>11, <1>12

(* gdb connects once, so it never drops its target. *)
LEMMA ReadOne ==
  ASSUME MaxLaunches = 1, TypeOK, NEW r \in Ranks, Read(r), TokenOf(r), ExitTold(r)
  PROVE  TokenOf(r)' /\ ExitTold(r)'
<1> DEFINE c == Head(toGdb[r])
<1>a. /\ fromGdb[r] \in Seq(Records) /\ toGdb[r] \in Seq(Commands) /\ toGdb[r] # <<>>
      /\ c \in Commands /\ launched
  BY DEF TypeOK, Read
<1>1. PICK added \in Seq(Records) :
        /\ fromGdb'[r] = fromGdb[r] \o added
        /\ \/ /\ c.name = "connect" /\ target'[r] = "stopped"
              /\ ~ Has(added, Refusals)
           \/ /\ c.name = "connect" /\ HasOne(added, Refusals)
              /\ target'[r] = IF target[r] = "unattached" THEN target[r] ELSE "over"
           \/ /\ c.name # "connect" /\ ~ Has(added, Refusals)
              /\ \/ target'[r] = target[r]
                 \/ target[r] = "stopped" /\ target'[r] = "running"
                 \/ target[r] = "running" /\ target'[r] = "stopped"
  BY DEF Read
<1>2. /\ toGdb'[r] = Tail(toGdb[r]) /\ launched' /\ timers'[r][1] = timers[r][1]
      /\ currentState'[r] = currentState[r]
  BY DEF Read, stateVars
<1>3. /\ Has(fromGdb'[r], Refusals) <=> Has(fromGdb[r], Refusals) \/ Has(added, Refusals)
      /\ HasOne(fromGdb[r], Refusals) /\ ~ Has(added, Refusals) => HasOne(fromGdb'[r], Refusals)
      /\ ~ Has(fromGdb[r], Refusals) /\ HasOne(added, Refusals) => HasOne(fromGdb'[r], Refusals)
      /\ Has(fromGdb'[r], Exits) <=> Has(fromGdb[r], Exits) \/ Has(added, Exits)
  BY <1>a, <1>1, HasConcat
<1>4. /\ Has(toGdb[r], Connects) <=> c \in Connects \/ Has(toGdb'[r], Connects)
      /\ HasOne(toGdb[r], Connects) /\ c \in Connects => ~ Has(toGdb'[r], Connects)
      /\ HasOne(toGdb[r], Connects) /\ c \notin Connects => HasOne(toGdb'[r], Connects)
  BY <1>a, <1>2, HasTail
<1>5. c \in Connects <=> c.name = "connect"
  BY <1>a DEF Connects
<1>6. Token(timers[r][1], toGdb[r], fromGdb[r], target[r])
  BY <1>a DEF TokenOf
<1> HIDE DEF c
<1>7. CASE c.name = "connect"
  <2>1. /\ timers[r][1] = 0 /\ HasOne(toGdb[r], Connects) /\ ~ Has(fromGdb[r], Refusals)
        /\ target[r] = "unattached"
    BY <1>4, <1>5, <1>6, <1>7 DEF Token
  <2>2. ~ Has(toGdb'[r], Connects)
    BY <1>4, <1>5, <1>7, <2>1
  <2>3. \/ target'[r] = "stopped" /\ ~ Has(added, Refusals)
        \/ target'[r] = "unattached" /\ HasOne(added, Refusals)
    BY <1>1, <1>7, <2>1
  <2>4. Token(timers'[r][1], toGdb'[r], fromGdb'[r], target'[r])
    BY <1>2, <1>3, <2>1, <2>2, <2>3 DEF Token
  <2> QED BY <2>3, <2>4 DEF TokenOf, ExitTold
<1>8. CASE c.name # "connect"
  <2>1. /\ target'[r] = "unattached" <=> target[r] = "unattached"
        /\ target'[r] = "over" => target[r] = "over"
        /\ ~ Has(added, Refusals)
    BY <1>1, <1>8
  <2>2. Token(timers'[r][1], toGdb'[r], fromGdb'[r], target'[r])
    BY <1>2, <1>3, <1>4, <1>5, <1>6, <1>8, <2>1 DEF Token
  <2>3. ExitTold(r)'
    BY <1>2, <1>3, <2>1 DEF ExitTold
  <2> QED BY <2>2, <2>3 DEF TokenOf
<1> QED BY <1>7, <1>8

(* The target runs only when it is connected, and tells when it exits. *)
LEMMA HappensOne ==
  ASSUME TypeOK, NEW r \in Ranks, Happens(r), TokenOf(r), ExitTold(r)
  PROVE  TokenOf(r)' /\ ExitTold(r)'
<1>a. fromGdb[r] \in Seq(Records)
  BY DEF TypeOK
<1>1. PICK added \in Seq(Records) :
        /\ fromGdb'[r] = fromGdb[r] \o added /\ ~ Has(added, Refusals)
        /\ \/ target'[r] = target[r]
           \/ target[r] = "running" /\ target'[r] = "stopped"
           \/ target[r] = "running" /\ target'[r] = "over" /\ Has(added, Exits)
  BY DEF Happens
<1>2. /\ toGdb'[r] = toGdb[r] /\ currentState'[r] = currentState[r]
      /\ launched' = launched /\ timers' = timers
  BY DEF Happens, stateVars
<1>3. /\ Has(fromGdb'[r], Refusals) <=> Has(fromGdb[r], Refusals) \/ Has(added, Refusals)
      /\ HasOne(fromGdb[r], Refusals) /\ ~ Has(added, Refusals) => HasOne(fromGdb'[r], Refusals)
      /\ Has(fromGdb'[r], Exits) <=> Has(fromGdb[r], Exits) \/ Has(added, Exits)
  BY <1>a, <1>1, HasConcat
<1>4. ExitTold(r)'
  BY <1>1, <1>2, <1>3 DEF ExitTold
<1>5. target'[r] = "unattached" <=> target[r] = "unattached"
  BY <1>1
<1>6. launched => Token(timers'[r][1], toGdb'[r], fromGdb'[r], target'[r])
  BY <1>1, <1>2, <1>3, <1>5 DEF TokenOf, Token
<1> QED BY <1>2, <1>4, <1>6 DEF TokenOf

(* What leaves a rank alone, or writes to it, keeps it. *)
LEMMA WrittenOne ==
  ASSUME TypeOK, NEW q \in Ranks, TokenOf(q), ExitTold(q), SameRank(q) \/ Written(q),
         UNCHANGED launched
  PROVE  TokenOf(q)' /\ ExitTold(q)'
<1>1. CASE SameRank(q)
  BY <1>1 DEF SameRank, TokenOf, ExitTold
<1>2. CASE Written(q)
  <2>1. PICK added \in Seq(Commands) : toGdb'[q] = toGdb[q] \o added /\ ~ Has(added, Connects)
    BY <1>2 DEF Written
  <2>2. /\ Has(toGdb'[q], Connects) <=> Has(toGdb[q], Connects)
        /\ HasOne(toGdb[q], Connects) => HasOne(toGdb'[q], Connects)
    BY <2>1, HasConcat DEF TypeOK
  <2>3. /\ fromGdb'[q] = fromGdb[q] /\ currentState'[q] = currentState[q]
        /\ target'[q] = target[q] /\ timers'[q] = timers[q]
    BY <1>2 DEF Written
  <2>4. launched => Token(timers'[q][1], toGdb'[q], fromGdb'[q], target'[q])
    BY <2>2, <2>3 DEF TokenOf, Token
  <2> QED BY <2>3, <2>4 DEF TokenOf, ExitTold
<1> QED BY <1>1, <1>2

(* A timer that fires becomes a connect. *)
LEMMA TimerOne ==
  ASSUME MaxLaunches = 1, TypeOK, ShownRight, NEW r \in Ranks, NEW s \in 1..MaxLaunches,
         TimerFires(r, s), NotYet, TokenOf(r), ExitTold(r)
  PROVE  NotYet' /\ TokenOf(r)' /\ ExitTold(r)'
<1>0. s = 1 /\ timers \in [Ranks -> [1..1 -> Nat]]
  BY DEF TypeOK
<1>1. /\ timers[r][1] > 0 /\ timers' = [timers EXCEPT ![r][1] = @ - 1]
      /\ fromGdb'[r] = fromGdb[r] /\ currentState'[r] = currentState[r]
      /\ target'[r] = target[r] /\ UNCHANGED <<launched, sessions>>
      /\ toGdb'[r] = IF launched THEN toGdb[r] \o <<Connect(1)>> ELSE toGdb[r]
  <2>1. TimerFires(r, 1)
    BY <1>0
  <2> QED BY <2>1, TimerWrites
<1>2. timers'[r][1] = timers[r][1] - 1 /\ timers[r][1] \in Nat
  BY <1>0, <1>1
<1>3. NotYet'
  BY <1>1 DEF NotYet
<1>4. ExitTold(r)'
  BY <1>1 DEF ExitTold
<1>5. CASE launched
  <2> DEFINE one == <<Connect(1)>>
  <2>1. one \in Seq(Commands) /\ toGdb[r] \in Seq(Commands) /\ HasOne(one, Connects)
    BY WrittenKinds, HasSingle DEF TypeOK
  <2>2. /\ timers[r][1] = 1 /\ ~ Has(toGdb[r], Connects) /\ ~ Has(fromGdb[r], Refusals)
        /\ target[r] = "unattached"
    BY <1>1, <1>5 DEF TokenOf, Token
  <2>3. toGdb'[r] = toGdb[r] \o one
    BY <1>1, <1>5
  <2> HIDE DEF one
  <2>4. HasOne(toGdb'[r], Connects)
    BY <2>1, <2>2, <2>3, HasConcat
  <2>5. Token(timers'[r][1], toGdb'[r], fromGdb'[r], target'[r])
    BY <1>1, <1>2, <2>2, <2>4 DEF Token
  <2> QED BY <1>3, <1>4, <2>5 DEF TokenOf
<1>6. CASE ~ launched
  BY <1>1, <1>3, <1>4, <1>6 DEF TokenOf
<1> QED BY <1>5, <1>6

(* Every step of the only session keeps it. *)
LEMMA StepOne ==
  ASSUME MaxLaunches = 1, TypeOK, ShownRight, OneSession, [Next]_vars
  PROVE  OneSession'
<1> USE DEF OneSession
<1>1. CASE Views
  <2>1. CASE LaunchParallelSession
    <3>1. /\ sessions = 0 /\ sessions' = 1 /\ FreshSlots("launching", "starting")
          /\ timers' = [r \in Ranks |-> [timers[r] EXCEPT ![1] = @ + 1]]
      BY <2>1 DEF LaunchParallelSession, TypeOK
    <3>2. \A r \in Ranks : timers[r] \in [1..1 -> Nat] /\ timers[r][1] = 0
      BY <3>1 DEF TypeOK, NotYet
    <3>3. \A r \in Ranks : timers'[r][1] = 1
      BY <3>1, <3>2
    <3>4. /\ \A r \in Ranks : toGdb'[r] = <<>> /\ fromGdb'[r] = <<>> /\ target'[r] = "unattached"
          /\ NotYet'
      BY <3>1 DEF FreshSlots, NotYet
    <3>5. \A r \in Ranks : TokenOf(r)' /\ ExitTold(r)'
      BY <3>3, <3>4, HasNothing DEF TokenOf, Token, ExitTold
    <3> QED BY <3>4, <3>5
  <2>2. CASE TerminateAllSessions
    <3>1. /\ launched /\ ~ launched' /\ UNCHANGED <<timers, sessions>>
          /\ \A r \in Ranks : target'[r] = "unattached"
      BY <2>2 DEF TerminateAllSessions, FreshSlots
    <3> QED BY <3>1 DEF NotYet, TokenOf, ExitTold
  <2>3. CASE UNCHANGED <<launched, sessions>> /\ \A q \in Ranks : Written(q)
    <3>1. NotYet'
      BY <2>3 DEF NotYet, Written
    <3> QED BY <2>3, <3>1, WrittenOne
  <2> QED BY <1>1, <2>1, <2>2, <2>3, ViewsWrite
<1>2. ASSUME NEW r \in Ranks, Handle(r)
      PROVE  OneSession'
  <2>1. Handled(r) /\ \A q \in Ranks \ {r} : SameRank(q)
    BY <1>2, HandleIsHandled
  <2>2. launched /\ UNCHANGED <<launched, sessions>>
    BY <2>1 DEF Handled
  <2>3. NotYet'
    BY <2>2 DEF NotYet
  <2> QED BY <2>1, <2>2, <2>3, HandledOne, WrittenOne
<1>3. ASSUME NEW r \in Ranks, NEW s \in 1..MaxLaunches, TimerFires(r, s)
      PROVE  OneSession'
  <2>1. UNCHANGED launched /\ \A q \in Ranks \ {r} : SameRank(q)
    BY <1>3, TimerWrites
  <2> QED BY <1>3, <2>1, TimerOne, WrittenOne
<1>4. ASSUME NEW r \in Ranks, Gdb(r)
      PROVE  OneSession'
  <2>1. Read(r) /\ \A q \in Ranks \ {r} : SameRank(q)
    BY <1>4, GdbIsRead
  <2>2. UNCHANGED <<launched, sessions, timers>>
    BY <2>1 DEF Read, stateVars
  <2>3. NotYet'
    BY <2>2 DEF NotYet
  <2> QED BY <2>1, <2>2, <2>3, ReadOne, WrittenOne
<1>5. ASSUME NEW r \in Ranks,
             \/ ServerListens(r)
             \/ \E mp \in BOOLEAN : TargetStops(r, mp)
             \/ TargetExits(r)
      PROVE  OneSession'
  <2>1. Happens(r) /\ \A q \in Ranks \ {r} : SameRank(q)
    BY <1>5, TargetIsHappening
  <2>2. UNCHANGED <<launched, sessions, timers>>
    BY <2>1 DEF Happens, stateVars
  <2>3. NotYet'
    BY <2>2 DEF NotYet
  <2> QED BY <2>1, <2>2, <2>3, HappensOne, WrittenOne
<1>6. CASE UNCHANGED vars
  <2>1. UNCHANGED <<launched, sessions, timers, toGdb, fromGdb, currentState, target>>
    BY <1>6 DEF vars, stateVars, gdbVars
  <2> QED BY <2>1 DEF NotYet, TokenOf, ExitTold
<1> QED BY <1>1, <1>2, <1>3, <1>4, <1>5, <1>6 DEF Next

(* When everything is handled, what is shown is what the target does.      *)
LEMMA QuietIsFresh ==
  ASSUME TypeOK, ShownRight, \A r \in Ranks : Heard(r) /\ ExitTold(r)
  PROVE  StateFresh
<1> SUFFICES ASSUME NEW r \in Ranks, Quiet(r)
             PROVE  /\ target[r] = "unattached" => currentState[r] = "launching"
                    /\ target[r] = "stopped" => currentState[r] \in {"stopped", "sync_flushing"}
                    /\ target[r] = "running" => currentState[r] = "running"
                    /\ target[r] = "over" => currentState[r] = "exited"
  BY DEF StateFresh, TypeOK
<1>1. launched /\ ~ Has(toGdb[r], Continues) /\ ~ Has(fromGdb[r], Changes) /\ ~ Has(fromGdb[r], Exits)
  BY HasNothing DEF Quiet
<1>2. PICK now, last \in Phases :
        /\ Shows(currentState[r], synced[r], now) /\ Leads(now, <<>>, last) /\ Stands(target[r], last)
  BY DEF Quiet, ShownRight, FollowsAt, Follows
<1>3. now = last
  BY <1>2, LeadsNowhere
<1>4. currentState[r] \in States \ {"none"}
  BY <1>1 DEF ShownRight, Slots, TypeOK
<1>5. currentState[r] = "running" => target[r] \in {"running", "over"}
  BY <1>1 DEF Heard
<1>6. target[r] = "over" => currentState[r] = "exited"
  BY <1>1 DEF ExitTold
<1>7. target[r] = "unattached" => currentState[r] = "launching"
  BY <1>2, <1>3, <1>4 DEF Shows, Stands
<1>8. target[r] = "stopped" => currentState[r] \in {"stopped", "sync_flushing"}
  BY <1>2, <1>3, <1>4, <1>5 DEF Shows, Stands, States
<1>9. target[r] = "running" => currentState[r] = "running"
  BY <1>2, <1>3, <1>4 DEF Shows, Stands, States
<1> QED BY <1>6, <1>7, <1>8, <1>9

(* Whatever is ordered, edited, stopped or lost on the way to connect, on  *)
(* every rank of a session: when all is handled, the state the coordinator *)
(* shows is the target's.  A later session may find a timer of this one    *)
(* armed, and is left to the runs.                                         *)
THEOREM StateFreshHolds == ASSUME MaxLaunches = 1 PROVE Spec => []StateFresh
<1>1. Init => TypeOK /\ ShownRight /\ OneSession /\ \A r \in Ranks : Heard(r)
  <2>1. Init => \A r \in Ranks : Heard(r)
    BY DEF Init, Heard
  <2> QED BY <2>1, InitType, InitFollows, InitOne
<1>2. TypeOK /\ ShownRight /\ OneSession /\ (\A r \in Ranks : Heard(r)) /\ [Next]_vars
        => (TypeOK /\ ShownRight /\ OneSession /\ \A r \in Ranks : Heard(r))'
  BY StepType, StepFollows, StepOne, StepHeard
<1>3. TypeOK /\ ShownRight /\ OneSession /\ (\A r \in Ranks : Heard(r)) => StateFresh
  BY QuietIsFresh DEF OneSession
<1> QED BY <1>1, <1>2, <1>3, PTL DEF Spec

-----------------------------------------------------------------------------
(* gdb reports a line at another line's location for no line of the file:  *)
(* broadcastBreakpoint finds what it deletes by location.                  *)
Faithful == \A k, l \in Lines : Reported[k] = l => k = l

(* The commands that set a breakpoint on a line. *)
Inserts(l) == {c \in Commands : c.line = l /\ c.name \in {"insert", "flush"}}

(* What gdb reports for its breakpoints. *)
BpsRight(r) == \A b \in gdbBps[r] : b.at \in {Pending, Reported[b.line]}

(* A line of the workspace is held by a breakpoint that nothing on its way *)
(* deletes, or its insertion is on its way.                                *)
HeldBy(l, bps, to) ==
  \/ \E b \in bps : b.line = l /\ b.id \notin DeletedIn(to)
  \/ Has(to, Inserts(l))

Held(r) ==
  synced[r] =>
    \A l \in persisted : Reported[l] # Pending => HeldBy(l, gdbBps[r], toGdb[r])

AllHeld == \A r \in Ranks : BpsRight(r) /\ Held(r)

(* More commands that delete nothing keep a line held. *)
LEMMA HeldConcat ==
  ASSUME NEW l, NEW bps, NEW to \in Seq(Commands), NEW added \in Seq(Commands),
         HeldBy(l, bps, to), \A b \in bps : b.line = l => b.id \notin DeletedIn(added)
  PROVE  HeldBy(l, bps, to \o added)
BY DeletedConcat, HasConcat DEF HeldBy

(* A first stop inserts every line of the workspace. *)
LEMMA FlushesAll ==
  ASSUME persisted \subseteq Lines, NEW cmds \in FlushCommands, NEW l \in persisted
  PROVE  Has(cmds, Inserts(l))
<1> DEFINE n == Cardinality(persisted)
<1>1. IsFiniteSet(persisted) /\ n \in Nat
  BY GdbAssumption, FS_Subset, FS_CardinalityType
<1>2. PICK order \in [1..n -> persisted] :
        /\ \A i, j \in DOMAIN order : order[i] = order[j] => i = j
        /\ cmds = [i \in 1..n |-> FlushOf(order[i])]
  BY DEF FlushCommands
<1>3. order \in Injection(1..n, persisted)
  BY <1>2 DEF Injection, IsInjective
<1>4. Cardinality(1..n) = n
  BY <1>1, FS_Interval
<1>5. order \in Surjection(1..n, persisted)
  BY <1>1, <1>3, <1>4, FS_Injection
<1>6. PICK i \in 1..n : order[i] = l
  BY <1>5 DEF Surjection
<1> HIDE DEF n
<1>7. i \in 1..Len(cmds) /\ cmds[i] = FlushOf(l)
  BY <1>1, <1>2, <1>6
<1>8. FlushOf(l) \in Inserts(l)
  BY CommandsType DEF FlushOf, Inserts
<1> QED BY <1>7, <1>8 DEF Has

(* At a first stop every line of the workspace is held. *)
LEMMA FirstStopHeld ==
  ASSUME TypeOK, ShownRight, NEW r \in Ranks, HandleFirstStop(r)
  PROVE  Held(r)'
<1>1. launched
  BY DEF HandleFirstStop, Take, ShownRight, Slots
<1>2. PICK cmds \in FlushCommands : cmds = <<>> \/ Write(r, cmds)
  BY DEF HandleFirstStop
<1>3. persisted \subseteq Lines /\ persisted' = persisted
  BY DEF HandleFirstStop, TypeOK
<1>4. cmds \in Seq(Commands) /\ toGdb \in [Ranks -> Seq(Commands)]
  BY FlushType DEF TypeOK
<1>5. ASSUME NEW l \in persisted PROVE Has(toGdb'[r], Inserts(l))
  <2>1. Has(cmds, Inserts(l))
    BY <1>3, FlushesAll
  <2>2. cmds # <<>>
    BY <2>1, HasNothing
  <2>3. toGdb'[r] = toGdb[r] \o cmds
    BY <1>1, <1>2, <1>4, <2>2 DEF Write
  <2> QED BY <1>4, <2>1, <2>3, HasConcat
<1> QED BY <1>3, <1>5 DEF Held, HeldBy

(* So are they after any other record. *)
LEMMA HandledHeld ==
  ASSUME TypeOK, NEW r \in Ranks, Handled(r), BpsRight(r), Held(r), synced'[r] = synced[r]
  PROVE  Held(r)'
<1>1. PICK added \in Seq(Commands) :
        /\ toGdb'[r] = toGdb[r] \o added
        /\ \A i \in 1..Len(added) : added[i].name \in {"continue", "flush"}
  BY DEF Handled
<1>2. DeletedIn(added) = {}
  BY <1>1, DeletesNothing
<1>3. UNCHANGED <<persisted, gdbBps>> /\ toGdb[r] \in Seq(Commands)
  BY DEF Handled, TypeOK
<1>4. \A l : HeldBy(l, gdbBps[r], toGdb[r]) => HeldBy(l, gdbBps[r], toGdb'[r])
  BY <1>1, <1>2, <1>3, HeldConcat
<1> QED BY <1>3, <1>4 DEF Held

(* A line is held after gdb reads the command that holds it, or another.   *)
LEMMA ReadHeld ==
  ASSUME TypeOK, ShownRight, NEW r \in Ranks, AgreeAt(r), Gdb(r), BpsRight(r), Held(r)
  PROVE  BpsRight(r)' /\ Held(r)'
<1> DEFINE c == Head(toGdb[r])
<1>a. /\ toGdb[r] \in Seq(Commands) /\ toGdb[r] # <<>> /\ c \in Commands
      /\ toGdb'[r] = Tail(toGdb[r]) /\ UNCHANGED <<persisted, synced>>
      /\ gdbBps \in [Ranks -> SUBSET Breakpoint]
  BY GdbIsRead DEF Read, stateVars, TypeOK
<1>b. DeletedIn(toGdb'[r]) \subseteq DeletedIn(toGdb[r])
  BY <1>a, DeletedTail
<1>c. \A l : Has(toGdb[r], Inserts(l)) => c \in Inserts(l) \/ Has(toGdb'[r], Inserts(l))
  BY <1>a, HasTail
<1>1. CASE GdbInserts(r)
  <2> DEFINE at == IF target[r] = "unattached" THEN Pending ELSE Reported[c.line]
             b  == [id |-> nextId[r], line |-> c.line, at |-> at]
  <2>1. \/ gdbBps'[r] = gdbBps[r] \cup {b}
        \/ gdbBps'[r] = gdbBps[r] /\ at = Pending
    BY <1>1, <1>a DEF GdbInserts
  <2>2. b.at \in {Pending, Reported[b.line]} /\ b.line = c.line /\ b.id = nextId[r]
    OBVIOUS
  <2>3. nextId[r] \notin DeletedIn(toGdb'[r])
    <3>1. \A id \in DeletedIn(toGdb[r]) : id < nextId[r]
      BY DEF AgreeAt, Agree
    <3>2. nextId[r] \in Nat
      BY DEF TypeOK
    <3> QED BY <1>b, <3>1, <3>2
  <2>4. synced[r] => target[r] # "unattached"
    <3>1. synced[r] => currentState[r] \notin {"none", "launching"}
      BY DEF ShownRight, FollowsAt, Follows, Shows
    <3> QED BY <3>1, ShownAttached DEF ShownRight
  <2>5. at = Pending => ~ synced[r] \/ Reported[c.line] = Pending
    BY <2>4
  <2> HIDE DEF b, at
  <2>6. BpsRight(r)'
    BY <2>1, <2>2 DEF BpsRight
  <2>7. ASSUME NEW l \in persisted, Reported[l] # Pending, synced[r]
        PROVE  HeldBy(l, gdbBps'[r], toGdb'[r])
    <3>1. HeldBy(l, gdbBps[r], toGdb[r])
      BY <2>7 DEF Held
    <3>2. CASE c \in Inserts(l)
      <4>1. c.line = l
        BY <3>2 DEF Inserts
      <4>2. gdbBps'[r] = gdbBps[r] \cup {b}
        BY <2>1, <2>5, <2>7, <4>1
      <4> QED BY <2>2, <2>3, <4>1, <4>2 DEF HeldBy
    <3>3. CASE c \notin Inserts(l)
      BY <1>b, <1>c, <2>1, <3>1, <3>3 DEF HeldBy
    <3> QED BY <3>2, <3>3
  <2> QED BY <1>a, <2>6, <2>7 DEF Held
<1>2. CASE GdbDeletes(r)
  <2>1. gdbBps'[r] = {b \in gdbBps[r] : b.id # c.n} /\ c.name = "delete"
    BY <1>2, <1>a DEF GdbDeletes, Reads
  <2>2. c.n \in DeletedIn(toGdb[r])
    BY <1>a, <2>1, DeletedTail
  <2>3. \A l : c \notin Inserts(l)
    BY <2>1 DEF Inserts
  <2> HIDE DEF c
  <2>4. \A l : HeldBy(l, gdbBps[r], toGdb[r]) => HeldBy(l, gdbBps'[r], toGdb'[r])
    BY <1>b, <1>c, <2>1, <2>2, <2>3 DEF HeldBy
  <2> QED BY <1>a, <2>1, <2>4 DEF BpsRight, Held
<1>3. CASE GdbConnects(r) \/ GdbExecutes(r)
  <2>1. gdbBps'[r] = gdbBps[r] /\ c.name \in {"connect", "continue", "interrupt"}
    BY <1>3 DEF GdbConnects, GdbExecutes, Reads
  <2>2. \A l : c \notin Inserts(l)
    BY <2>1 DEF Inserts
  <2> HIDE DEF c
  <2>3. \A l : HeldBy(l, gdbBps[r], toGdb[r]) => HeldBy(l, gdbBps'[r], toGdb'[r])
    BY <1>b, <1>c, <2>1, <2>2 DEF HeldBy
  <2> QED BY <1>a, <2>1, <2>3 DEF BpsRight, Held
<1> QED BY <1>1, <1>2, <1>3 DEF Gdb

(* An edit deletes breakpoints of its own line only: what the table has at *)
(* the line was asked for there.                                           *)
LEMMA EditHeld ==
  ASSUME Faithful, TypeOK, NEW r \in Ranks, AgreeAt(r), BpsRight(r), Held(r),
         NEW line \in Lines, NEW isSet \in BOOLEAN, NEW id \in Victims(r, line),
         toGdb'[r] = toGdb[r] \o EditCommands(line, isSet, id),
         persisted' = IF isSet THEN persisted \cup {line} ELSE persisted \ {line},
         UNCHANGED <<gdbBps, synced>>
  PROVE  Held(r)'
<1> DEFINE added == EditCommands(line, isSet, id)
<1>1. id \in Nat /\ (id = 0 \/ \E e \in breakpoints[r] : e.id = id /\ e.at = line)
  <2>1. id \in Nat
    BY TableType
  <2> QED BY <2>1 DEF Victims
<1>2. added \in Seq(Commands) /\ DeletedIn(added) = (IF id = 0 THEN {} ELSE {id})
  BY <1>1, EditDeletes
<1>3. toGdb[r] \in Seq(Commands) /\ gdbBps[r] \subseteq Breakpoint
  BY DEF TypeOK
<1>4. isSet => Has(added, Inserts(line))
  <2>1. Insert(line) \in Commands /\ Insert(line) \in Inserts(line)
    BY CommandsType DEF Insert, Inserts
  <2> DEFINE deleting == IF id # 0 THEN <<Delete(id)>> ELSE <<>>
             one      == <<Insert(line)>>
  <2>2. deleting \in Seq(Commands) /\ one \in Seq(Commands) /\ Has(one, Inserts(line))
    BY <1>1, <2>1, CommandsType, HasSingle
  <2>3. isSet => added = deleting \o one
    BY DEF EditCommands
  <2> HIDE DEF deleting, one, added
  <2>4. Has(deleting \o one, Inserts(line))
    BY <2>2, HasConcat
  <2> QED BY <2>3, <2>4
<1> HIDE DEF added
<1>5. \A b \in gdbBps[r] : b.id \in DeletedIn(added) => b.line = line
  <2> SUFFICES ASSUME NEW b \in gdbBps[r], b.id = id, id # 0
               PROVE  b.line = line
    BY <1>2
  <2>1. PICK e \in breakpoints[r] : e.id = id /\ e.at = line
    BY <1>1
  <2>2. PICK d \in gdbBps[r] : d.id = e.id /\ d.at = e.at
    BY DEF AgreeAt, Agree
  <2>3. d = b
    BY <2>1, <2>2 DEF AgreeAt, Agree
  <2>4. line \in {Pending, Reported[b.line]}
    BY <2>1, <2>2, <2>3 DEF BpsRight
  <2>5. b.line \in Lines
    BY <1>3 DEF Breakpoint
  <2> QED BY <2>4, <2>5, GdbAssumption DEF Faithful
<1>6. ASSUME NEW l \in persisted', Reported[l] # Pending, synced[r]
      PROVE  HeldBy(l, gdbBps[r], toGdb[r] \o added)
  <2>1. CASE l = line
    <3>1. isSet
      BY <1>6, <2>1
    <3>2. Has(toGdb[r] \o added, Inserts(l))
      BY <1>2, <1>3, <1>4, <2>1, <3>1, HasConcat
    <3> QED BY <3>2 DEF HeldBy
  <2>2. CASE l # line
    <3>1. HeldBy(l, gdbBps[r], toGdb[r])
      BY <1>6, <2>2 DEF Held
    <3> QED BY <1>2, <1>3, <1>5, <2>2, <3>1, HeldConcat
  <2> QED BY <2>1, <2>2
<1> QED BY <1>6 DEF Held, added

(* What leaves a rank alone keeps it. *)
LEMMA SameHeld ==
  ASSUME NEW q \in Ranks, BpsRight(q), Held(q), UNCHANGED persisted,
         synced'[q] = synced[q], gdbBps'[q] = gdbBps[q], toGdb'[q] = toGdb[q]
  PROVE  BpsRight(q)' /\ Held(q)'
BY DEF BpsRight, Held

(* Commands that neither set nor delete a breakpoint keep it. *)
LEMMA WriteHeld ==
  ASSUME TypeOK, NEW q \in Ranks, BpsRight(q), Held(q), UNCHANGED <<persisted, synced, gdbBps>>,
         NEW c \in Commands, c.name # "delete", toGdb'[q] = toGdb[q] \o <<c>>
  PROVE  BpsRight(q)' /\ Held(q)'
<1> DEFINE one == <<c>>
<1>1. one \in Seq(Commands) /\ \A i \in 1..Len(one) : one[i].name # "delete"
  OBVIOUS
<1> HIDE DEF one
<1>2. DeletedIn(one) = {} /\ toGdb[q] \in Seq(Commands)
  BY <1>1, DeletesNothing DEF TypeOK
<1>3. \A l : HeldBy(l, gdbBps[q], toGdb[q]) => HeldBy(l, gdbBps[q], toGdb[q] \o one)
  BY <1>1, <1>2, HeldConcat
<1> QED BY <1>3 DEF BpsRight, Held, one

(* Every step keeps it. *)
LEMMA StepHeld ==
  ASSUME Faithful, TypeOK, ShownRight, TableAgrees, AllHeld, [Next]_vars
  PROVE  AllHeld'
<1> SUFFICES ASSUME NEW p \in Ranks PROVE BpsRight(p)' /\ Held(p)'
  BY DEF AllHeld
<1>a. AgreeAt(p) /\ BpsRight(p) /\ Held(p)
  BY RankByRank DEF AllHeld
<1>1. CASE LaunchParallelSession \/ TerminateAllSessions
  BY <1>1 DEF LaunchParallelSession, TerminateAllSessions, FreshSlots, BpsRight, Held
<1>2. ASSUME NEW line \in Lines, NEW isSet \in BOOLEAN, EditBreakpoint(line, isSet)
      PROVE  BpsRight(p)' /\ Held(p)'
  <2>1. /\ UNCHANGED <<gdbBps, synced, launched>>
        /\ persisted' = IF isSet THEN persisted \cup {line} ELSE persisted \ {line}
    BY <1>2 DEF EditBreakpoint, gdbVars
  <2>2. BpsRight(p)'
    BY <1>a, <2>1 DEF BpsRight
  <2>3. CASE launched
    <3>1. PICK id \in [Ranks -> UNION {Victims(r, line) : r \in Ranks}] :
            /\ \A r \in Ranks : id[r] \in Victims(r, line)
            /\ toGdb' = [r \in Ranks |-> toGdb[r] \o EditCommands(line, isSet, id[r])]
      BY <1>2, <2>3 DEF EditBreakpoint
    <3> DEFINE i == id[p]
    <3>2. i \in Victims(p, line) /\ toGdb'[p] = toGdb[p] \o EditCommands(line, isSet, i)
      BY <3>1
    <3> HIDE DEF i
    <3> QED BY <1>a, <2>1, <2>2, <3>2, EditHeld
  <2>4. CASE ~ launched
    <3>1. ~ synced[p]
      <4>1. currentState[p] = "none" /\ FollowsAt(p)
        BY <2>4 DEF ShownRight, Slots
      <4> QED BY <4>1 DEF FollowsAt, Follows, Shows
    <3> QED BY <2>1, <2>2, <3>1 DEF Held
  <2> QED BY <2>3, <2>4
<1>3. ASSUME NEW name \in {"continue", "interrupt"}, NEW to, Command(name, to)
      PROVE  BpsRight(p)' /\ Held(p)'
  <2>1. UNCHANGED <<persisted, synced, gdbBps>>
    BY <1>3 DEF Command, stateVars, gdbVars
  <2>2. CASE p \in to
    <3> DEFINE c == Exec(name)
    <3>1. c \in Commands /\ c.name # "delete"
      BY CommandsType DEF Exec
    <3>2. toGdb'[p] = Append(toGdb[p], c)
      BY <1>3, <2>2 DEF Command
    <3> HIDE DEF c
    <3>3. toGdb'[p] = toGdb[p] \o <<c>>
      BY <3>1, <3>2 DEF TypeOK
    <3> QED BY <1>a, <2>1, <3>1, <3>3, WriteHeld
  <2>3. CASE p \notin to
    <3>1. toGdb'[p] = toGdb[p]
      BY <1>3, <2>3 DEF Command
    <3> QED BY <1>a, <2>1, <3>1, SameHeld
  <2> QED BY <2>2, <2>3
<1>4. ASSUME NEW r \in Ranks, Handle(r)
      PROVE  BpsRight(p)' /\ Held(p)'
  <2>1. /\ Handled(r) /\ \A q \in Ranks \ {r} : SameRank(q)
        /\ UNCHANGED <<persisted, gdbBps>>
    BY <1>4, HandleIsHandled DEF Handled
  <2>2. CASE p # r
    BY <1>a, <2>1, <2>2, SameHeld DEF SameRank
  <2>3. CASE p = r /\ HandleFirstStop(r)
    BY <1>a, <2>1, <2>3, FirstStopHeld DEF BpsRight
  <2>4. CASE p = r /\ ~ HandleFirstStop(r)
    <3>1. synced'[r] = synced[r]
      BY <1>4, <2>4 DEF Handle, HandleStopped, HandleExecution, HandleBkpt, HandleRefused, stateVars
    <3> QED BY <1>a, <2>1, <2>4, <3>1, HandledHeld DEF BpsRight
  <2> QED BY <2>2, <2>3, <2>4
<1>5. ASSUME NEW r \in Ranks, NEW s \in 1..MaxLaunches, TimerFires(r, s)
      PROVE  BpsRight(p)' /\ Held(p)'
  <2>1. UNCHANGED <<persisted, synced, gdbBps>> /\ Write(r, <<Connect(s)>>)
    BY <1>5 DEF TimerFires, stateVars, gdbVars
  <2> DEFINE c == Connect(s)
  <2>2. c \in Commands /\ c.name # "delete" /\ Write(r, <<c>>)
    BY <2>1, CommandsType DEF Connect
  <2> HIDE DEF c
  <2>3. toGdb'[p] = toGdb[p] \/ toGdb'[p] = toGdb[p] \o <<c>>
    BY <2>2 DEF Write, TypeOK
  <2> QED BY <1>a, <2>1, <2>2, <2>3, SameHeld, WriteHeld
<1>6. ASSUME NEW r \in Ranks, Gdb(r)
      PROVE  BpsRight(p)' /\ Held(p)'
  <2>1. CASE p = r
    BY <1>6, <1>a, <2>1, ReadHeld
  <2>2. CASE p # r
    <3>1. SameRank(p) /\ UNCHANGED persisted
      BY <1>6, <2>2, GdbIsRead DEF Read
    <3> QED BY <1>a, <3>1, SameHeld DEF SameRank
  <2> QED BY <2>1, <2>2
<1>7. ASSUME NEW r \in Ranks,
             \/ ServerListens(r)
             \/ \E mp \in BOOLEAN : TargetStops(r, mp)
             \/ TargetExits(r)
      PROVE  BpsRight(p)' /\ Held(p)'
  <2>1. UNCHANGED <<persisted, synced, gdbBps, toGdb>>
    BY <1>7, TargetIsHappening DEF Happens, stateVars
  <2> QED BY <1>a, <2>1, SameHeld
<1>8. CASE UNCHANGED vars
  <2>1. UNCHANGED <<persisted, synced, gdbBps, toGdb>>
    BY <1>8 DEF vars, stateVars, gdbVars
  <2> QED BY <1>a, <2>1, SameHeld
<1> QED BY <1>1, <1>2, <1>3, <1>4, <1>5, <1>6, <1>7, <1>8 DEF Next, Views

(* Edits race the launch, the connection and the flush on every rank;      *)
(* still, when all is handled, a synced rank has every breakpoint of the   *)
(* workspace that gdb can resolve, as long as gdb reports no line at the   *)
(* location of another.                                                    *)
THEOREM NoneMissingHolds == ASSUME Faithful PROVE Spec => []NoneMissing
<1>1. Init => TypeOK /\ ShownRight /\ TableAgrees /\ AllHeld
  <2>1. Init => AllHeld
    BY DEF Init, AllHeld, BpsRight, Held
  <2> QED BY <2>1, InitType, InitFollows, InitAgrees
<1>2. TypeOK /\ ShownRight /\ TableAgrees /\ AllHeld /\ [Next]_vars
        => (TypeOK /\ ShownRight /\ TableAgrees /\ AllHeld)'
  BY StepType, StepFollows, StepAgrees, StepHeld
<1>3. AllHeld => NoneMissing
  BY HasNothing DEF AllHeld, Held, HeldBy, NoneMissing, Quiet
<1> QED BY <1>1, <1>2, <1>3, PTL DEF Spec
=============================================================================

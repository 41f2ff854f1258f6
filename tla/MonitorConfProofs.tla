------------------------- MODULE MonitorConfProofs -------------------------
(***************************************************************************)
(* Proofs about minermonitor.conf and the programs that share it, for any  *)
(* number of pages and any forms: the types, that no starter has a second  *)
(* process, and that the file never mixes what two forms said.             *)
(***************************************************************************)
EXTENDS MonitorConf, MinTheorems, FiniteSetTheorems, SequenceTheorems, TLAPS

ConfLines ==
  [key : {"{", "}", "api-switch", "api-uid"}, val : {"", "on", "off"} \cup Uids]

\* A line with the switch has a switch, a line with the uid has a uid.
Keyed(f) ==
  /\ f \in Seq(ConfLines)
  /\ \A l \in 1 .. Len(f) :
       /\ f[l].key = "api-switch" => f[l].val \in {"on", "off"}
       /\ f[l].key = "api-uid" => f[l].val \in Uids

DaemonTypes ==
  /\ main \in [Starters -> {"dead", "read", "truncate", "write", "run"}]
  /\ thread \in [Starters -> BOOLEAN] /\ SW \in [Starters -> BOOLEAN]
  /\ held \in [Starters -> Pairs]

CgiTypes ==
  /\ cgi \in [Pages -> {"idle", "sw", "uid", "rest", "kill", "start"}]
  /\ form \in [Pages -> Forms \cup {Factory}]
  /\ sent \subseteq Forms \cup {Factory}

DogTypes ==
  dog \in [pc : {"pidof", "grep", "act", "start"}, Check_RET : 0 .. Cardinality(Starters),
           OFF_ON_NUM : 0 .. 2]

CountTypes ==
  saves \in 0 .. MaxSaves /\ auths \in 0 .. MaxAuths /\ cuts \in 0 .. MaxCuts

TypeInv == Keyed(file) /\ DaemonTypes /\ CgiTypes /\ DogTypes /\ CountTypes

-----------------------------------------------------------------------------
(* Lines, and what is read from them *)

\* The factory's file and the forms are pairs of a switch and an account.
LEMMA FactoryIsPair == Factory \in Pairs /\ Forms \subseteq Pairs
BY FormsAssumption

\* The lines the programs write.
LEMMA LineTypes ==
  /\ Open \in ConfLines /\ Close \in ConfLines
  /\ \A v \in {"on", "off"} : Line("api-switch", v) \in ConfLines
  /\ \A v \in Uids : Line("api-uid", v) \in ConfLines
BY DEF Open, Close, Line, ConfLines

\* A line with a value of its key, put at the end of a keyed file.
LEMMA KeyedAppend ==
  ASSUME NEW f, Keyed(f), NEW line \in ConfLines,
         line.key = "api-switch" => line.val \in {"on", "off"},
         line.key = "api-uid" => line.val \in Uids
  PROVE  Keyed(Append(f, line))
BY DEF Keyed

\* An emptied file is keyed.
LEMMA KeyedEmpty == Keyed(<<>>)
<1>1. <<>> \in Seq(ConfLines) /\ Len(<<>>) = 0
  OBVIOUS
<1> QED
  BY <1>1 DEF Keyed

\* So is one that was just begun.
LEMMA KeyedOpen == Keyed(<<Open>>)
<1> DEFINE f == <<Open>>
<1>1. f \in Seq(ConfLines) /\ Len(f) = 1 /\ f[1] = Open
  BY LineTypes
<1>2. Open.key = "{"
  BY DEF Open, Line
<1> HIDE DEF f
<1>3. \A l \in 1 .. Len(f) : l = 1
  BY <1>1
<1>4. \A l \in 1 .. Len(f) : f[l].key = "{"
  BY <1>1, <1>2, <1>3
<1>5. Keyed(f)
  BY <1>1, <1>4 DEF Keyed
<1> QED
  BY <1>5 DEF f

\* The four lines of a whole file.
LEMMA LinesOfPair ==
  ASSUME NEW f \in Pairs
  PROVE  /\ Lines(f) \in Seq(ConfLines) /\ Len(Lines(f)) = 4
         /\ Lines(f)[1] = Open /\ Lines(f)[2] = Line("api-switch", f.sw)
         /\ Lines(f)[3] = Line("api-uid", f.uid) /\ Lines(f)[4] = Close
         /\ Keyed(Lines(f))
<1>1. f.sw \in {"on", "off"} /\ f.uid \in Uids
  BY DEF Pairs
<1>2. /\ Lines(f) \in Seq(ConfLines) /\ Len(Lines(f)) = 4
      /\ Lines(f)[1] = Open /\ Lines(f)[2] = Line("api-switch", f.sw)
      /\ Lines(f)[3] = Line("api-uid", f.uid) /\ Lines(f)[4] = Close
  BY <1>1, LineTypes DEF Lines
<1>3. \A l \in 1 .. 4 : l \in {1, 2, 3, 4}
  OBVIOUS
<1>4. /\ Line("api-switch", f.sw).key = "api-switch" /\ Line("api-switch", f.sw).val = f.sw
      /\ Line("api-uid", f.uid).key = "api-uid" /\ Line("api-uid", f.uid).val = f.uid
      /\ Open.key = "{" /\ Close.key = "}"
  BY DEF Line, Open, Close
<1>5. Keyed(Lines(f))
  <2> SUFFICES ASSUME NEW l \in 1 .. 4
               PROVE  /\ Lines(f)[l].key = "api-switch" => Lines(f)[l].val \in {"on", "off"}
                      /\ Lines(f)[l].key = "api-uid" => Lines(f)[l].val \in Uids
    BY <1>2 DEF Keyed
  <2>1. l = 1 \/ l = 2 \/ l = 3 \/ l = 4
    BY <1>3
  <2> QED
    BY <1>1, <1>2, <1>4, <2>1
<1> QED
  BY <1>2, <1>5

\* A daemon's lines over what was appended: they come first, and all is keyed.
LEMMA LinesOver ==
  ASSUME NEW f \in Pairs, Keyed(file)
  PROVE  /\ Keyed(Over(Lines(f))) /\ Len(Over(Lines(f))) >= 4
         /\ \A l \in 1 .. 4 : Over(Lines(f))[l] = Lines(f)[l]
<1> DEFINE new == Lines(f)
           tail == SubSeq(file, 5, Len(file))
           over == new \o tail
<1>1. Keyed(new) /\ Len(new) = 4 /\ new \in Seq(ConfLines)
  BY LinesOfPair
<1>2. Over(new) = over
  BY <1>1 DEF Over
<1>3. /\ file \in Seq(ConfLines) /\ Len(file) \in Nat
      /\ \A l \in 1 .. Len(file) :
           /\ file[l].key = "api-switch" => file[l].val \in {"on", "off"}
           /\ file[l].key = "api-uid" => file[l].val \in Uids
  BY DEF Keyed
<1>4. /\ tail \in Seq(ConfLines)
      /\ Len(tail) = IF 5 <= Len(file) THEN Len(file) - 4 ELSE 0
      /\ \A l \in 1 .. Len(tail) : tail[l] = file[l + 4]
  BY <1>3
<1> HIDE DEF new, tail
<1>5. /\ over \in Seq(ConfLines) /\ Len(over) = 4 + Len(tail) /\ Len(tail) \in Nat
      /\ \A l \in 1 .. Len(over) : over[l] = IF l <= 4 THEN new[l] ELSE tail[l - 4]
  <2>1. tail \in Seq(ConfLines) /\ new \in Seq(ConfLines) /\ Len(new) = 4
    BY <1>1, <1>4
  <2>2. over \in Seq(ConfLines) /\ Len(over) = Len(new) + Len(tail)
    BY <2>1, ConcatProperties
  <2>3. Len(tail) \in Nat
    BY <2>1
  <2>4. \A l \in 1 .. Len(new) + Len(tail) :
          over[l] = IF l <= Len(new) THEN new[l] ELSE tail[l - Len(new)]
    BY <2>1, ConcatProperties
  <2> QED
    BY <2>1, <2>2, <2>3, <2>4
<1>6. ASSUME NEW l \in 1 .. Len(over)
      PROVE  /\ over[l].key = "api-switch" => over[l].val \in {"on", "off"}
             /\ over[l].key = "api-uid" => over[l].val \in Uids
  <2>1. CASE l <= 4
    BY <1>1, <1>5, <2>1 DEF Keyed
  <2>2. CASE ~ (l <= 4)
    <3>1. l - 4 \in 1 .. Len(tail) /\ (l - 4) + 4 = l /\ l \in 1 .. Len(file)
      BY <1>3, <1>4, <1>5, <2>2
    <3>2. over[l] = file[l]
      BY <1>4, <1>5, <2>2, <3>1
    <3> QED
      BY <1>3, <3>1, <3>2
  <2> QED
    BY <2>1, <2>2
<1>7. Keyed(over) /\ Len(over) >= 4 /\ \A l \in 1 .. 4 : over[l] = new[l]
  BY <1>5, <1>6 DEF Keyed
<1> QED
  BY <1>2, <1>7 DEF new

\* What cJSON_GetObjectItem finds in a file that is whole is a switch and a uid.
LEMMA ContentsType ==
  ASSUME Keyed(file), Whole(file)
  PROVE  Contents(file) \in Pairs
<1>1. DOMAIN file = 1 .. Len(file) /\ Len(file) \in Nat
  BY DEF Keyed
<1>2. ASSUME NEW k \in {"api-switch", "api-uid"}
      PROVE  Min(Keys(file, k)) \in 1 .. Len(file) /\ file[Min(Keys(file, k))].key = k
  <2>1. Keys(file, k) \subseteq 1 .. Len(file) /\ \A l \in Keys(file, k) : file[l].key = k
    BY <1>1 DEF Keys
  <2>2. Keys(file, k) # {} /\ Keys(file, k) \in SUBSET Nat
    BY <1>1, <2>1 DEF Whole
  <2>3. Min(Keys(file, k)) \in Keys(file, k)
    BY <2>2, MinExists
  <2> QED
    BY <2>1, <2>3
<1>3. Value(file, "api-switch") \in {"on", "off"}
  BY <1>2 DEF Value, Keyed
<1>4. Value(file, "api-uid") \in Uids
  BY <1>2 DEF Value, Keyed
<1> QED
  BY <1>3, <1>4 DEF Contents, Pairs

-----------------------------------------------------------------------------
(* The types *)

\* For the steps that leave Boolean-valued functions to Zenon.
LEMMA BoolTypes == FALSE \in BOOLEAN /\ TRUE \in BOOLEAN
OBVIOUS

\* The end of a process keeps the types.
LEMMA EndedTypes ==
  ASSUME DaemonTypes, NEW s \in Starters, Ended(s)
  PROVE  DaemonTypes'
<1>1. main' \in [Starters -> {"dead", "read", "truncate", "write", "run"}]
  BY DEF DaemonTypes, Ended
<1>2. thread' \in [Starters -> BOOLEAN]
  BY BoolTypes DEF DaemonTypes, Ended
<1>3. SW' \in [Starters -> BOOLEAN]
  BY BoolTypes DEF DaemonTypes, Ended
<1>4. held' \in [Starters -> Pairs]
  BY FactoryIsPair DEF DaemonTypes, Ended
<1> QED
  BY <1>1, <1>2, <1>3, <1>4 DEF DaemonTypes

\* So does the end of all.
LEMMA KillAllTypes == KillAll => DaemonTypes'
<1> SUFFICES ASSUME KillAll PROVE DaemonTypes'
  OBVIOUS
<1>1. main' \in [Starters -> {"dead", "read", "truncate", "write", "run"}]
  BY DEF KillAll
<1>2. thread' \in [Starters -> BOOLEAN] /\ SW' \in [Starters -> BOOLEAN]
  BY BoolTypes DEF KillAll
<1>3. held' \in [Starters -> Pairs]
  BY FactoryIsPair DEF KillAll
<1> QED
  BY <1>1, <1>2, <1>3 DEF DaemonTypes

\* So does a start.
LEMMA StartedTypes ==
  ASSUME DaemonTypes, NEW s \in Starters, Started(s)
  PROVE  DaemonTypes'
BY DEF DaemonTypes, Started

\* A step of a daemon keeps its types and the file keyed, ...
LEMMA DaemonStepTypes ==
  ASSUME TypeInv, NEW s \in Starters, Daemon(s) \/ AuthResponse(s) \/ HostUnknown(s)
  PROVE  DaemonTypes' /\ Keyed(file')
<1>a. DaemonTypes /\ Keyed(file)
  BY DEF TypeInv
<1>1. CASE RespondReads(s)
  <2>1. file' = file
    BY <1>1 DEF RespondReads
  <2>2. CASE file = <<>>
    <3>1. /\ main' = [main EXCEPT ![s] = "run"] /\ thread' = [thread EXCEPT ![s] = TRUE]
          /\ SW' = SW /\ held' = held
      BY <1>1, <2>2 DEF RespondReads, Whole
    <3>2. thread' \in [Starters -> BOOLEAN]
      BY <1>a, <3>1, BoolTypes DEF DaemonTypes
    <3> QED
      BY <1>a, <2>1, <3>1, <3>2 DEF DaemonTypes
  <2>3. CASE file # <<>> /\ ~ Whole(file)
    BY <1>a, <1>1, <2>1, <2>3, EndedTypes DEF RespondReads
  <2>4. CASE Whole(file)
    <3>1. /\ main' = [main EXCEPT ![s] = "truncate"]
          /\ held' = [held EXCEPT ![s] = Contents(file)]
          /\ thread' = thread /\ SW' = SW
      BY <1>1, <2>4 DEF RespondReads, Whole
    <3> QED
      BY <1>a, <2>1, <2>4, <3>1, ContentsType DEF DaemonTypes
  <2> QED
    BY <2>2, <2>3, <2>4
<1>2. CASE RespondTruncates(s)
  BY <1>a, <1>2, KeyedEmpty DEF RespondTruncates, DaemonTypes
<1>3. CASE RespondWrites(s)
  <2>1. thread' \in [Starters -> BOOLEAN]
    BY <1>a, <1>3, BoolTypes DEF RespondWrites, DaemonTypes
  <2>2. held[s] \in Pairs
    BY <1>a DEF DaemonTypes
  <2>3. Keyed(file')
    BY <1>a, <1>3, <2>2, LinesOver DEF RespondWrites
  <2> QED
    BY <1>a, <1>3, <2>1, <2>3, FactoryIsPair DEF RespondWrites, DaemonTypes
<1>4. CASE read_switch(s)
  <2>1. file' = file
    BY <1>4 DEF read_switch
  <2>2. CASE Ended(s)
    BY <1>a, <2>1, <2>2, EndedTypes
  <2>3. CASE ~ Ended(s)
    <3>1. main' = main /\ thread' = thread /\ held' = held /\ SW' = [SW EXCEPT ![s] = TRUE]
      BY <1>4, <2>3 DEF read_switch
    <3>2. SW' \in [Starters -> BOOLEAN]
      BY <1>a, <3>1, BoolTypes DEF DaemonTypes
    <3> QED
      BY <1>a, <2>1, <3>1, <3>2 DEF DaemonTypes
  <2> QED
    BY <2>2, <2>3
<1>5. CASE Exit(s) \/ HostUnknown(s)
  BY <1>a, <1>5, EndedTypes DEF Exit, HostUnknown
<1>6. CASE AuthResponse(s)
  BY <1>a, <1>6 DEF AuthResponse, DaemonTypes
<1> QED
  BY <1>1, <1>2, <1>3, <1>4, <1>5, <1>6 DEF Daemon

\* ... and leaves the other programs alone.
LEMMA DaemonStepOthers ==
  ASSUME TypeInv, NEW s \in Starters, Daemon(s) \/ AuthResponse(s) \/ HostUnknown(s)
  PROVE  CgiTypes' /\ DogTypes' /\ CountTypes'
<1>1. /\ cgi' = cgi /\ form' = form /\ dog' = dog /\ sent' = sent
      /\ saves' = saves /\ cuts' = cuts
      /\ \/ auths' = auths
         \/ auths < MaxAuths /\ auths' = auths + 1
  <2>1. CASE Daemon(s) \/ HostUnknown(s)
    <3>1. UNCHANGED <<cgi, form, dog, sent, counts>>
      BY <2>1 DEF Daemon, RespondReads, RespondTruncates, RespondWrites, read_switch, Exit,
                  HostUnknown
    <3>2. UNCHANGED <<cgi, form, dog, sent>> /\ UNCHANGED <<saves, auths, cuts>>
      BY <3>1 DEF counts
    <3> QED
      BY <3>2
  <2>2. CASE AuthResponse(s)
    BY <2>2 DEF AuthResponse
  <2> QED
    BY <2>1, <2>2
<1>2. CountTypes'
  BY <1>1, BoundsAssumption DEF TypeInv, CountTypes
<1> QED
  BY <1>1, <1>2 DEF TypeInv, CgiTypes, DogTypes

\* A page starts processes of its own.
LEMMA PageIsStarter == \A p \in Pages : p \in Starters /\ p # "boot" /\ p # "miner-m"
BY PagesAssumption DEF Starters

\* A step of the CGI keeps the types.
LEMMA CgiStepTypes ==
  ASSUME TypeInv, NEW p \in Pages, Cgi(p) \/ \E f \in Forms : Save(p, f)
  PROVE  TypeInv'
<1>a. DaemonTypes /\ Keyed(file) /\ CgiTypes /\ DogTypes /\ CountTypes
  BY DEF TypeInv
<1>b. form[p] \in Pairs
  BY <1>a, FormsAssumption DEF CgiTypes
<1>1. CASE CgiAppends(p)
  <2>1. \E line \in ConfLines :
          /\ file' = Append(file, line)
          /\ line.key = "api-switch" => line.val \in {"on", "off"}
          /\ line.key = "api-uid" => line.val \in Uids
    <3>1. form[p].sw \in {"on", "off"} /\ form[p].uid \in Uids
      BY <1>b DEF Pairs
    <3>2. \A k, v : Line(k, v).key = k /\ Line(k, v).val = v
      BY DEF Line
    <3>3. Close.key = "}"
      BY DEF Close, Line
    <3>4. PICK line \in {Line("api-switch", form[p].sw), Line("api-uid", form[p].uid), Close} :
            file' = Append(file, line)
      BY <1>1 DEF CgiAppends
    <3>5. CASE line = Line("api-switch", form[p].sw)
      BY <3>1, <3>2, <3>4, <3>5, LineTypes
    <3>6. CASE line = Line("api-uid", form[p].uid)
      BY <3>1, <3>2, <3>4, <3>6, LineTypes
    <3>7. CASE line = Close
      BY <3>3, <3>4, <3>7, LineTypes
    <3> QED
      BY <3>4, <3>5, <3>6, <3>7
  <2>2. Keyed(file')
    BY <1>a, <2>1, KeyedAppend
  <2> QED
    BY <1>a, <1>1, <2>2
    DEF CgiAppends, TypeInv, DaemonTypes, CgiTypes, DogTypes, CountTypes, daemons, counts
<1>2. CASE CgiKills(p)
  <2>1. DaemonTypes'
    BY <1>2, KillAllTypes DEF CgiKills
  <2> QED
    BY <1>a, <1>2, <2>1 DEF CgiKills, TypeInv, CgiTypes, DogTypes, CountTypes, counts
<1>3. CASE CgiStarts(p)
  <2>1. DaemonTypes'
    BY <1>a, <1>3, StartedTypes, PageIsStarter DEF CgiStarts
  <2> QED
    BY <1>a, <1>3, <2>1 DEF CgiStarts, TypeInv, CgiTypes, DogTypes, CountTypes, counts
<1>4. CASE \E f \in Forms : Save(p, f)
  <2>1. PICK f \in Forms : Save(p, f)
    BY <1>4
  <2>2. Keyed(file') /\ DaemonTypes' /\ DogTypes'
    BY <1>a, <2>1, KeyedOpen DEF Save, DaemonTypes, DogTypes, daemons
  <2>3. CgiTypes'
    BY <1>a, <2>1 DEF Save, CgiTypes
  <2>4. CountTypes'
    BY <1>a, <2>1, BoundsAssumption DEF Save, CountTypes
  <2> QED
    BY <2>2, <2>3, <2>4 DEF TypeInv
<1> QED
  BY <1>1, <1>2, <1>3, <1>4 DEF Cgi

\* The watchdog can count the processes.
LEMMA StartersFinite == IsFiniteSet(Starters) /\ Cardinality(Starters) \in Nat
<1>1. IsFiniteSet({"boot"}) /\ IsFiniteSet({"boot"} \cup {"miner-m"})
  BY FS_Singleton, FS_AddElement
<1>2. {"boot"} \cup {"miner-m"} = {"boot", "miner-m"}
  OBVIOUS
<1>3. IsFiniteSet(Starters)
  BY <1>1, <1>2, PagesAssumption, FS_Union DEF Starters
<1> QED
  BY <1>3, FS_CardinalityType

\* A step of the watchdog keeps the types.
LEMMA DogStepTypes ==
  ASSUME TypeInv, Dog
  PROVE  TypeInv'
<1>a. DaemonTypes /\ Keyed(file) /\ CgiTypes /\ DogTypes /\ CountTypes
  BY DEF TypeInv
<1>b. /\ file' = file /\ cgi' = cgi /\ form' = form /\ sent' = sent
      /\ saves' = saves /\ auths' = auths /\ cuts' = cuts
  BY DEF Dog, DogCounts, DogGreps, DogActs, DogStarts, counts
<1>c. DogSleeps => DogTypes'
  BY StartersFinite DEF DogSleeps, DogTypes
<1>d. DaemonTypes' /\ DogTypes' => TypeInv'
  BY <1>a, <1>b DEF TypeInv, CgiTypes, CountTypes
<1>1. CASE DogCounts
  <2>1. Count \in 0 .. Cardinality(Starters)
    <3>1. {s \in Starters : Alive(s)} \in SUBSET Starters
      OBVIOUS
    <3> QED
      BY <3>1, StartersFinite, FS_Subset, FS_CardinalityType DEF Count
  <2>2. DogTypes'
    BY <1>a, <1>1, <2>1 DEF DogCounts, DogTypes
  <2>3. DaemonTypes'
    BY <1>a, <1>1 DEF DogCounts, DaemonTypes, daemons
  <2> QED
    BY <1>d, <2>2, <2>3
<1>2. CASE DogGreps
  <2> DEFINE n == Cardinality({l \in DOMAIN file : file[l].val = "on"})
  <2>1. n \in Nat
    <3>1. DOMAIN file = 1 .. Len(file) /\ 1 \in Int /\ Len(file) \in Int
      BY <1>a DEF Keyed
    <3>3. IsFiniteSet(1 .. Len(file))
      BY <3>1, FS_Interval
    <3>2. {l \in DOMAIN file : file[l].val = "on"} \in SUBSET (1 .. Len(file))
      BY <3>1
    <3> QED
      BY <3>3, <3>2, FS_Subset, FS_CardinalityType
  <2>2. dog' = [dog EXCEPT !.pc = "act", !.OFF_ON_NUM = Min({2, n})]
    BY <1>2 DEF DogGreps
  <2> HIDE DEF n
  <2>3. Min({2, n}) \in {2, n} /\ Min({2, n}) <= 2
    <3>1. {2, n} \in SUBSET Nat /\ {2, n} # {} /\ 2 \in {2, n}
      BY <2>1
    <3> QED
      BY <3>1, MinExists
  <2>4. Min({2, n}) \in 0 .. 2
    BY <2>1, <2>3
  <2>5. DogTypes'
    BY <1>a, <2>2, <2>4 DEF DogTypes
  <2>6. DaemonTypes'
    BY <1>a, <1>2 DEF DogGreps, DaemonTypes, daemons
  <2> QED
    BY <1>d, <2>5, <2>6
<1>3. CASE \E c \in BOOLEAN : DogActs(c)
  <2>1. \/ KillAll /\ dog' = [dog EXCEPT !.pc = "start"]
        \/ UNCHANGED daemons /\ DogSleeps
    BY <1>3 DEF DogActs
  <2>2. CASE KillAll /\ dog' = [dog EXCEPT !.pc = "start"]
    BY <1>a, <1>d, <2>2, KillAllTypes DEF DogTypes
  <2>3. CASE UNCHANGED daemons /\ DogSleeps
    BY <1>a, <1>c, <1>d, <2>3 DEF DaemonTypes, daemons
  <2> QED
    BY <2>1, <2>2, <2>3
<1>4. CASE DogStarts
  <2>1. "miner-m" \in Starters
    BY DEF Starters
  <2> QED
    BY <1>a, <1>c, <1>d, <1>4, <2>1, StartedTypes DEF DogStarts
<1> QED
  BY <1>1, <1>2, <1>3, <1>4 DEF Dog

\* What the boot script leaves: at the start and after each power cut.
LEMMA BootTypes ==
  ASSUME NEW m, NEW t, NEW w, NEW h,
         m = [s \in Starters |-> IF s = "boot" THEN "read" ELSE "dead"],
         t = [s \in Starters |-> FALSE], w = [s \in Starters |-> FALSE],
         h = [s \in Starters |-> Factory]
  PROVE  /\ m \in [Starters -> {"dead", "read", "truncate", "write", "run"}]
         /\ t \in [Starters -> BOOLEAN] /\ w \in [Starters -> BOOLEAN]
         /\ h \in [Starters -> Pairs]
BY FactoryIsPair, BoolTypes

\* So does a power cut.
LEMMA PowerCutTypes == TypeInv /\ PowerCut => TypeInv'
<1> SUFFICES ASSUME TypeInv, PowerCut PROVE TypeInv'
  OBVIOUS
<1>1. DaemonTypes'
  BY BootTypes DEF PowerCut, DaemonTypes
<1>2. CgiTypes'
  BY DEF PowerCut, TypeInv, CgiTypes
<1>3. DogTypes'
  BY StartersFinite DEF PowerCut, DogSleeps, DogTypes
<1>4. CountTypes'
  BY BoundsAssumption DEF PowerCut, TypeInv, CountTypes
<1> QED
  BY <1>1, <1>2, <1>3, <1>4 DEF PowerCut, TypeInv

\* The types hold at the start.
LEMMA TypeInvInit == Init => TypeInv
<1> SUFFICES ASSUME Init PROVE TypeInv
  OBVIOUS
<1>1. Keyed(file)
  BY FactoryIsPair, LinesOfPair DEF Init
<1>2. DaemonTypes
  BY BootTypes DEF Init, DaemonTypes
<1>3. CgiTypes
  BY DEF Init, CgiTypes
<1>4. DogTypes
  BY StartersFinite DEF Init, DogTypes
<1>5. CountTypes
  BY BoundsAssumption DEF Init, CountTypes
<1> QED
  BY <1>1, <1>2, <1>3, <1>4, <1>5 DEF TypeInv

\* Every step keeps them.
LEMMA TypeInvStep == TypeInv /\ [Next]_vars => TypeInv'
<1> SUFFICES ASSUME TypeInv, [Next]_vars PROVE TypeInv'
  OBVIOUS
<1>1. CASE UNCHANGED vars
  BY <1>1 DEF TypeInv, DaemonTypes, CgiTypes, DogTypes, CountTypes, vars, daemons, counts
<1>2. ASSUME NEW s \in Starters, Daemon(s) \/ AuthResponse(s) \/ HostUnknown(s)
      PROVE  TypeInv'
  BY <1>2, DaemonStepTypes, DaemonStepOthers DEF TypeInv
<1> QED
  BY <1>1, <1>2, CgiStepTypes, DogStepTypes, PowerCutTypes DEF Next

\* The types of every variable; of the file, that its lines are lines.
THEOREM ConfTypes == Spec => []TypeOK
<1>1. TypeInv => TypeOK
  <2> SUFFICES ASSUME TypeInv PROVE TypeOK
    OBVIOUS
  <2>1. \A l \in DOMAIN file : file[l] \in ConfLines
    BY DEF TypeInv, Keyed
  <2> QED
    BY <2>1 DEF TypeInv, TypeOK, ConfLines, DaemonTypes, CgiTypes, DogTypes, CountTypes
<1> QED
  BY <1>1, TypeInvInit, TypeInvStep, PTL DEF Spec

-----------------------------------------------------------------------------
(* One process for each starter *)

\* No step of a daemon brings a process to life.
LEMMA DeadStaysDead ==
  ASSUME TypeInv, NEW s \in Starters, Daemon(s) \/ AuthResponse(s) \/ HostUnknown(s),
         NEW q \in Starters, ~ Alive(q)
  PROVE  ~ Alive(q)'
<1>1. \/ main' = main
      \/ main' = [main EXCEPT ![s] = "dead"]
      \/ main[s] # "dead" /\ \E at : main' = [main EXCEPT ![s] = at]
  BY DEF Daemon, RespondReads, RespondTruncates, RespondWrites, read_switch, Exit,
         AuthResponse, HostUnknown, Ended
<1> QED
  BY <1>1 DEF TypeInv, DaemonTypes, Alive

\* Nobody is about to start a process at the start.
LEMMA OnePerStarterInit == Init => OnePerStarter
BY DEF Init, OnePerStarter

\* A daemon starts none.
LEMMA OnePerStarterDaemon ==
  ASSUME TypeInv, OnePerStarter,
         NEW s \in Starters, Daemon(s) \/ AuthResponse(s) \/ HostUnknown(s)
  PROVE  OnePerStarter'
<1>1. cgi' = cgi /\ dog' = dog
  BY DEF Daemon, RespondReads, RespondTruncates, RespondWrites, read_switch, Exit,
         AuthResponse, HostUnknown
<1>2. \A q \in Starters : ~ Alive(q) => ~ Alive(q)'
  BY DeadStaysDead
<1> QED
  BY <1>1, <1>2 DEF OnePerStarter, Starters

\* The CGI has killed all before it starts one.
LEMMA OnePerStarterCgi ==
  ASSUME TypeInv, OnePerStarter, NEW p \in Pages, Cgi(p) \/ \E f \in Forms : Save(p, f)
  PROVE  OnePerStarter'
<1>a. /\ cgi \in [Pages -> {"idle", "sw", "uid", "rest", "kill", "start"}]
      /\ main \in [Starters -> {"dead", "read", "truncate", "write", "run"}]
  BY DEF TypeInv, CgiTypes, DaemonTypes
<1>b. dog' = dog
  BY DEF Cgi, CgiAppends, CgiKills, CgiStarts, Save
<1>1. CASE CgiKills(p)
  <2>1. \A q \in Starters : main'[q] = "dead"
    BY <1>1 DEF CgiKills, KillAll
  <2> QED
    BY <2>1 DEF OnePerStarter, Alive, Starters
<1>2. CASE CgiStarts(p)
  <2>1. /\ main' = [main EXCEPT ![p] = "read"]
        /\ cgi' = [cgi EXCEPT ![p] = "idle"]
    BY <1>2 DEF CgiStarts, Started
  <2>2. cgi'[p] = "idle" /\ \A q \in Pages \ {p} : cgi'[q] = cgi[q] /\ main'[q] = main[q]
    BY <1>a, <2>1, PageIsStarter
  <2>3. main'["miner-m"] = main["miner-m"]
    BY <1>a, <2>1, PageIsStarter DEF Starters
  <2> QED
    BY <1>b, <2>2, <2>3 DEF OnePerStarter, Alive
<1>3. CASE CgiAppends(p) \/ \E f \in Forms : Save(p, f)
  <2>1. main' = main /\ \E at \in {"sw", "uid", "rest", "kill"} : cgi' = [cgi EXCEPT ![p] = at]
    BY <1>3 DEF CgiAppends, Save, daemons
  <2>2. \A q \in Pages : cgi'[q] = "start" => cgi[q] = "start"
    BY <1>a, <2>1
  <2> QED
    BY <1>b, <2>1, <2>2 DEF OnePerStarter, Alive
<1> QED
  BY <1>1, <1>2, <1>3 DEF Cgi

\* The watchdog comes to start one only when none of its own is left.
LEMMA OnePerStarterDog == TypeInv /\ OnePerStarter /\ Dog => OnePerStarter'
<1> SUFFICES ASSUME TypeInv, OnePerStarter, Dog PROVE OnePerStarter'
  OBVIOUS
<1>a. cgi' = cgi
  BY DEF Dog, DogCounts, DogGreps, DogActs, DogStarts
<1>1. CASE KillAll
  <2>1. \A q \in Starters : main'[q] = "dead"
    BY <1>1 DEF KillAll
  <2> QED
    BY <2>1 DEF OnePerStarter, Alive, Starters
<1>2. CASE UNCHANGED daemons /\ dog'.pc # "start"
  BY <1>a, <1>2 DEF OnePerStarter, Alive, daemons
<1>3. CASE DogStarts
  <2>1. dog'.pc = "pidof" /\ main' = [main EXCEPT !["miner-m"] = "read"]
    BY <1>3 DEF DogStarts, DogSleeps, Started
  <2>2. \A p \in Pages : main'[p] = main[p]
    BY <2>1, PageIsStarter DEF TypeInv, DaemonTypes
  <2> QED
    BY <1>a, <2>1, <2>2 DEF OnePerStarter, Alive
<1>4. KillAll \/ (UNCHANGED daemons /\ dog'.pc # "start") \/ DogStarts
  <2>1. DogCounts \/ DogGreps => UNCHANGED daemons /\ dog'.pc # "start"
    BY DEF DogCounts, DogGreps, TypeInv, DogTypes
  <2>2. DogSleeps => dog'.pc # "start"
    BY DEF DogSleeps
  <2>3. (\E c \in BOOLEAN : DogActs(c)) => KillAll \/ (UNCHANGED daemons /\ dog'.pc # "start")
    BY <2>2 DEF DogActs
  <2> QED
    BY <2>1, <2>3 DEF Dog
<1> QED
  BY <1>1, <1>2, <1>3, <1>4

\* No step lets a starter be about to start beside a process of its own.
LEMMA OnePerStarterStep == TypeInv /\ OnePerStarter /\ [Next]_vars => OnePerStarter'
<1> SUFFICES ASSUME TypeInv, OnePerStarter, [Next]_vars PROVE OnePerStarter'
  OBVIOUS
<1>1. CASE UNCHANGED vars
  BY <1>1 DEF OnePerStarter, Alive, vars, daemons
<1>2. CASE PowerCut
  BY <1>2 DEF PowerCut, DogSleeps, OnePerStarter
<1> QED
  BY <1>1, <1>2, OnePerStarterDaemon, OnePerStarterCgi, OnePerStarterDog DEF Next

\* No starter starts a process beside one of its own, however many pages kill and
\* start while the watchdog does.
THEOREM StartersKeepToOne == Spec => []OnePerStarter
<1>1. Init => TypeInv /\ OnePerStarter
  BY TypeInvInit, OnePerStarterInit
<1>2. (TypeInv /\ OnePerStarter) /\ [Next]_vars => (TypeInv /\ OnePerStarter)'
  BY TypeInvStep, OnePerStarterStep
<1> QED
  BY <1>1, <1>2, PTL DEF Spec

-----------------------------------------------------------------------------
(* One form in the file *)

\* The file has the first n lines of a form and no more.
Prefix(f, n) == Len(file) = n /\ \A l \in 1 .. n : file[l] = Lines(f)[l]

\* It begins with all the lines of a form; what comes after them is not read.
Begins(f) == Len(file) >= 4 /\ \A l \in 1 .. 4 : file[l] = Lines(f)[l]

\* What may be in the file while p is the only page.  Of these only a file that
\* begins with all the lines of a form is whole.
Shape(p) ==
  \/ file = <<>>
  \/ file # <<>> /\ file[1] # Open
  \/ \E f \in sent : Begins(f)
  \/ cgi[p] = "sw" /\ Prefix(form[p], 1)
  \/ cgi[p] = "uid" /\ Prefix(form[p], 2)
  \/ cgi[p] = "rest" /\ Prefix(form[p], 3)
  \/ cgi[p] \in {"idle", "kill", "start"} /\ Ends(file) = {}

\* Every form at hand was sent: the page's, and the one a process holds.
SentInv ==
  /\ Factory \in sent
  /\ \A p \in Pages : form[p] \in sent
  /\ \A s \in Starters : held[s] \in sent

PairInv == TypeInv /\ (Cardinality(Pages) = 1 => SentInv /\ \A p \in Pages : Shape(p))

\* The lines of a form but the last do not end the object, and have one switch
\* and one uid.
LEMMA LinesDiffer ==
  ASSUME NEW f \in Pairs
  PROVE  /\ \A l \in 1 .. 3 : Lines(f)[l] # Close
         /\ Lines(f)[1].key \notin {"api-switch", "api-uid"}
         /\ Lines(f)[2].key = "api-switch" /\ Lines(f)[2].val = f.sw
         /\ Lines(f)[3].key = "api-uid" /\ Lines(f)[3].val = f.uid
<1>1. /\ Line("api-switch", f.sw).key = "api-switch" /\ Line("api-switch", f.sw).val = f.sw
      /\ Line("api-uid", f.uid).key = "api-uid" /\ Line("api-uid", f.uid).val = f.uid
      /\ Open.key = "{" /\ Close.key = "}"
  BY DEF Line, Open, Close
<1>2. Open # Close /\ Line("api-switch", f.sw) # Close /\ Line("api-uid", f.uid) # Close
  BY <1>1
<1>3. \A l \in 1 .. 3 : l = 1 \/ l = 2 \/ l = 3
  OBVIOUS
<1> QED
  BY <1>1, <1>2, <1>3, LinesOfPair

\* A file that is begun has no last line yet.
LEMMA PrefixHasNoEnd ==
  ASSUME Keyed(file), NEW f \in Pairs, NEW n \in 1 .. 3, Prefix(f, n)
  PROVE  Ends(file) = {}
<1>1. DOMAIN file = 1 .. n
  BY DEF Keyed, Prefix
<1>2. \A l \in 1 .. n : file[l] # Close
  BY LinesDiffer DEF Prefix
<1> QED
  BY <1>1, <1>2 DEF Ends

\* Of a file that begins with a form's lines that form is read.
LEMMA BeginsContents ==
  ASSUME Keyed(file), NEW f \in Pairs, Begins(f)
  PROVE  Contents(file) = f
<1>1. DOMAIN file = 1 .. Len(file) /\ Len(file) \in Nat /\ Len(file) >= 4
  BY DEF Keyed, Begins
<1>2. /\ file[1] = Lines(f)[1] /\ file[2] = Lines(f)[2]
      /\ file[3] = Lines(f)[3] /\ file[4] = Close
  BY LinesOfPair DEF Begins
<1>3. Min(Ends(file)) = 4
  <2>1. Ends(file) \in SUBSET Nat /\ 4 \in Ends(file)
    BY <1>1, <1>2 DEF Ends
  <2>2. \A l \in Ends(file) : 4 <= l
    <3> SUFFICES ASSUME NEW l \in 1 .. Len(file), file[l] = Close, ~ (4 <= l)
                 PROVE  FALSE
      BY <1>1 DEF Ends
    <3>1. l = 1 \/ l = 2 \/ l = 3
      BY <1>1
    <3>2. \A k \in 1 .. 3 : Lines(f)[k] # Close
      BY LinesDiffer
    <3> QED
      BY <1>2, <3>1, <3>2
  <2> QED
    BY <2>1, <2>2, MinIs
<1>4. \A l \in DOMAIN file : l < 4 <=> l \in {1, 2, 3}
  BY <1>1
<1>5. Keys(file, "api-switch") = {2} /\ Keys(file, "api-uid") = {3}
  <2>1. /\ file[1].key \notin {"api-switch", "api-uid"}
        /\ file[2].key = "api-switch" /\ file[3].key = "api-uid"
    BY <1>2, LinesDiffer
  <2>2. {2, 3} \subseteq DOMAIN file
    BY <1>1
  <2>3. \A k : Keys(file, k) = {l \in DOMAIN file : file[l].key = k /\ l \in {1, 2, 3}}
    BY <1>3, <1>4 DEF Keys
  <2> QED
    BY <2>1, <2>2, <2>3
<1>6. Min({2}) = 2 /\ Min({3}) = 3
  <2>1. {2} \in SUBSET Nat /\ {3} \in SUBSET Nat /\ 2 <= 2 /\ 3 <= 3
    OBVIOUS
  <2> QED
    BY <2>1, MinIs
<1>7. Value(file, "api-switch") = f.sw /\ Value(file, "api-uid") = f.uid
  <2>1. file[2].val = f.sw /\ file[3].val = f.uid
    BY <1>2, LinesDiffer
  <2> QED
    BY <1>5, <1>6, <2>1 DEF Value
<1>8. f = [sw |-> f.sw, uid |-> f.uid]
  BY DEF Pairs
<1> QED
  BY <1>7, <1>8 DEF Contents

\* What is read from a whole file was sent.
LEMMA ReadWasSent ==
  ASSUME TypeInv, SentInv, NEW p \in Pages, Shape(p), Whole(file)
  PROVE  Contents(file) \in sent
<1>1. form[p] \in Pairs /\ sent \subseteq Pairs /\ Keyed(file)
  BY FormsAssumption DEF TypeInv, CgiTypes
<1>2. Ends(file) # {} /\ file # <<>> /\ file[1] = Open
  BY DEF Whole
<1>3. ~ Prefix(form[p], 1) /\ ~ Prefix(form[p], 2) /\ ~ Prefix(form[p], 3)
  BY <1>1, <1>2, PrefixHasNoEnd
<1>4. PICK f \in sent : Begins(f)
  BY <1>2, <1>3 DEF Shape
<1> QED
  BY <1>1, <1>4, BeginsContents

-----------------------------------------------------------------------------
\* A step of a daemon: what it leaves in the file and what it holds.
LEMMA PairDaemon ==
  ASSUME TypeInv, SentInv, NEW p \in Pages, Shape(p),
         NEW s \in Starters, Daemon(s) \/ AuthResponse(s) \/ HostUnknown(s)
  PROVE  SentInv' /\ Shape(p)'
<1>a. held \in [Starters -> Pairs] /\ sent \subseteq Pairs
  BY FormsAssumption DEF TypeInv, DaemonTypes, CgiTypes
<1>c. Keyed(file)
  BY DEF TypeInv
<1>b. cgi' = cgi /\ form' = form /\ sent' = sent
  BY DEF Daemon, RespondReads, RespondTruncates, RespondWrites, read_switch, Exit,
         AuthResponse, HostUnknown
<1>1. /\ file' \in {file, <<>>, Over(Lines(held[s]))}
      /\ \/ held' = held
         \/ held' = [held EXCEPT ![s] = Factory]
         \/ Whole(file) /\ held' = [held EXCEPT ![s] = Contents(file)]
  BY DEF Daemon, RespondReads, RespondTruncates, RespondWrites, read_switch, Exit,
         AuthResponse, HostUnknown, Ended
<1>2. Whole(file) => Contents(file) \in sent
  BY ReadWasSent
<1>3. SentInv'
  BY <1>a, <1>b, <1>1, <1>2 DEF SentInv
<1>4. CASE file' = file
  BY <1>3, <1>b, <1>4 DEF Shape, Prefix, Begins, Ends
<1>5. CASE file' = <<>>
  BY <1>3, <1>5 DEF Shape
<1>6. CASE file' = Over(Lines(held[s]))
  <2>1. held[s] \in sent' /\ held[s] \in Pairs
    BY <1>a, <1>b DEF SentInv
  <2>2. Len(file') >= 4 /\ \A l \in 1 .. 4 : file'[l] = Lines(held[s])[l]
    BY <1>6, <1>c, <2>1, LinesOver
  <2>3. \E f \in sent' : Len(file') >= 4 /\ \A l \in 1 .. 4 : file'[l] = Lines(f)[l]
    BY <2>1, <2>2
  <2> QED
    BY <1>3, <2>3 DEF Shape, Begins, Lines, Line, Open, Close
<1> QED
  BY <1>1, <1>3, <1>4, <1>5, <1>6

\* A line more: a prefix grows by its next line, and no other file becomes whole.
LEMMA PairAppends ==
  ASSUME TypeInv, SentInv, NEW p \in Pages, Shape(p), CgiAppends(p)
  PROVE  SentInv' /\ Shape(p)'
<1>a. /\ form[p] \in Pairs /\ form[p] \in sent
      /\ cgi \in [Pages -> {"idle", "sw", "uid", "rest", "kill", "start"}]
      /\ file \in Seq(ConfLines) /\ Len(file) \in Nat
  BY FormsAssumption DEF TypeInv, CgiTypes, Keyed, SentInv
<1>b. form' = form /\ sent' = sent /\ held' = held
  BY DEF CgiAppends, daemons
<1>1. SentInv'
  BY <1>b DEF SentInv
<1>2. PICK n \in 1 .. 3 :
        /\ file' = Append(file, Lines(form[p])[n + 1])
        /\ cgi[p] = <<"sw", "uid", "rest">>[n]
        /\ cgi'[p] = <<"uid", "rest", "kill">>[n]
  <2>1. CASE cgi[p] = "sw"
    BY <1>a, <2>1, LinesOfPair DEF CgiAppends
  <2>2. CASE cgi[p] = "uid"
    BY <1>a, <2>2, LinesOfPair DEF CgiAppends
  <2>3. CASE cgi[p] = "rest"
    BY <1>a, <2>3, LinesOfPair DEF CgiAppends
  <2> QED
    BY <2>1, <2>2, <2>3 DEF CgiAppends
<1> DEFINE line == Lines(form[p])[n + 1]
<1>3. line \in ConfLines /\ line # Open
  <2>1. n + 1 = 2 \/ n + 1 = 3 \/ n + 1 = 4
    OBVIOUS
  <2>2. /\ Lines(form[p])[2] # Open /\ Lines(form[p])[3] # Open /\ Lines(form[p])[4] # Open
    <3>1. Open.key = "{" /\ Close.key = "}"
      BY DEF Open, Close, Line
    <3> QED
      BY <1>a, <3>1, LinesDiffer, LinesOfPair
  <2>3. /\ Lines(form[p])[2] \in ConfLines /\ Lines(form[p])[3] \in ConfLines
        /\ Lines(form[p])[4] \in ConfLines
    BY <1>a, LinesOfPair
  <2> QED
    BY <2>1, <2>2, <2>3
<1>4. /\ Len(file') = Len(file) + 1 /\ file'[Len(file) + 1] = line /\ file' # <<>>
      /\ \A l \in 1 .. Len(file) : file'[l] = file[l]
  <2>1. file' = Append(file, line)
    BY <1>2
  <2> HIDE DEF line
  <2> QED
    BY <1>a, <1>3, <2>1
<1> HIDE DEF line
<1>5. CASE file = <<>>
  BY <1>1, <1>3, <1>4, <1>5 DEF Shape
<1>6. CASE file # <<>> /\ file[1] # Open
  <2>1. 1 \in 1 .. Len(file)
    BY <1>a, <1>6
  <2> QED
    BY <1>1, <1>4, <1>6, <2>1 DEF Shape, Open, Line
<1>7. CASE \E f \in sent : Begins(f)
  <2>1. PICK f \in sent : Begins(f)
    BY <1>7
  <2>2. Len(file') >= 4 /\ \A l \in 1 .. 4 : file'[l] = Lines(f)[l]
    BY <1>a, <1>4, <2>1 DEF Begins
  <2>3. \E g \in sent' : Len(file') >= 4 /\ \A l \in 1 .. 4 : file'[l] = Lines(g)[l]
    BY <1>b, <2>2
  <2> QED
    BY <1>1, <2>3 DEF Shape, Begins, Lines, Line, Open, Close
<1>8. CASE Prefix(form[p], n)
  <2>1. Len(file') = n + 1 /\ \A l \in 1 .. n + 1 : file'[l] = Lines(form[p])[l]
    <3>1. Len(file) = n /\ \A l \in 1 .. n : file[l] = Lines(form[p])[l]
      BY <1>8 DEF Prefix
    <3>2. file'[n + 1] = Lines(form[p])[n + 1]
      BY <1>4, <3>1 DEF line
    <3>3. \A l \in 1 .. n + 1 : l \in 1 .. n \/ l = n + 1
      OBVIOUS
    <3> QED
      BY <1>4, <3>1, <3>2, <3>3
  <2>2. Prefix(form[p], n + 1)'
    BY <1>b, <2>1 DEF Prefix, Lines, Line, Open, Close
  <2>3. CASE n = 3
    <3>1. \E g \in sent' : Len(file') >= 4 /\ \A l \in 1 .. 4 : file'[l] = Lines(g)[l]
      BY <1>a, <1>b, <2>1, <2>3
    <3> QED
      BY <1>1, <3>1 DEF Shape, Begins, Lines, Line, Open, Close
  <2>4. CASE n = 2
    BY <1>1, <1>2, <2>2, <2>4 DEF Shape
  <2>5. CASE n = 1
    BY <1>1, <1>2, <2>2, <2>5 DEF Shape
  <2> QED
    BY <2>3, <2>4, <2>5
<1>9. Prefix(form[p], n) \/ file = <<>> \/ (file # <<>> /\ file[1] # Open) \/ \E f \in sent : Begins(f)
  <2>1. CASE n = 1
    BY <1>2, <2>1 DEF Shape
  <2>2. CASE n = 2
    BY <1>2, <2>2 DEF Shape
  <2>3. CASE n = 3
    BY <1>2, <2>3 DEF Shape
  <2> QED
    BY <2>1, <2>2, <2>3
<1> QED
  BY <1>1, <1>5, <1>6, <1>7, <1>8, <1>9

\* The CGI appends to its own beginning, or the file has begun with a whole form.
LEMMA PairCgi ==
  ASSUME TypeInv, SentInv, NEW p \in Pages, Shape(p),
         Cgi(p) \/ \E f \in Forms : Save(p, f)
  PROVE  SentInv' /\ Shape(p)'
<1>a. /\ cgi \in [Pages -> {"idle", "sw", "uid", "rest", "kill", "start"}]
      /\ form \in [Pages -> Forms \cup {Factory}]
  BY DEF TypeInv, CgiTypes
<1>1. CASE CgiKills(p) \/ CgiStarts(p)
  <2>1. /\ file' = file /\ form' = form /\ sent' = sent
        /\ cgi[p] \in {"kill", "start"} /\ cgi'[p] \in {"start", "idle"}
    BY <1>a, <1>1 DEF CgiKills, CgiStarts
  <2>2. held' = held \/ held' = [s \in Starters |-> Factory]
    BY <1>1 DEF CgiKills, CgiStarts, KillAll, Started
  <2>3. SentInv'
    BY <2>1, <2>2 DEF SentInv
  <2>4. Shape(p)'
    BY <2>1 DEF Shape, Begins, Ends
  <2> QED
    BY <2>3, <2>4
<1>2. CASE \E f \in Forms : Save(p, f)
  <2>1. PICK f \in Forms : Save(p, f)
    BY <1>2
  <2>2. /\ file' = <<Open>> /\ cgi'[p] = "sw" /\ held' = held /\ sent' = sent \cup {f}
        /\ form' = [form EXCEPT ![p] = f] /\ form'[p] = f /\ f \in Pairs
    BY <1>a, <2>1, FactoryIsPair DEF Save, daemons
  <2>3. SentInv'
    BY <1>a, <2>2 DEF SentInv
  <2>4. Len(file') = 1 /\ \A l \in 1 .. 1 : file'[l] = Lines(f)[l]
    <3>1. \A l \in 1 .. 1 : l = 1
      OBVIOUS
    <3>2. Len(file') = 1 /\ file'[1] = Open
      BY <2>2, LineTypes
    <3> QED
      BY <2>2, <3>1, <3>2, LinesOfPair
  <2>5. Prefix(form[p], 1)'
    BY <2>2, <2>4 DEF Prefix, Lines, Line, Open, Close
  <2> QED
    BY <2>2, <2>3, <2>5 DEF Shape
<1> QED
  BY <1>1, <1>2, PairAppends DEF Cgi

\* The watchdog does not write the file.
LEMMA PairDog ==
  ASSUME SentInv, NEW p \in Pages, Shape(p), Dog
  PROVE  SentInv' /\ Shape(p)'
<1>1. file' = file /\ cgi' = cgi /\ form' = form /\ sent' = sent
  BY DEF Dog, DogCounts, DogGreps, DogActs, DogStarts
<1>2. held' = held \/ held' = [s \in Starters |-> Factory]
  BY DEF Dog, DogCounts, DogGreps, DogActs, DogStarts, KillAll, Started, daemons
<1> QED
  BY <1>1, <1>2 DEF SentInv, Shape, Prefix, Begins, Ends

\* The power goes while the page writes: what it has written ends nowhere.
LEMMA PairPowerCut ==
  ASSUME TypeInv, SentInv, NEW p \in Pages, Shape(p), PowerCut
  PROVE  SentInv' /\ Shape(p)'
<1>1. /\ file' = file /\ sent' = sent /\ cgi'[p] = "idle"
      /\ form' = [q \in Pages |-> Factory] /\ held' = [s \in Starters |-> Factory]
  BY DEF PowerCut
<1>2. SentInv'
  BY <1>1 DEF SentInv
<1>3. form[p] \in Pairs /\ Keyed(file)
  BY FormsAssumption DEF TypeInv, CgiTypes
<1>4. Prefix(form[p], 1) \/ Prefix(form[p], 2) \/ Prefix(form[p], 3) => Ends(file) = {}
  BY <1>3, PrefixHasNoEnd
<1>5. Shape(p)'
  BY <1>1, <1>4 DEF Shape, Begins, Ends
<1> QED
  BY <1>2, <1>5

\* The invariant holds at the start.
LEMMA PairInvInit == Init => PairInv
<1> SUFFICES ASSUME Init PROVE PairInv
  OBVIOUS
<1>1. SentInv
  BY DEF Init, SentInv
<1>2. Begins(Factory)
  BY FactoryIsPair, LinesOfPair DEF Init, Begins
<1>3. \A p \in Pages : Shape(p)
  BY <1>1, <1>2 DEF SentInv, Shape
<1> QED
  BY <1>1, <1>3, TypeInvInit DEF PairInv

\* Every step keeps it.
LEMMA PairInvStep == PairInv /\ [Next]_vars => PairInv'
<1> SUFFICES ASSUME PairInv, [Next]_vars PROVE PairInv'
  OBVIOUS
<1>1. TypeInv /\ TypeInv'
  BY TypeInvStep DEF PairInv
<1>2. ASSUME Cardinality(Pages) = 1
      PROVE  SentInv' /\ \A p \in Pages : Shape(p)'
  <2>1. PICK p : Pages = {p}
    BY <1>2, PagesAssumption, FS_Singleton
  <2>2. p \in Pages /\ SentInv /\ Shape(p)
    BY <1>2, <2>1 DEF PairInv
  <2>3. CASE UNCHANGED vars
    BY <2>1, <2>2, <2>3 DEF SentInv, Shape, Prefix, Begins, Ends, vars, daemons
  <2>4. CASE Next
    <3>1. SentInv' /\ Shape(p)'
      BY <1>1, <2>1, <2>2, <2>4, PairDaemon, PairCgi, PairDog, PairPowerCut DEF Next
    <3> QED
      BY <2>1, <3>1
  <2> QED
    BY <2>3, <2>4
<1> QED
  BY <1>1, <1>2 DEF PairInv

\* With one browser the switch and the uid that are read were sent in one form:
\* no writing back, no death and no power cut mixes two.
THEOREM FormsDoNotMix == Spec => []PairsTogether
<1>1. PairInv => PairsTogether
  <2> SUFFICES ASSUME PairInv, Whole(file), Cardinality(Pages) = 1
               PROVE  Contents(file) \in sent
    BY DEF PairsTogether
  <2>1. PICK p : Pages = {p}
    BY PagesAssumption, FS_Singleton
  <2> QED
    BY <2>1, ReadWasSent DEF PairInv
<1> QED
  BY <1>1, PairInvInit, PairInvStep, PTL DEF Spec
=============================================================================

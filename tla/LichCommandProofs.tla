--------------------------- MODULE LichCommandProofs ----------------------------
(***************************************************************************)
(* Proofs about list_sessions, for every directory, every set of names and *)
(* entries, and every host: the list is complete and its names lead back   *)
(* to the files they were read from.  And about parse_args, for command    *)
(* lines of every length: it finds what the line means.                    *)
(***************************************************************************)
EXTENDS LichCommand, LichSequenceLemmas

(* Before the directory is open nothing is printed or connected to. *)
Unopened == stage \notin {"list", "listed"} => printed = {} /\ at = NoFile

(* A line is printed, and a connection made, only for a file of this host   *)
(* in the directory that socket_path uses.                                  *)
Shown == \A f \in printed \cup ({at} \ {NoFile}) : f \in Here /\ OfHost(f)

(* The sessions that last are live files of the directory. *)
LastingLive ==
    stage = "list" => /\ dir \in [Files -> {"absent", "orphan", "live"}]
                      /\ lasting \subseteq {f \in Here : dir[f] = "live"}
                      /\ left \subseteq Here

(* A session of this host that lasts is printed, being asked, or still to   *)
(* come out of read_dir.                                                    *)
Accounted ==
    /\ stage = "list" => \A f \in lasting : OfHost(f) => f \in left \cup {at} \cup printed
    /\ stage = "listed" => \A f \in lasting : OfHost(f) => f \in printed

ListInv == Unopened /\ Shown /\ LastingLive /\ Accounted

-------------------------------------------------------------------------------
(* Files and their names. *)

(* All that a path is made of. *)
Parts == STRING \cup {Host} \cup {Candidates[i] : i \in DOMAIN Candidates}

(* Sequences of strings are sequences of parts. *)
LEMMA NameParts ==
    ASSUME NEW n \in Names \cup Entries
    PROVE  n \in Seq(Parts) /\ n # <<>>
<1>1. n \in Seq(STRING) /\ n # <<>>
  BY CommandAssumption
<1> QED
  BY <1>1 DEF Parts

(* A file is a candidate directory and the parts of its name. *)
LEMMA FileParts ==
    ASSUME NEW f \in Files
    PROVE  /\ f \in Seq(Parts)
           /\ Len(f) >= 2
           /\ f # NoFile
           /\ Tail(f) \in Entries
<1>1. PICK i \in DOMAIN Candidates, e \in Entries : f = <<Candidates[i]>> \o e
  BY DEF Files
<1>2. e \in Seq(Parts) /\ e # <<>>
  BY NameParts
<1>3. Candidates[i] \in Parts
  BY DEF Parts
<1>4. f \in Seq(Parts) /\ Len(f) >= 2
  BY <1>1, <1>2, <1>3
<1>5. Tail(<<Candidates[i]>> \o e) = e
  BY <1>2, <1>3
<1>6. f # NoFile
  BY <1>4 DEF NoFile
<1> QED
  BY <1>1, <1>4, <1>5, <1>6

(* socket_path leads to a file of this host. *)
LEMMA PathOfHost ==
    ASSUME NEW n \in Names
    PROVE  OfHost(socket_path(n))
<1> DEFINE b == socket_base_dir
<1>1. n \in Seq(STRING) /\ n # <<>>
  BY CommandAssumption
<1>2. PICK T : n \in Seq(T) /\ b \in T /\ Host \in T
  <2>1. n \in Seq(STRING \cup {b, Host})
    BY <1>1
  <2> QED
    BY <2>1
<1>3. Len(n) \in Nat /\ Len(n) >= 1
  BY <1>1
<1> HIDE DEF b
<1>4. <<b>> \o n \in Seq(T) /\ Len(<<b>> \o n) = 1 + Len(n)
  BY <1>2
<1>5. LET p == (<<b>> \o n) \o <<Host>>
      IN  Len(p) = 2 + Len(n) /\ p[Len(p)] = Host
  BY <1>2, <1>3, <1>4
<1> QED
  BY <1>3, <1>5 DEF OfHost, socket_path, b

(* Where trim_end_matches stops: unless the name before the host's ends     *)
(* with "@host" too, exactly one "@host" comes off.                         *)
LEMMA TrimmedOnce ==
    ASSUME NEW f \in Files, OfHost(f), Resolvable(f)
    PROVE  Trimmed(f) = SubSeq(f, 2, Len(f) - 1)
<1>1. Len(f) \in Nat /\ Len(f) > 2 /\ f[Len(f)] = Host
  BY FileParts DEF OfHost
<1> DEFINE Stops(n) == /\ n = 2 \/ f[n] # Host
                       /\ \A i \in (n + 1)..Len(f) : f[i] = Host
<1>2. Len(f) - 1 \in 2..Len(f) /\ Stops(Len(f) - 1)
  <2>1. Len(f) - 1 = 2 \/ f[Len(f) - 1] # Host
    <3>1. Len(f) = 3 \/ f[Len(f) - 1] # Host
      BY DEF Resolvable
    <3>2. CASE Len(f) = 3
      BY <3>2
    <3> QED
      BY <3>1, <3>2
  <2>2. \A i \in ((Len(f) - 1) + 1)..Len(f) : f[i] = Host
    BY <1>1
  <2> QED
    BY <1>1, <2>1, <2>2
<1>3. \A n \in 2..Len(f) : Stops(n) => n = Len(f) - 1
  BY <1>1 DEF Resolvable
<1>4. (CHOOSE n \in 2..Len(f) : Stops(n)) = Len(f) - 1
  <2> HIDE DEF Stops
  <2> QED
    BY <1>2, <1>3
<1> QED
  BY <1>4 DEF Trimmed

(* The name on a line, put through socket_path, is the file again. *)
LEMMA PathOfTrimmed ==
    ASSUME NEW f \in Here, OfHost(f), Resolvable(f)
    PROVE  socket_path(Trimmed(f)) = f
<1>1. f \in Files /\ f[1] = socket_base_dir
  BY FileParts DEF Here
<1>2. f \in Seq(Parts) /\ Len(f) > 2 /\ f[Len(f)] = Host
  BY <1>1, FileParts DEF OfHost
<1>3. Trimmed(f) = SubSeq(f, 2, Len(f) - 1)
  BY <1>1, TrimmedOnce
<1> DEFINE s == SubSeq(f, 2, Len(f) - 1)
<1>4. /\ s \in Seq(Parts)
      /\ Len(s) = Len(f) - 2
      /\ \A i \in 1..(Len(f) - 2) : s[i] = f[i + 1]
  BY <1>2
<1>5. Host \in Parts /\ f[1] \in Parts
  BY <1>2 DEF Parts
<1> HIDE DEF s
<1> DEFINE p == <<f[1]>> \o s
<1>6. /\ p \in Seq(Parts)
      /\ Len(p) = Len(f) - 1
      /\ \A i \in 1..(Len(f) - 1) : p[i] = f[i]
  BY <1>2, <1>4, <1>5
<1> HIDE DEF p
<1>7. p \o <<Host>> = f
  <2> DEFINE q == p \o <<Host>>
  <2>1. /\ q \in Seq(Parts)
        /\ Len(q) = Len(f)
        /\ \A i \in 1..(Len(f) - 1) : q[i] = p[i]
        /\ q[Len(f)] = Host
    <3>1. Len(p) \in Nat /\ Len(f) = Len(p) + 1
      BY <1>2, <1>6
    <3>2. q \in Seq(Parts) /\ Len(q) = Len(p) + 1
      BY <1>5, <1>6
    <3>3. \A i \in 1..Len(p) : q[i] = p[i]
      BY <1>5, <1>6
    <3>4. q[Len(p) + 1] = Host
      BY <1>5, <1>6
    <3> QED
      BY <1>6, <3>1, <3>2, <3>3, <3>4
  <2> HIDE DEF q
  <2>2. \A i \in 1..Len(f) : q[i] = f[i]
    <3>1. \A i \in 1..Len(f) : i \in 1..(Len(f) - 1) \/ i = Len(f)
      BY <1>2
    <3> QED
      BY <1>2, <1>6, <2>1, <3>1
  <2>3. q = f
    BY <1>2, <2>1, <2>2
  <2> QED
    BY <2>3 DEF q
<1> QED
  BY <1>1, <1>3, <1>7 DEF socket_path, s, p

-------------------------------------------------------------------------------
(* The invariant of the list. *)

LEMMA ListInvInit == CommandInit => ListInv
<1> QED
  BY DEF CommandInit, ListInv, Unopened, Shown, LastingLive, Accounted, NoFile

(* Steps that leave the list alone, and do not enter it. *)
LEMMA ListInvElsewhere ==
    ASSUME ListInv, UNCHANGED listVars,
           stage' = stage \/ ({stage, stage'} \cap {"list", "listed"} = {})
    PROVE  ListInv'
<1>1. /\ usable' = usable /\ dir' = dir /\ left' = left /\ at' = at
      /\ printed' = printed /\ lasting' = lasting
  BY DEF listVars
<1>2. Here' = Here
  BY <1>1 DEF Here, socket_base_dir
<1>3. stage' \in {"list", "listed"} \/ stage \in {"list", "listed"} => stage' = stage
  OBVIOUS
<1> QED
  BY <1>1, <1>2, <1>3 DEF ListInv, Unopened, Shown, LastingLive, Accounted

LEMMA ListInvOpen == ListInv /\ OpenDir => ListInv'
<1>. SUFFICES ASSUME ListInv, OpenDir PROVE ListInv'
  OBVIOUS
<1>1. printed = {} /\ at = NoFile /\ printed' = {} /\ at' = NoFile
  BY DEF ListInv, Unopened, OpenDir
<1>2. CASE stage' = "error"
  BY <1>1, <1>2 DEF ListInv, Unopened, Shown, LastingLive, Accounted
<1>3. CASE stage' = "list"
  <2>1. PICK d \in [Entries -> {"absent", "orphan", "live"}] :
               dir' = [f \in Files |-> IF f \in Here' THEN d[Tail(f)] ELSE "live"]
    BY <1>3 DEF OpenDir
  <2>2. left' = Here' /\ lasting' = {f \in Here' : dir'[f] = "live"}
    BY <1>3 DEF OpenDir
  <2>3. \A f \in Files : Tail(f) \in Entries
    BY FileParts
  <2>4. dir' \in [Files -> {"absent", "orphan", "live"}]
    BY <2>1, <2>3
  <2> QED
    BY <1>1, <1>3, <2>2, <2>4 DEF ListInv, Unopened, Shown, LastingLive, Accounted
<1> QED
  BY <1>2, <1>3 DEF OpenDir

LEMMA ListInvConnect ==
    ASSUME ListInv, NEW f \in Files, ListConnect(f) \/ ListRefused(f)
    PROVE  ListInv'
<1>1. /\ stage = "list" /\ stage' = "list" /\ at = NoFile /\ f \in left
      /\ usable' = usable /\ dir' = dir /\ printed' = printed /\ lasting' = lasting
      /\ left' = left \ {f}
  BY DEF ListConnect, ListRefused, Listing
<1>2. Here' = Here
  BY <1>1 DEF Here, socket_base_dir
<1>3. f \in Here
  BY <1>1 DEF ListInv, LastingLive
<1>4. Shown'
  BY <1>1, <1>2, <1>3 DEF ListInv, Shown, ListConnect, ListRefused, OfHost
<1>5. Unopened' /\ LastingLive'
  BY <1>1, <1>2 DEF ListInv, LastingLive, Unopened
<1>6. f \in lasting => dir[f] = "live"
  BY <1>1 DEF ListInv, LastingLive
<1>7. f \in lasting /\ OfHost(f) => at' = f
  BY <1>6 DEF ListConnect, ListRefused
<1>8. ASSUME NEW g \in lasting, OfHost(g) PROVE g \in left' \cup {at'} \cup printed'
  <2>1. g # NoFile
    BY <1>1, FileParts DEF ListInv, LastingLive, Here
  <2> QED
    BY <1>1, <1>7, <1>8, <2>1 DEF ListInv, Accounted
<1>9. Accounted'
  BY <1>1, <1>8 DEF Accounted, OfHost
<1> QED
  BY <1>4, <1>5, <1>9 DEF ListInv

LEMMA ListInvAnswer == ListInv /\ ListAnswer => ListInv'
<1>. SUFFICES ASSUME ListInv, ListAnswer PROVE ListInv'
  OBVIOUS
<1>1. /\ stage = "list" /\ stage' = "list" /\ at # NoFile /\ at' = NoFile
      /\ usable' = usable /\ dir' = dir /\ left' = left /\ lasting' = lasting
      /\ printed' = IF dir[at] = "live" THEN printed \cup {at} ELSE printed
  BY DEF ListAnswer
<1>2. Here' = Here
  BY <1>1 DEF Here, socket_base_dir
<1>3. Shown' /\ Unopened' /\ LastingLive'
  BY <1>1, <1>2 DEF ListInv, Shown, Unopened, LastingLive, OfHost
<1>4. Accounted'
  BY <1>1 DEF ListInv, LastingLive, Accounted, OfHost
<1> QED
  BY <1>3, <1>4 DEF ListInv

LEMMA ListInvEnd == ListInv /\ ListEnd => ListInv'
<1>. SUFFICES ASSUME ListInv, ListEnd PROVE ListInv'
  OBVIOUS
<1>1. /\ stage = "list" /\ stage' = "listed" /\ at = NoFile /\ lasting \cap left = {}
      /\ usable' = usable /\ dir' = dir /\ left' = left /\ lasting' = lasting
      /\ printed' = printed /\ at' = at
  BY DEF ListEnd, Listing, listVars
<1>2. Here' = Here
  BY <1>1 DEF Here, socket_base_dir
<1>3. Shown' /\ Unopened' /\ LastingLive'
  BY <1>1, <1>2 DEF ListInv, Shown, Unopened, LastingLive, OfHost
<1>4. ASSUME NEW f \in lasting PROVE f # NoFile
  BY <1>1, FileParts DEF ListInv, LastingLive, Here
<1>5. Accounted'
  BY <1>1, <1>4 DEF ListInv, Accounted, OfHost
<1> QED
  BY <1>3, <1>5 DEF ListInv

LEMMA ListInvBecomes ==
    ASSUME ListInv, NEW f \in Files, NEW s \in {"absent", "orphan", "live"}, Becomes(f, s)
    PROVE  ListInv'
<1>1. /\ stage = "list" /\ stage' = "list"
      /\ dir' = [dir EXCEPT ![f] = s] /\ lasting' = lasting \ {f}
      /\ usable' = usable /\ left' = left /\ at' = at /\ printed' = printed
  BY DEF Becomes
<1>2. Here' = Here
  BY <1>1 DEF Here, socket_base_dir
<1>3. Shown' /\ Unopened' /\ Accounted'
  BY <1>1, <1>2 DEF ListInv, Shown, Unopened, Accounted, OfHost
<1>4. LastingLive'
  BY <1>1, <1>2 DEF ListInv, LastingLive
<1> QED
  BY <1>3, <1>4 DEF ListInv

LEMMA ListInvNext == ListInv /\ [CommandNext]_<<vars, commandVars>> => ListInv'
<1>. SUFFICES ASSUME ListInv, [CommandNext]_<<vars, commandVars>> PROVE ListInv'
  OBVIOUS
<1>1. CASE ParseName \/ ParseOption
  BY <1>1, ListInvElsewhere DEF ParseName, ParseOption, Consume
<1>2. CASE ParseValue \/ ParseVersion \/ ParseUnknown \/ ParseEnd
  BY <1>2, ListInvElsewhere
     DEF ParseValue, ParseVersion, ParseUnknown, ParseEnd, UsageError, Consume, Parsing
<1>3. CASE Dispatch
  <2>1. stage = "main" /\ stage' \in {"open", "usage", "other", "attach"}
    BY <1>3 DEF Dispatch
  <2> QED
    BY <1>3, <2>1, ListInvElsewhere DEF Dispatch
<1>4. CASE OpenDir \/ ListAnswer \/ ListEnd
  BY <1>4, ListInvOpen, ListInvAnswer, ListInvEnd
<1>5. ASSUME NEW f \in Files,
             \/ ListConnect(f) \/ ListRefused(f)
             \/ SessionBegins(f) \/ SessionEnds(f) \/ SessionCrashes(f)
      PROVE  ListInv'
  BY <1>5, ListInvConnect, ListInvBecomes DEF SessionBegins, SessionEnds, SessionCrashes
<1>6. CASE UNCHANGED commandVars
  BY <1>6, ListInvElsewhere DEF commandVars, listVars
<1> QED
  BY <1>1, <1>2, <1>3, <1>4, <1>5, <1>6 DEF CommandNext

LEMMA ListInvariance == CommandSpec => []ListInv
<1> QED
  BY ListInvInit, ListInvNext, PTL DEF CommandSpec

-------------------------------------------------------------------------------
(* When list_sessions is done, every session that the invocation could name *)
(* and that was there from read_dir on has its line: whatever sessions      *)
(* began, ended or crashed meanwhile, and in whatever order read_dir gave   *)
(* the entries.                                                             *)
THEOREM ListsComplete == CommandSpec => []ListComplete
<1>1. ListInv => ListComplete
  BY PathOfHost DEF ListInv, Accounted, ListComplete
<1> QED
  BY <1>1, ListInvariance, PTL

(* The name list_sessions prints leads socket_path back to the file that    *)
(* answered, unless the session's own name ends with the host's.            *)
THEOREM ListsResolve == CommandSpec => []ListResolves
<1>1. ListInv => ListResolves
  BY PathOfTrimmed DEF ListInv, Shown, ListResolves
<1> QED
  BY <1>1, ListInvariance, PTL

-------------------------------------------------------------------------------
(* Options and values.  A row of words that take a value ends at the first  *)
(* word that takes none: IsValue, which looks at the whole row, says of the *)
(* next word what parse_args says of it, looking at one word at a time.     *)

(* How many words in a row that take a value come before the i-th. *)
RunBefore(line, i, r) ==
    /\ \A j \in (i - r)..(i - 1) : line[j] \in Valued
    /\ i - r = 1 \/ line[i - r - 1] \notin Valued

(* There is such a number: the least one at which the row ends. *)
LEMMA RunExists ==
    ASSUME NEW line, NEW i \in Nat \ {0}
    PROVE  \E r \in 0..(i - 1) : RunBefore(line, i, r)
<1> DEFINE T == {r \in 0..(i - 1) : i - r = 1 \/ line[i - r - 1] \notin Valued}
<1>1. T \subseteq Nat /\ i - 1 \in T
  OBVIOUS
<1>2. PICK m \in T : \A k \in T : m <= k
  BY <1>1, LeastNat
<1>3. ASSUME NEW j \in (i - m)..(i - 1) PROVE line[j] \in Valued
  <2>1. i - j - 1 \in 0..(i - 1) /\ i - j - 1 < m
    BY <1>2, <1>3
  <2>2. i - j - 1 \notin T
    <3>1. m \in Nat /\ ~(m <= i - j - 1)
      BY <1>2, <2>1
    <3> HIDE DEF T
    <3> QED
      BY <1>2, <3>1
  <2>3. i - (i - j - 1) - 1 = j
    OBVIOUS
  <2> QED
    BY <2>1, <2>2, <2>3
<1> QED
  BY <1>2, <1>3 DEF RunBefore

(* And only one. *)
LEMMA RunUnique ==
    ASSUME NEW line, NEW i \in Nat \ {0}, NEW r \in 0..(i - 1), NEW q \in 0..(i - 1),
           RunBefore(line, i, r), RunBefore(line, i, q)
    PROVE  r = q
<1>1. ASSUME NEW a \in 0..(i - 1), NEW b \in 0..(i - 1), a < b,
             RunBefore(line, i, a), RunBefore(line, i, b)
      PROVE  FALSE
  <2>1. i - a - 1 \in (i - b)..(i - 1) /\ i - a # 1
    BY <1>1
  <2> QED
    BY <1>1, <2>1 DEF RunBefore
<1> QED
  BY <1>1

LEMMA ValueIsRun ==
    ASSUME NEW line, NEW i \in Nat \ {0}, NEW r \in 0..(i - 1), RunBefore(line, i, r)
    PROVE  IsValue(line, i) <=> r % 2 = 1
<1>1. IsValue(line, i) <=> \E k \in {n \in 1..(i - 1) : n % 2 = 1} : RunBefore(line, i, k)
  BY DEF IsValue, RunBefore
<1>2. r % 2 = 1 => r # 0
  OBVIOUS
<1>3. \A k \in 1..(i - 1) : RunBefore(line, i, k) => k = r
  BY RunUnique
<1> QED
  BY <1>1, <1>2, <1>3

(* The word after a word that takes a value, and is none itself, is its     *)
(* value; no other word is one.                                             *)
LEMMA ValueNext ==
    ASSUME NEW line, NEW i \in Nat \ {0}
    PROVE  IsValue(line, i + 1) <=> line[i] \in Valued /\ ~IsValue(line, i)
<1>1. PICK r \in 0..(i - 1) : RunBefore(line, i, r)
  BY RunExists
<1>2. IsValue(line, i) <=> r % 2 = 1
  BY <1>1, ValueIsRun
<1>3. CASE line[i] \in Valued
  <2>1. r + 1 \in 0..((i + 1) - 1) /\ i + 1 \in Nat \ {0}
    OBVIOUS
  <2>2. RunBefore(line, i + 1, r + 1)
    BY <1>1, <1>3 DEF RunBefore
  <2>3. IsValue(line, i + 1) <=> (r + 1) % 2 = 1
    BY <2>1, <2>2, ValueIsRun
  <2> QED
    BY <1>2, <1>3, <2>3
<1>4. CASE line[i] \notin Valued
  <2>1. RunBefore(line, i + 1, 0)
    BY <1>4 DEF RunBefore
  <2>2. IsValue(line, i + 1) <=> 0 % 2 = 1
    BY <2>1, ValueIsRun
  <2> QED
    BY <1>4, <2>2
<1> QED
  BY <1>3, <1>4

LEMMA FirstNoValue ==
    ASSUME NEW line
    PROVE  ~IsValue(line, 1)
BY DEF IsValue

-------------------------------------------------------------------------------
(* What the options among the words at S say, the name left out. *)
Giving(line, S, words) == {i \in S : line[i] \in words}
Latest(S) == CHOOSE i \in S : \A j \in S : j <= i
SizeAt(line, i) == IF line[i] \in DOMAIN Joined THEN 5 ELSE Sizes[line[i + 1]]
HasIn(line, S, w) == \E i \in S : line[i] = w

ActionIn(line, S) == LET T == Giving(line, S, DOMAIN ActionOf)
                     IN  IF T = {} THEN None ELSE ActionOf[line[Latest(T)]]
SizeIn(line, S, words) == LET T == Giving(line, S, words)
                          IN  IF T = {} THEN 0 ELSE SizeAt(line, Latest(T))
FlagsIn(line, S) == {FlagOf[w] : w \in {v \in DOMAIN FlagOf : HasIn(line, S, v)}}
KeyIn(line, S) == LET T == Giving(line, S, {"-e"})
                  IN  IF T = {} THEN 28 ELSE parse_detach_key(BytesOf(line[Latest(T) + 1]))

OptionsIn(line, S, name, rest) ==
    [action |-> ActionIn(line, S), name |-> name, rest |-> rest,
     literal |-> HasIn(line, S, "-x"),
     max_bytes |-> SizeIn(line, S, {"-N", "-N5"}),
     max_lines |-> SizeIn(line, S, {"-L", "-L5"}),
     flags |-> FlagsIn(line, S), quiet |-> HasIn(line, S, "-q"),
     force |-> HasIn(line, S, "-f"), passthrough |-> HasIn(line, S, "-p"),
     detach_key |-> KeyIn(line, S)]

(* The words among the first k that are not values. *)
Upto(line, k) == {i \in 1..k : ~IsValue(line, i)}

LEMMA MeaningIs ==
    ASSUME NEW line
    PROVE  Meaning(line) =
             OptionsIn(line, Upto(line, NameAt(line) - 1),
                       IF NameAt(line) <= Len(line) THEN line[NameAt(line)] ELSE None,
                       SubSeq(line, NameAt(line) + 1, Len(line)))
<1> DEFINE S == Upto(line, NameAt(line) - 1)
<1>1. Options(line) = S
  BY DEF Options, Upto
<1>2. LastOf(line, DOMAIN ActionOf, LAMBDA i : ActionOf[line[i]], None) = ActionIn(line, S)
  BY <1>1 DEF LastOf, ActionIn, Giving, Latest
<1>3. LastOf(line, {"-e"}, LAMBDA i : parse_detach_key(BytesOf(line[i + 1])), 28) = KeyIn(line, S)
  BY <1>1 DEF LastOf, KeyIn, Giving, Latest
<1>4. ASSUME NEW w PROVE Has(line, w) = HasIn(line, S, w)
  BY <1>1 DEF Has, HasIn
<1>5. ASSUME NEW words
      PROVE  LastOf(line, words,
                    LAMBDA i : IF line[i] \in DOMAIN Joined THEN 5 ELSE Sizes[line[i + 1]], 0)
               = SizeIn(line, S, words)
  BY <1>1 DEF LastOf, SizeIn, SizeAt, Giving, Latest
<1>6. {FlagOf[w] : w \in {v \in DOMAIN FlagOf : Has(line, v)}} = FlagsIn(line, S)
  BY <1>4 DEF FlagsIn
<1> HIDE DEF S
<1>7. Meaning(line) =
        [action |-> ActionIn(line, S),
         name |-> IF NameAt(line) <= Len(line) THEN line[NameAt(line)] ELSE None,
         rest |-> SubSeq(line, NameAt(line) + 1, Len(line)),
         literal |-> Has(line, "-x"),
         max_bytes |-> SizeIn(line, S, {"-N", "-N5"}),
         max_lines |-> SizeIn(line, S, {"-L", "-L5"}),
         flags |-> FlagsIn(line, S), quiet |-> Has(line, "-q"),
         force |-> Has(line, "-f"), passthrough |-> Has(line, "-p"),
         detach_key |-> KeyIn(line, S)]
  BY <1>2, <1>3, <1>5, <1>6 DEF Meaning
<1>8. /\ Has(line, "-x") = HasIn(line, S, "-x") /\ Has(line, "-q") = HasIn(line, S, "-q")
      /\ Has(line, "-f") = HasIn(line, S, "-f") /\ Has(line, "-p") = HasIn(line, S, "-p")
  BY <1>4
<1>9. Meaning(line) =
        OptionsIn(line, S, IF NameAt(line) <= Len(line) THEN line[NameAt(line)] ELSE None,
                  SubSeq(line, NameAt(line) + 1, Len(line)))
  BY <1>7, <1>8, Zenon DEF OptionsIn
<1> QED
  BY <1>9 DEF S

(* The last of the words is the one that counts. *)
LEMMA LastAdded ==
    ASSUME NEW S \in SUBSET Nat, NEW m \in Nat, \A i \in S : i < m
    PROVE  Latest(S \cup {m}) = m
<1>1. \A i \in S \cup {m} : i <= m
  OBVIOUS
<1>2. \A i \in S \cup {m} : (\A j \in S \cup {m} : j <= i) => i = m
  OBVIOUS
<1> DEFINE P(i) == \A j \in S \cup {m} : j <= i
<1>3. m \in S \cup {m} /\ P(m) /\ \A i \in S \cup {m} : P(i) => i = m
  BY <1>1, <1>2
<1> HIDE DEF P
<1>4. (CHOOSE i \in S \cup {m} : P(i)) = m
  BY <1>3
<1> QED
  BY <1>4 DEF Latest, P

LEMMA GivingAdded ==
    ASSUME NEW line, NEW words, NEW S \in SUBSET Nat, NEW m \in Nat, \A i \in S : i < m
    PROVE  IF line[m] \in words
             THEN /\ Giving(line, S \cup {m}, words) # {}
                  /\ Latest(Giving(line, S \cup {m}, words)) = m
             ELSE Giving(line, S \cup {m}, words) = Giving(line, S, words)
<1>1. CASE line[m] \in words
  <2>1. Giving(line, S \cup {m}, words) = Giving(line, S, words) \cup {m}
    BY <1>1 DEF Giving
  <2>2. Giving(line, S, words) \in SUBSET Nat /\ \A i \in Giving(line, S, words) : i < m
    BY DEF Giving
  <2>3. Latest(Giving(line, S, words) \cup {m}) = m
    BY <2>2, LastAdded
  <2> QED
    BY <1>1, <2>1, <2>3
<1>2. CASE line[m] \notin words
  BY <1>2 DEF Giving
<1> QED
  BY <1>1, <1>2

(* What one more option says, and leaves as it was. *)
LEMMA FieldsAdded ==
    ASSUME NEW line, NEW S \in SUBSET Nat, NEW m \in Nat, \A i \in S : i < m
    PROVE  /\ ActionIn(line, S \cup {m}) =
                IF line[m] \in DOMAIN ActionOf THEN ActionOf[line[m]] ELSE ActionIn(line, S)
           /\ \A words : SizeIn(line, S \cup {m}, words) =
                IF line[m] \in words THEN SizeAt(line, m) ELSE SizeIn(line, S, words)
           /\ KeyIn(line, S \cup {m}) =
                IF line[m] = "-e" THEN parse_detach_key(BytesOf(line[m + 1])) ELSE KeyIn(line, S)
           /\ \A w : HasIn(line, S \cup {m}, w) = (line[m] = w \/ HasIn(line, S, w))
           /\ FlagsIn(line, S \cup {m}) =
                IF line[m] \in DOMAIN FlagOf THEN FlagsIn(line, S) \cup {FlagOf[line[m]]}
                                             ELSE FlagsIn(line, S)
<1>1. ActionIn(line, S \cup {m}) =
        IF line[m] \in DOMAIN ActionOf THEN ActionOf[line[m]] ELSE ActionIn(line, S)
  BY GivingAdded DEF ActionIn
<1>2. ASSUME NEW words
      PROVE  SizeIn(line, S \cup {m}, words) =
               IF line[m] \in words THEN SizeAt(line, m) ELSE SizeIn(line, S, words)
  BY GivingAdded DEF SizeIn
<1>3. KeyIn(line, S \cup {m}) =
        IF line[m] = "-e" THEN parse_detach_key(BytesOf(line[m + 1])) ELSE KeyIn(line, S)
  BY GivingAdded DEF KeyIn
<1>4. ASSUME NEW w PROVE HasIn(line, S \cup {m}, w) = (line[m] = w \/ HasIn(line, S, w))
  BY DEF HasIn
<1>5. FlagsIn(line, S \cup {m}) =
        IF line[m] \in DOMAIN FlagOf THEN FlagsIn(line, S) \cup {FlagOf[line[m]]}
                                     ELSE FlagsIn(line, S)
  BY <1>4 DEF FlagsIn
<1> QED
  BY <1>1, <1>2, <1>3, <1>4, <1>5

(* Where the name is, once all the words before it are options or values. *)
LEMMA NameFound ==
    ASSUME NEW line, Len(line) \in Nat, NEW k \in 0..Len(line),
           \A i \in 1..k : line[i] \in Dashed \/ IsValue(line, i),
           k = Len(line) \/ (line[k + 1] \notin Dashed /\ ~IsValue(line, k + 1))
    PROVE  NameAt(line) = k + 1
<1> DEFINE P(n) == /\ n <= Len(line) => line[n] \notin Dashed /\ ~IsValue(line, n)
                   /\ \A i \in 1..(n - 1) : line[i] \in Dashed \/ IsValue(line, i)
<1>1. k + 1 \in 1..(Len(line) + 1) /\ P(k + 1)
  OBVIOUS
<1>2. ASSUME NEW n \in 1..(Len(line) + 1), P(n) PROVE n = k + 1
  <2>1. CASE n < k + 1
    <3>1. n \in 1..k /\ n <= Len(line)
      BY <2>1
    <3> QED
      BY <1>2, <3>1
  <2>2. CASE n > k + 1
    <3>1. k + 1 \in 1..(n - 1) /\ k # Len(line)
      BY <2>2
    <3> QED
      BY <1>2, <3>1
  <2> QED
    BY <2>1, <2>2
<1> HIDE DEF P
<1>3. (CHOOSE n \in 1..(Len(line) + 1) : P(n)) = k + 1
  BY <1>1, <1>2
<1> QED
  BY <1>3 DEF NameAt, P

-------------------------------------------------------------------------------
(* The invariant of parse_args. *)

(* The first k words have been looked at, and hold no name. *)
ReadTo(k) ==
    /\ args = SubSeq(given, k + 1, Len(given))
    /\ ~IsValue(given, k + 1)
    /\ \A i \in 1..k : given[i] \in Dashed \/ IsValue(given, i)
    /\ o = OptionsIn(given, Upto(given, k), None, <<>>)

ParseInv ==
    /\ given \in Seq(Words)
    /\ stage = "parse" => \/ args = <<>> /\ o = Meaning(given)
                          \/ \E k \in 0..Len(given) : ReadTo(k)
    /\ stage = "main" => o = Meaning(given)

LEMMA NoneRead ==
    ASSUME NEW line
    PROVE  OptionsIn(line, Upto(line, 0), None, <<>>) = NoOpts
<1>1. Upto(line, 0) = {}
  BY DEF Upto
<1>2. /\ ActionIn(line, {}) = None /\ KeyIn(line, {}) = 28 /\ FlagsIn(line, {}) = {}
      /\ \A words : SizeIn(line, {}, words) = 0
      /\ \A w : HasIn(line, {}, w) = FALSE
  BY DEF ActionIn, SizeIn, FlagsIn, KeyIn, HasIn, Giving
<1>3. OptionsIn(line, {}, None, <<>>) = NoOpts
  BY <1>2, Zenon DEF OptionsIn, NoOpts
<1> QED
  BY <1>1, <1>3

(* A word of the command line is one of a few. *)
LEMMA WordIs ==
    ASSUME NEW w \in Words
    PROVE  /\ w # None
           /\ w \in DOMAIN Sizes => Sizes[w] \in Nat
  BY CommandAssumption DEF None, Dashed, Sizes, ActionOf, SwitchOf, FlagOf, Valued, Joined,
     Version, Unknown

LEMMA LengthLeft ==
    ASSUME NEW X, NEW s \in Seq(X), NEW k \in 0..Len(s)
    PROVE  Len(SubSeq(s, k + 1, Len(s))) = Len(s) - k
OBVIOUS

(* The first word parse_args has not looked at. *)
LEMMA HeadOfArgs ==
    ASSUME given \in Seq(Words), NEW k \in 0..Len(given), args = SubSeq(given, k + 1, Len(given)),
           args # <<>>
    PROVE  /\ k + 1 \in 1..Len(given)
           /\ Len(args) = Len(given) - k
           /\ Head(args) = given[k + 1]
           /\ Len(args) >= 2 => args[2] = given[k + 2]
           /\ \A n \in 0..Len(args) :
                SubSeq(args, n + 1, Len(args)) = SubSeq(given, k + n + 1, Len(given))
           /\ Tail(args) = SubSeq(given, k + 2, Len(given))
<1>1. Len(given) \in Nat /\ Len(args) = Len(given) - k /\ args \in Seq(Words)
  OBVIOUS
<1>2. k # Len(given)
  BY <1>1
<1>3. Head(args) = given[k + 1] /\ (Len(args) >= 2 => args[2] = given[k + 2])
  BY <1>1, <1>2
<1>4. ASSUME NEW n \in 0..Len(args)
      PROVE  SubSeq(args, n + 1, Len(args)) = SubSeq(given, k + n + 1, Len(given))
  BY <1>1, <1>2
<1>5. Tail(args) = SubSeq(given, k + 2, Len(given))
  BY <1>1, <1>2, <1>4
<1>6. k + 1 \in 1..Len(given)
  BY <1>1, <1>2
<1> QED
  BY <1>1, <1>3, <1>4, <1>5, <1>6, Zenon

LEMMA UptoNext ==
    ASSUME NEW line, NEW k \in Nat, ~IsValue(line, k + 1)
    PROVE  /\ Upto(line, k + 1) = Upto(line, k) \cup {k + 1}
           /\ IsValue(line, k + 2) => Upto(line, k + 2) = Upto(line, k) \cup {k + 1}
           /\ Upto(line, k) \in SUBSET Nat
           /\ \A i \in Upto(line, k) : i < k + 1
  BY DEF Upto

(* An option that stands by itself. *)
LEMMA OptionRead ==
    ASSUME given \in Seq(Words), NEW k \in 0..Len(given), ReadTo(k), ParseOption
    PROVE  ReadTo(k + 1)' /\ k + 1 \in 0..Len(given)
<1> DEFINE w == given[k + 1]
           S == Upto(given, k)
           m == k + 1
<1>1. /\ args # <<>> /\ given' = given /\ stage' = stage
      /\ args' = SubSeq(args, 2, Len(args))
      /\ Head(args) \in DOMAIN ActionOf \cup DOMAIN SwitchOf \cup DOMAIN FlagOf \cup DOMAIN Joined
  BY DEF ParseOption, Parsing, Consume
<1>2. /\ m \in 1..Len(given) /\ Head(args) = w
      /\ args' = SubSeq(given, m + 1, Len(given))
  BY <1>1, HeadOfArgs DEF ReadTo
<1>3. w \notin Valued /\ w \in Dashed
  BY <1>1, <1>2 DEF Valued, Dashed, ActionOf, SwitchOf, FlagOf, Joined
<1>4. ~IsValue(given, m + 1)
  <2>1. m \in Nat \ {0}
    BY <1>2
  <2> HIDE DEF m
  <2> QED
    BY <1>3, <2>1, ValueNext DEF w, m
<1>5. \A i \in 1..m : given[i] \in Dashed \/ IsValue(given, i)
  BY <1>3 DEF ReadTo
<1>6. /\ Upto(given, m) = S \cup {m} /\ S \in SUBSET Nat
      /\ (\A i \in S : i < m) /\ m \in Nat
  BY <1>2, UptoNext DEF ReadTo
<1>7. /\ ActionIn(given, S \cup {m}) =
           IF w \in DOMAIN ActionOf THEN ActionOf[w] ELSE ActionIn(given, S)
      /\ \A words : SizeIn(given, S \cup {m}, words) =
           IF w \in words THEN SizeAt(given, m) ELSE SizeIn(given, S, words)
      /\ KeyIn(given, S \cup {m}) =
           IF w = "-e" THEN parse_detach_key(BytesOf(given[m + 1])) ELSE KeyIn(given, S)
      /\ \A v : HasIn(given, S \cup {m}, v) = (w = v \/ HasIn(given, S, v))
      /\ FlagsIn(given, S \cup {m}) =
           IF w \in DOMAIN FlagOf THEN FlagsIn(given, S) \cup {FlagOf[w]} ELSE FlagsIn(given, S)
  BY <1>6, FieldsAdded
<1>8. o' = CASE w \in DOMAIN ActionOf -> [o EXCEPT !.action = ActionOf[w]]
             [] w \in DOMAIN SwitchOf -> [o EXCEPT ![SwitchOf[w]] = TRUE]
             [] w \in DOMAIN FlagOf   -> [o EXCEPT !.flags = @ \cup {FlagOf[w]}]
             [] w = "-N5"             -> [o EXCEPT !.max_bytes = 5]
             [] w = "-L5"             -> [o EXCEPT !.max_lines = 5]
  BY <1>2 DEF ParseOption
<1>9. o = OptionsIn(given, S, None, <<>>)
  BY DEF ReadTo
<1> HIDE DEF S, m
<1>10. w \in {"-a", "-A", "-c", "-n", "-d", "-K", "-x", "-q", "-f", "-p", "-r", "-l", "-N5", "-L5"}
  BY <1>1, <1>2 DEF ActionOf, SwitchOf, FlagOf, Joined
<1> HIDE DEF w
<1>11. /\ ActionIn(given, S \cup {m}) =
             IF w \in {"-a", "-A", "-c", "-n", "-d", "-K"} THEN ActionOf[w] ELSE ActionIn(given, S)
       /\ KeyIn(given, S \cup {m}) = KeyIn(given, S)
       /\ FlagsIn(given, S \cup {m}) =
             IF w \in {"-r", "-l"} THEN FlagsIn(given, S) \cup {FlagOf[w]} ELSE FlagsIn(given, S)
       /\ HasIn(given, S \cup {m}, "-x") = IF w = "-x" THEN TRUE ELSE HasIn(given, S, "-x")
       /\ HasIn(given, S \cup {m}, "-q") = IF w = "-q" THEN TRUE ELSE HasIn(given, S, "-q")
       /\ HasIn(given, S \cup {m}, "-f") = IF w = "-f" THEN TRUE ELSE HasIn(given, S, "-f")
       /\ HasIn(given, S \cup {m}, "-p") = IF w = "-p" THEN TRUE ELSE HasIn(given, S, "-p")
       /\ SizeIn(given, S \cup {m}, {"-N", "-N5"}) =
             IF w = "-N5" THEN 5 ELSE SizeIn(given, S, {"-N", "-N5"})
       /\ SizeIn(given, S \cup {m}, {"-L", "-L5"}) =
             IF w = "-L5" THEN 5 ELSE SizeIn(given, S, {"-L", "-L5"})
  <2>1. w \in DOMAIN Joined => SizeAt(given, m) = 5
    BY DEF SizeAt, w, m
  <2>2. DOMAIN ActionOf = {"-a", "-A", "-c", "-n", "-d", "-K"} /\ DOMAIN FlagOf = {"-r", "-l"}
        /\ DOMAIN Joined = {"-N5", "-L5"}
    BY DEF ActionOf, FlagOf, Joined
  <2>3. \A v : HasIn(given, S, v) \in BOOLEAN
    BY DEF HasIn
  <2> QED
    BY <1>7, <1>10, <2>1, <2>2, <2>3
<1>12. ASSUME w \in {"-a", "-A", "-c", "-n", "-d", "-K"} PROVE o' = OptionsIn(given, S \cup {m}, None, <<>>)
  <2>1. /\ w \in DOMAIN ActionOf /\ w \notin DOMAIN FlagOf /\ w \notin DOMAIN SwitchOf
        /\ w # "-N5" /\ w # "-L5"
    BY <1>12 DEF ActionOf, FlagOf, SwitchOf
  <2>2. o' = [o EXCEPT !.action = ActionOf[w]]
    BY <1>8, <2>1
  <2>3. /\ ActionIn(given, S \cup {m}) = ActionOf[w]
        /\ KeyIn(given, S \cup {m}) = KeyIn(given, S)
        /\ FlagsIn(given, S \cup {m}) = FlagsIn(given, S)
        /\ HasIn(given, S \cup {m}, "-x") = HasIn(given, S, "-x")
        /\ HasIn(given, S \cup {m}, "-q") = HasIn(given, S, "-q")
        /\ HasIn(given, S \cup {m}, "-f") = HasIn(given, S, "-f")
        /\ HasIn(given, S \cup {m}, "-p") = HasIn(given, S, "-p")
        /\ SizeIn(given, S \cup {m}, {"-N", "-N5"}) = SizeIn(given, S, {"-N", "-N5"})
        /\ SizeIn(given, S \cup {m}, {"-L", "-L5"}) = SizeIn(given, S, {"-L", "-L5"})
    BY <1>11, <1>12
  <2> QED
    BY <1>9, <2>2, <2>3, SMT DEF OptionsIn
<1>13. ASSUME w = "-x" PROVE o' = OptionsIn(given, S \cup {m}, None, <<>>)
  <2>1. /\ w \notin DOMAIN ActionOf /\ w \notin DOMAIN FlagOf /\ w \in DOMAIN SwitchOf
        /\ w # "-N5" /\ w # "-L5" /\ SwitchOf[w] = "literal"
    BY <1>13 DEF ActionOf, FlagOf, SwitchOf
  <2>2. o' = [o EXCEPT !.literal = HasIn(given, S \cup {m}, "-x")]
    BY <1>8, <1>11, <1>13, <2>1
  <2>3. /\ ActionIn(given, S \cup {m}) = ActionIn(given, S)
        /\ KeyIn(given, S \cup {m}) = KeyIn(given, S)
        /\ FlagsIn(given, S \cup {m}) = FlagsIn(given, S)
        /\ HasIn(given, S \cup {m}, "-q") = HasIn(given, S, "-q")
        /\ HasIn(given, S \cup {m}, "-f") = HasIn(given, S, "-f")
        /\ HasIn(given, S \cup {m}, "-p") = HasIn(given, S, "-p")
        /\ SizeIn(given, S \cup {m}, {"-N", "-N5"}) = SizeIn(given, S, {"-N", "-N5"})
        /\ SizeIn(given, S \cup {m}, {"-L", "-L5"}) = SizeIn(given, S, {"-L", "-L5"})
    BY <1>11, <1>13
  <2> QED
    BY <1>9, <2>2, <2>3, SMT DEF OptionsIn
<1>14. ASSUME w = "-q" PROVE o' = OptionsIn(given, S \cup {m}, None, <<>>)
  <2>1. /\ w \notin DOMAIN ActionOf /\ w \notin DOMAIN FlagOf /\ w \in DOMAIN SwitchOf
        /\ w # "-N5" /\ w # "-L5" /\ SwitchOf[w] = "quiet"
    BY <1>14 DEF ActionOf, FlagOf, SwitchOf
  <2>2. o' = [o EXCEPT !.quiet = HasIn(given, S \cup {m}, "-q")]
    BY <1>8, <1>11, <1>14, <2>1
  <2>3. /\ ActionIn(given, S \cup {m}) = ActionIn(given, S)
        /\ KeyIn(given, S \cup {m}) = KeyIn(given, S)
        /\ FlagsIn(given, S \cup {m}) = FlagsIn(given, S)
        /\ HasIn(given, S \cup {m}, "-x") = HasIn(given, S, "-x")
        /\ HasIn(given, S \cup {m}, "-f") = HasIn(given, S, "-f")
        /\ HasIn(given, S \cup {m}, "-p") = HasIn(given, S, "-p")
        /\ SizeIn(given, S \cup {m}, {"-N", "-N5"}) = SizeIn(given, S, {"-N", "-N5"})
        /\ SizeIn(given, S \cup {m}, {"-L", "-L5"}) = SizeIn(given, S, {"-L", "-L5"})
    BY <1>11, <1>14
  <2> QED
    BY <1>9, <2>2, <2>3, SMT DEF OptionsIn
<1>15. ASSUME w = "-f" PROVE o' = OptionsIn(given, S \cup {m}, None, <<>>)
  <2>1. /\ w \notin DOMAIN ActionOf /\ w \notin DOMAIN FlagOf /\ w \in DOMAIN SwitchOf
        /\ w # "-N5" /\ w # "-L5" /\ SwitchOf[w] = "force"
    BY <1>15 DEF ActionOf, FlagOf, SwitchOf
  <2>2. o' = [o EXCEPT !.force = HasIn(given, S \cup {m}, "-f")]
    BY <1>8, <1>11, <1>15, <2>1
  <2>3. /\ ActionIn(given, S \cup {m}) = ActionIn(given, S)
        /\ KeyIn(given, S \cup {m}) = KeyIn(given, S)
        /\ FlagsIn(given, S \cup {m}) = FlagsIn(given, S)
        /\ HasIn(given, S \cup {m}, "-x") = HasIn(given, S, "-x")
        /\ HasIn(given, S \cup {m}, "-q") = HasIn(given, S, "-q")
        /\ HasIn(given, S \cup {m}, "-p") = HasIn(given, S, "-p")
        /\ SizeIn(given, S \cup {m}, {"-N", "-N5"}) = SizeIn(given, S, {"-N", "-N5"})
        /\ SizeIn(given, S \cup {m}, {"-L", "-L5"}) = SizeIn(given, S, {"-L", "-L5"})
    BY <1>11, <1>15
  <2> QED
    BY <1>9, <2>2, <2>3, SMT DEF OptionsIn
<1>16. ASSUME w = "-p" PROVE o' = OptionsIn(given, S \cup {m}, None, <<>>)
  <2>1. /\ w \notin DOMAIN ActionOf /\ w \notin DOMAIN FlagOf /\ w \in DOMAIN SwitchOf
        /\ w # "-N5" /\ w # "-L5" /\ SwitchOf[w] = "passthrough"
    BY <1>16 DEF ActionOf, FlagOf, SwitchOf
  <2>2. o' = [o EXCEPT !.passthrough = HasIn(given, S \cup {m}, "-p")]
    BY <1>8, <1>11, <1>16, <2>1
  <2>3. /\ ActionIn(given, S \cup {m}) = ActionIn(given, S)
        /\ KeyIn(given, S \cup {m}) = KeyIn(given, S)
        /\ FlagsIn(given, S \cup {m}) = FlagsIn(given, S)
        /\ HasIn(given, S \cup {m}, "-x") = HasIn(given, S, "-x")
        /\ HasIn(given, S \cup {m}, "-q") = HasIn(given, S, "-q")
        /\ HasIn(given, S \cup {m}, "-f") = HasIn(given, S, "-f")
                /\ SizeIn(given, S \cup {m}, {"-N", "-N5"}) = SizeIn(given, S, {"-N", "-N5"})
        /\ SizeIn(given, S \cup {m}, {"-L", "-L5"}) = SizeIn(given, S, {"-L", "-L5"})
    BY <1>11, <1>16
  <2> QED
    BY <1>9, <2>2, <2>3, SMT DEF OptionsIn
<1>17. ASSUME w \in {"-r", "-l"} PROVE o' = OptionsIn(given, S \cup {m}, None, <<>>)
  <2>1. /\ w \notin DOMAIN ActionOf /\ w \in DOMAIN FlagOf /\ w \notin DOMAIN SwitchOf
        /\ w # "-N5" /\ w # "-L5"
    BY <1>17 DEF ActionOf, FlagOf, SwitchOf
  <2>2. o' = [o EXCEPT !.flags = @ \cup {FlagOf[w]}]
    BY <1>8, <2>1
  <2>3. o.flags = FlagsIn(given, S)
    BY <1>9, SMT DEF OptionsIn
  <2>4. o' = [o EXCEPT !.flags = FlagsIn(given, S \cup {m})]
    BY <1>11, <1>17, <2>2, <2>3
  <2>5. /\ ActionIn(given, S \cup {m}) = ActionIn(given, S)
        /\ KeyIn(given, S \cup {m}) = KeyIn(given, S)
        /\ HasIn(given, S \cup {m}, "-x") = HasIn(given, S, "-x")
        /\ HasIn(given, S \cup {m}, "-q") = HasIn(given, S, "-q")
        /\ HasIn(given, S \cup {m}, "-f") = HasIn(given, S, "-f")
        /\ HasIn(given, S \cup {m}, "-p") = HasIn(given, S, "-p")
        /\ SizeIn(given, S \cup {m}, {"-N", "-N5"}) = SizeIn(given, S, {"-N", "-N5"})
        /\ SizeIn(given, S \cup {m}, {"-L", "-L5"}) = SizeIn(given, S, {"-L", "-L5"})
    BY <1>11, <1>17
  <2> QED
    BY <1>9, <2>4, <2>5, SMT DEF OptionsIn
<1>18. ASSUME w = "-N5" PROVE o' = OptionsIn(given, S \cup {m}, None, <<>>)
  <2>1. /\ w \notin DOMAIN ActionOf /\ w \notin DOMAIN FlagOf /\ w \notin DOMAIN SwitchOf
    BY <1>18 DEF ActionOf, FlagOf, SwitchOf
  <2>2. o' = [o EXCEPT !.max_bytes = 5]
    BY <1>8, <1>18, <2>1
  <2> QED
    BY <1>9, <1>11, <1>18, <2>2, SMT DEF OptionsIn
<1>19. ASSUME w = "-L5" PROVE o' = OptionsIn(given, S \cup {m}, None, <<>>)
  <2>1. /\ w \notin DOMAIN ActionOf /\ w \notin DOMAIN FlagOf /\ w \notin DOMAIN SwitchOf
    BY <1>19 DEF ActionOf, FlagOf, SwitchOf
  <2>2. o' = [o EXCEPT !.max_lines = 5]
    BY <1>8, <1>19, <2>1
  <2> QED
    BY <1>9, <1>11, <1>19, <2>2, SMT DEF OptionsIn
<1>20. o' = OptionsIn(given, S \cup {m}, None, <<>>)
  BY <1>10, <1>12, <1>13, <1>14, <1>15, <1>16, <1>17, <1>18, <1>19
<1>21. o' = OptionsIn(given', Upto(given', k + 1), None, <<>>)
  BY <1>1, <1>6, <1>20 DEF m
<1>22. /\ k + 1 \in 0..Len(given)
  BY <1>2 DEF m
<1>25. args' = SubSeq(given', (k + 1) + 1, Len(given'))
  BY <1>1, <1>2 DEF m
<1>23. ~IsValue(given', (k + 1) + 1)
  BY <1>1, <1>4 DEF m
<1>24. \A i \in 1..(k + 1) : given'[i] \in Dashed \/ IsValue(given', i)
  BY <1>1, <1>5 DEF m
<1> QED
  BY <1>21, <1>22, <1>23, <1>24, <1>25 DEF ReadTo

(* An option and its value. *)
LEMMA ValueRead ==
    ASSUME given \in Seq(Words), NEW k \in 0..Len(given), ReadTo(k), ParseValue,
           stage' = "parse"
    PROVE  ReadTo(k + 2)' /\ k + 2 \in 0..Len(given)
<1> DEFINE w == given[k + 1]
           v == given[k + 2]
           S == Upto(given, k)
           m == k + 1
<1>1. /\ args # <<>> /\ Head(args) \in Valued /\ Len(args) >= 2
      /\ Head(args) # "-e" => args[2] \in DOMAIN Sizes
      /\ given' = given /\ args' = SubSeq(args, 3, Len(args))
      /\ o' = CASE Head(args) = "-N" -> [o EXCEPT !.max_bytes = Sizes[args[2]]]
                [] Head(args) = "-L" -> [o EXCEPT !.max_lines = Sizes[args[2]]]
                [] Head(args) = "-e" -> [o EXCEPT !.detach_key = parse_detach_key(BytesOf(args[2]))]
  <2>1. args # <<>> /\ Head(args) \in Valued /\ ~UsageError
    BY DEF ParseValue, Parsing, UsageError
  <2>2. Len(args) \in Nat
    BY HeadOfArgs, <2>1 DEF ReadTo
  <2>3. ~(Len(args) < 2 \/ (Head(args) # "-e" /\ args[2] \notin DOMAIN Sizes))
    BY <2>1, Zenon DEF ParseValue
  <2>4. /\ o' = CASE Head(args) = "-N" -> [o EXCEPT !.max_bytes = Sizes[args[2]]]
                  [] Head(args) = "-L" -> [o EXCEPT !.max_lines = Sizes[args[2]]]
                  [] Head(args) = "-e" -> [o EXCEPT !.detach_key = parse_detach_key(BytesOf(args[2]))]
        /\ Consume(2)
    BY <2>3, Zenon DEF ParseValue
  <2>5. given' = given /\ args' = SubSeq(args, 3, Len(args))
    BY <2>4 DEF Consume
  <2> QED
    BY <2>1, <2>2, <2>3, <2>4, <2>5
<1>2. /\ m \in 1..Len(given) /\ Head(args) = w /\ args[2] = v
      /\ Len(args) = Len(given) - k
      /\ args' = SubSeq(given, k + 3, Len(given))
  <2>1. args = SubSeq(given, k + 1, Len(given)) /\ Len(given) \in Nat
    BY DEF ReadTo
  <2>2. /\ k + 1 \in 1..Len(given) /\ Len(args) = Len(given) - k
        /\ Head(args) = given[k + 1]
        /\ Len(args) >= 2 => args[2] = given[k + 2]
        /\ \A n \in 0..Len(args) :
             SubSeq(args, n + 1, Len(args)) = SubSeq(given, k + n + 1, Len(given))
    BY <1>1, <2>1, HeadOfArgs
  <2>3. 2 \in 0..Len(args) /\ k + 2 + 1 = k + 3 /\ 2 + 1 = 3
    BY <1>1, <2>1, <2>2
  <2>4. SubSeq(args, 3, Len(args)) = SubSeq(given, k + 3, Len(given))
    BY <2>2, <2>3
  <2> QED
    BY <1>1, <2>2, <2>4
<1>3. k + 2 \in 1..Len(given)
  BY <1>1, <1>2
<1>4. w \in Valued /\ w \in Dashed
  BY <1>1, <1>2 DEF Dashed
<1>5. IsValue(given, m + 1) /\ m \in Nat \ {0} /\ m + 1 \in Nat \ {0}
  <2>1. m \in Nat \ {0} /\ m + 1 \in Nat \ {0} /\ ~IsValue(given, m)
    BY <1>2 DEF ReadTo
  <2> HIDE DEF m
  <2> QED
    BY <1>4, <2>1, ValueNext DEF w, m
<1>6. ~IsValue(given, (m + 1) + 1)
  BY <1>5, ValueNext
<1>7. /\ Upto(given, k + 2) = S \cup {m} /\ S \in SUBSET Nat
      /\ (\A i \in S : i < m) /\ m \in Nat
  <2>1. IsValue(given, k + 2) /\ ~IsValue(given, k + 1) /\ k \in Nat
    BY <1>2, <1>5 DEF ReadTo
  <2> QED
    BY <2>1, UptoNext
<1>8. \A i \in 1..(k + 2) : given[i] \in Dashed \/ IsValue(given, i)
  BY <1>4, <1>5 DEF ReadTo
<1>9. o = OptionsIn(given, S, None, <<>>)
  BY DEF ReadTo
<1>10. /\ ActionIn(given, S \cup {m}) =
           IF w \in DOMAIN ActionOf THEN ActionOf[w] ELSE ActionIn(given, S)
       /\ \A words : SizeIn(given, S \cup {m}, words) =
           IF w \in words THEN SizeAt(given, m) ELSE SizeIn(given, S, words)
       /\ KeyIn(given, S \cup {m}) =
           IF w = "-e" THEN parse_detach_key(BytesOf(given[m + 1])) ELSE KeyIn(given, S)
       /\ \A u : HasIn(given, S \cup {m}, u) = (w = u \/ HasIn(given, S, u))
       /\ FlagsIn(given, S \cup {m}) =
           IF w \in DOMAIN FlagOf THEN FlagsIn(given, S) \cup {FlagOf[w]} ELSE FlagsIn(given, S)
  BY <1>7, FieldsAdded
<1>11. w \in DOMAIN Joined \/ SizeAt(given, m) = Sizes[v]
  BY DEF SizeAt
<1>12. given[m + 1] = v
  OBVIOUS
<1>13. \A u : HasIn(given, S, u) \in BOOLEAN
  BY DEF HasIn
<1> HIDE DEF S, m, w, v
<1>14. w \in {"-N", "-L", "-e"}
  BY <1>4 DEF Valued
<1>15. /\ ActionIn(given, S \cup {m}) = ActionIn(given, S)
       /\ FlagsIn(given, S \cup {m}) = FlagsIn(given, S)
       /\ HasIn(given, S \cup {m}, "-x") = HasIn(given, S, "-x")
       /\ HasIn(given, S \cup {m}, "-q") = HasIn(given, S, "-q")
       /\ HasIn(given, S \cup {m}, "-f") = HasIn(given, S, "-f")
       /\ HasIn(given, S \cup {m}, "-p") = HasIn(given, S, "-p")
  BY <1>10, <1>13, <1>14 DEF ActionOf, FlagOf
<1>16. w \notin DOMAIN Joined
  BY <1>14 DEF Joined
<1>17. ASSUME w = "-N" PROVE o' = OptionsIn(given, S \cup {m}, None, <<>>)
  <2>1. o' = [o EXCEPT !.max_bytes = SizeIn(given, S \cup {m}, {"-N", "-N5"})]
    BY <1>1, <1>2, <1>10, <1>11, <1>16, <1>17
  <2>2. /\ KeyIn(given, S \cup {m}) = KeyIn(given, S)
        /\ SizeIn(given, S \cup {m}, {"-L", "-L5"}) = SizeIn(given, S, {"-L", "-L5"})
    BY <1>10, <1>17
  <2> QED
    BY <1>9, <1>15, <2>1, <2>2, SMT DEF OptionsIn
<1>18. ASSUME w = "-L" PROVE o' = OptionsIn(given, S \cup {m}, None, <<>>)
  <2>1. o' = [o EXCEPT !.max_lines = SizeIn(given, S \cup {m}, {"-L", "-L5"})]
    BY <1>1, <1>2, <1>10, <1>11, <1>16, <1>18
  <2>2. /\ KeyIn(given, S \cup {m}) = KeyIn(given, S)
        /\ SizeIn(given, S \cup {m}, {"-N", "-N5"}) = SizeIn(given, S, {"-N", "-N5"})
    BY <1>10, <1>18
  <2> QED
    BY <1>9, <1>15, <2>1, <2>2, SMT DEF OptionsIn
<1>19. ASSUME w = "-e" PROVE o' = OptionsIn(given, S \cup {m}, None, <<>>)
  <2>1. o' = [o EXCEPT !.detach_key = KeyIn(given, S \cup {m})]
    BY <1>1, <1>2, <1>10, <1>12, <1>19
  <2>2. /\ SizeIn(given, S \cup {m}, {"-N", "-N5"}) = SizeIn(given, S, {"-N", "-N5"})
        /\ SizeIn(given, S \cup {m}, {"-L", "-L5"}) = SizeIn(given, S, {"-L", "-L5"})
    BY <1>10, <1>19
  <2> QED
    BY <1>9, <1>15, <2>1, <2>2, SMT DEF OptionsIn
<1>20. o' = OptionsIn(given', Upto(given', k + 2), None, <<>>)
  BY <1>1, <1>7, <1>14, <1>17, <1>18, <1>19
<1>21. args' = SubSeq(given', (k + 2) + 1, Len(given'))
  <2>1. (k + 2) + 1 = k + 3
    OBVIOUS
  <2> QED
    BY <1>1, <1>2, <2>1
<1>22. ~IsValue(given', (k + 2) + 1)
  BY <1>1, <1>6 DEF m
<1>23. \A i \in 1..(k + 2) : given'[i] \in Dashed \/ IsValue(given', i)
  BY <1>1, <1>8
<1> QED
  BY <1>3, <1>20, <1>21, <1>22, <1>23 DEF ReadTo

(* The name, and the rest of the line with it. *)
LEMMA NameRead ==
    ASSUME given \in Seq(Words), NEW k \in 0..Len(given), ReadTo(k), ParseName
    PROVE  args' = <<>> /\ o' = Meaning(given)
<1>1. /\ args # <<>> /\ Head(args) \notin Dashed
      /\ args' = SubSeq(args, Len(args) + 1, Len(args))
      /\ o' = [o EXCEPT !.name = Head(args), !.rest = Tail(args)]
  BY DEF ParseName, Parsing, Consume
<1>2. /\ k + 1 \in 1..Len(given) /\ Head(args) = given[k + 1]
      /\ Tail(args) = SubSeq(given, k + 2, Len(given))
      /\ Len(given) \in Nat
  <2>1. Len(given) \in Nat /\ args = SubSeq(given, k + 1, Len(given))
    BY DEF ReadTo
  <2> QED
    BY <1>1, <2>1, HeadOfArgs
<1>3. NameAt(given) = k + 1
  BY <1>1, <1>2, NameFound DEF ReadTo
<1>4. Meaning(given) = OptionsIn(given, Upto(given, k), given[k + 1],
                                 SubSeq(given, k + 2, Len(given)))
  <2>1. NameAt(given) - 1 = k /\ NameAt(given) <= Len(given) /\ NameAt(given) + 1 = k + 2
    BY <1>2, <1>3
  <2> QED
    BY <1>3, <2>1, MeaningIs
<1>5. args' = <<>>
  <2>1. args \in Seq(Words)
    BY DEF ReadTo
  <2> QED
    BY <1>1, <2>1
<1>6. PICK t : t = [o EXCEPT !.name = given[k + 1]]
  OBVIOUS
<1>7. t = OptionsIn(given, Upto(given, k), given[k + 1], <<>>)
  BY <1>6, SMT DEF OptionsIn, ReadTo
<1>8. o' = [t EXCEPT !.rest = SubSeq(given, k + 2, Len(given))]
  BY <1>1, <1>2, <1>6
<1>9. o' = OptionsIn(given, Upto(given, k), given[k + 1], SubSeq(given, k + 2, Len(given)))
  <2>1. PICK u : u = SubSeq(given, k + 2, Len(given))
    OBVIOUS
  <2>2. o' = [t EXCEPT !.rest = u]
    BY <1>8, <2>1
  <2>3. o' = OptionsIn(given, Upto(given, k), given[k + 1], u)
    BY <1>7, <2>2, SMT DEF OptionsIn
  <2> QED
    BY <2>1, <2>3
<1> QED
  BY <1>4, <1>5, <1>9

(* The end of a line that names nothing. *)
LEMMA NothingNamed ==
    ASSUME given \in Seq(Words), NEW k \in 0..Len(given), ReadTo(k), args = <<>>
    PROVE  o = Meaning(given)
<1>1. Len(given) \in Nat /\ k = Len(given)
  <2>1. Len(SubSeq(given, k + 1, Len(given))) = Len(given) - k
    BY LengthLeft
  <2>2. PICK t : t = SubSeq(given, k + 1, Len(given))
    OBVIOUS
  <2>3. t = <<>>
    BY <2>2 DEF ReadTo
  <2>4. Len(t) = 0 /\ Len(given) \in Nat
    BY <2>3
  <2> QED
    BY <2>1, <2>2, <2>4
<1>2. NameAt(given) = k + 1
  BY <1>1, NameFound DEF ReadTo
<1>3. /\ NameAt(given) - 1 = k /\ ~(NameAt(given) <= Len(given))
      /\ SubSeq(given, NameAt(given) + 1, Len(given)) = <<>>
  BY <1>1, <1>2
<1>4. Meaning(given) = OptionsIn(given, Upto(given, k), None, <<>>)
  BY <1>3, MeaningIs
<1> QED
  BY <1>4 DEF ReadTo

LEMMA ParseInvInit == CommandInit => ParseInv
<1>. SUFFICES ASSUME CommandInit PROVE ParseInv
  OBVIOUS
<1>1. given \in Seq(Words) /\ Len(given) \in Nat
  BY DEF CommandInit
<1>2. args = SubSeq(given, 1, Len(given))
  BY <1>1 DEF CommandInit
<1>3. ReadTo(0)
  BY <1>2, NoneRead DEF CommandInit, ReadTo, IsValue
<1> QED
  BY <1>1, <1>3 DEF CommandInit, ParseInv

LEMMA ParseInvNext == ParseInv /\ [CommandNext]_<<vars, commandVars>> => ParseInv'
<1>. SUFFICES ASSUME ParseInv, [CommandNext]_<<vars, commandVars>> PROVE ParseInv'
  OBVIOUS
<1>1. ASSUME Parsing
      PROVE  \E k \in 0..Len(given) : ReadTo(k)
  BY <1>1 DEF Parsing, ParseInv
<1>2. CASE ParseOption
  <2>1. PICK k \in 0..Len(given) : ReadTo(k)
    BY <1>1, <1>2 DEF ParseOption
  <2>2. ReadTo(k + 1)' /\ k + 1 \in 0..Len(given)
    BY <1>2, <2>1, OptionRead DEF ParseInv
  <2>3. stage' = "parse" /\ given' = given
    BY <1>2 DEF ParseOption, Parsing, Consume
  <2> QED
    BY <2>2, <2>3 DEF ParseInv
<1>3. CASE ParseValue
  <2>1. PICK k \in 0..Len(given) : ReadTo(k)
    BY <1>1, <1>3 DEF ParseValue
  <2>2. given' = given /\ stage' \in {"parse", "usage"}
    BY <1>3 DEF ParseValue, Parsing, Consume, UsageError
  <2>3. CASE stage' = "parse"
    <3>1. ReadTo(k + 2)' /\ k + 2 \in 0..Len(given)
      BY <1>3, <2>1, <2>3, ValueRead DEF ParseInv
    <3> QED
      BY <2>2, <2>3, <3>1 DEF ParseInv
  <2> QED
    BY <2>2, <2>3 DEF ParseInv
<1>4. CASE ParseName
  <2>1. PICK k \in 0..Len(given) : ReadTo(k)
    BY <1>1, <1>4 DEF ParseName
  <2>2. args' = <<>> /\ o' = Meaning(given)
    BY <1>4, <2>1, NameRead DEF ParseInv
  <2>3. stage' = "parse" /\ given' = given
    BY <1>4 DEF ParseName, Parsing, Consume
  <2> QED
    BY <2>2, <2>3 DEF ParseInv
<1>5. CASE ParseEnd
  <2>1. /\ stage = "parse" /\ args = <<>> /\ given' = given
        /\ stage' = "usage" \/ (stage' = "main" /\ o' = o)
    BY <1>5 DEF ParseEnd, UsageError
  <2>2. o = Meaning(given)
    BY <2>1, NothingNamed DEF ParseInv
  <2> QED
    BY <2>1, <2>2 DEF ParseInv
<1>6. CASE ParseVersion \/ ParseUnknown
  BY <1>6 DEF ParseVersion, ParseUnknown, UsageError, ParseInv
<1>7. CASE Dispatch
  BY <1>7 DEF Dispatch, ParseInv
<1>8. CASE OpenDir \/ ListAnswer \/ ListEnd
  BY <1>8 DEF OpenDir, ListAnswer, ListEnd, Listing, ParseInv
<1>9. ASSUME NEW f \in Files,
             \/ ListConnect(f) \/ ListRefused(f)
             \/ SessionBegins(f) \/ SessionEnds(f) \/ SessionCrashes(f)
      PROVE  ParseInv'
  BY <1>9 DEF ListConnect, ListRefused, Listing, SessionBegins, SessionEnds, SessionCrashes,
     Becomes, ParseInv
<1>10. CASE UNCHANGED commandVars
  BY <1>10 DEF commandVars, ParseInv, ReadTo
<1> QED
  BY <1>2, <1>3, <1>4, <1>5, <1>6, <1>7, <1>8, <1>9, <1>10 DEF CommandNext

(* parse_args gives a command line the meaning it has as a whole: for any   *)
(* number of words, an option's value is never taken for an option or a     *)
(* name, the last of several options of one kind counts, and nothing after  *)
(* the name is read.                                                        *)
THEOREM ParsesMeaning == CommandSpec => []ParseMeans
<1>1. ParseInv => ParseMeans
  BY DEF ParseInv, ParseMeans
<1> QED
  BY <1>1, ParseInvInit, ParseInvNext, PTL DEF CommandSpec
===============================================================================

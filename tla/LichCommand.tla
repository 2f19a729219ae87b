------------------------------ MODULE LichCommand ------------------------------
(***************************************************************************)
(* An invocation of lich from its command line on: parse_args, the rest of *)
(* real_main, socket_path with socket_base_dir, and list_sessions, of      *)
(* src/src/main.rs.  An invocation that attaches goes on as LichTerminal.  *)
(*                                                                         *)
(* A word of the command line is one of a few strings.  The name of a      *)
(* file is the sequence of its parts between "@" signs.                    *)
(***************************************************************************)
EXTENDS LichTerminal, Sequences, FiniteSets, TLC

CONSTANTS
    Words,         \* the words a command line is made of
    MaxArgs,       \* and how many of them
    Names,         \* names of sessions, as sequences of parts
    Host,          \* the name of this host
    Entries,       \* names of socket files, as sequences of parts
    Usable         \* the sets of candidate directories that can be created

Candidates == <<"ABDUCO_SOCKET_DIR", "HOME", "TMPDIR", "tmp">>

VARIABLES
    stage,         \* where in real_main the invocation is
    given,         \* its command line
    args,          \* the words parse_args has not looked at
    o,             \* the Opts
    usable,        \* candidate directories create_dir_all succeeds for
    dir,           \* what there is of each socket file
    left,          \* entries read_dir has still to give
    at,            \* the entry list_sessions is connected to
    printed,       \* the files it has printed a line for
    lasting        \* the sessions that have been there since read_dir

commandVars == <<stage, given, args, o, usable, dir, left, at, printed, lasting>>
listVars == <<usable, dir, left, at, printed, lasting>>

-------------------------------------------------------------------------------
(* The words. *)
ActionOf == [w \in {"-a", "-A", "-c", "-n", "-d", "-K"} |->
               CASE w = "-a" -> "Attach"       [] w = "-A" -> "AttachOrCreate"
                 [] w = "-c" -> "CreateAttach" [] w = "-n" -> "Create"
                 [] w = "-d" -> "Dump"         [] w = "-K" -> "SendKeys"]
SwitchOf == [w \in {"-x", "-q", "-f", "-p"} |->
               CASE w = "-x" -> "literal" [] w = "-q" -> "quiet"
                 [] w = "-f" -> "force"   [] w = "-p" -> "passthrough"]
FlagOf == [w \in {"-r", "-l"} |-> IF w = "-r" THEN "READONLY" ELSE "LOWPRIORITY"]
Valued == {"-N", "-L", "-e"}
Joined == [w \in {"-N5", "-L5"} |-> IF w = "-N5" THEN "-N" ELSE "-L"]  \* with a 5
Sizes == [w \in {"0", "5"} |-> IF w = "0" THEN 0 ELSE 5]  \* what parse::<usize> accepts
Version == "-v"
Unknown == {"-z"}                               \* any other word with a hyphen

Dashed == DOMAIN ActionOf \cup DOMAIN SwitchOf \cup DOMAIN FlagOf \cup Valued
            \cup DOMAIN Joined \cup {Version} \cup Unknown

ASSUME CommandAssumption ==
    /\ MaxArgs \in Nat
    /\ Words \subseteq Dashed \cup DOMAIN Sizes \cup {"-", "^q"}
    /\ \A n \in Names \cup Entries : n \in Seq(STRING) /\ n # <<>>
    /\ Usable \subseteq SUBSET {Candidates[i] : i \in DOMAIN Candidates}

None == "none"
NoOpts == [action |-> None, name |-> None, rest |-> <<>>, literal |-> FALSE,
           max_bytes |-> 0, max_lines |-> 0, flags |-> {}, quiet |-> FALSE,
           force |-> FALSE, passthrough |-> FALSE, detach_key |-> 28]

(* The bytes of a word, as far as parse_detach_key looks at them: "^q" is   *)
(* the one word here that begins with a caret, and most begin with a hyphen. *)
BytesOf(w) == CASE w = "^q" -> <<94, 113>>
                [] w \in DOMAIN Sizes -> <<48 + Sizes[w]>>
                [] OTHER -> <<45>>

parse_detach_key(bytes) ==
    CASE Len(bytes) >= 2 /\ bytes[1] = 94 -> bytes[2] % 32
      [] bytes = <<>> -> 28
      [] OTHER -> bytes[1]

NoFile == <<>>

-------------------------------------------------------------------------------
(* Where sessions are.  A file is its directory and the parts of its name.  *)

(* The first candidate that exists or can be created; only called when      *)
(* there is one.                                                            *)
socket_base_dir ==
    Candidates[CHOOSE i \in DOMAIN Candidates :
                 /\ Candidates[i] \in usable
                 /\ \A j \in 1..(i - 1) : Candidates[j] \notin usable]

socket_path(name) == <<socket_base_dir>> \o name \o <<Host>>

(* ends_with("@host"): the last part is the host's, and an "@" comes before *)
(* it.                                                                      *)
OfHost(file) == Len(file) > 2 /\ file[Len(file)] = Host

(* Cutting the name at its first "@". *)
TrimmedToFirst(file) == SubSeq(file, 2, 2)

(* trim_end_matches, which trims as often as it can; the first part has no  *)
(* "@" before it.                                                           *)
Trimmed(file) ==
    SubSeq(file, 2, CHOOSE n \in 2..Len(file) :
                      /\ n = 2 \/ file[n] # Host
                      /\ \A i \in (n + 1)..Len(file) : file[i] = Host)

Files == {<<Candidates[i]>> \o e : i \in DOMAIN Candidates, e \in Entries}

(* The files in the directory this invocation uses. *)
Here == {f \in Files : Head(f) = socket_base_dir}

CommandInit ==
    /\ Init
    /\ opts.passthrough = ~opts.tty
    /\ stage = "parse"
    /\ given \in UNION {[1..n -> Words] : n \in 0..MaxArgs}
    /\ args = given
    /\ o = NoOpts
    /\ usable = {}
    /\ dir = [f \in Files |-> "absent"]
    /\ left = {}
    /\ at = NoFile
    /\ printed = {}
    /\ lasting = {}

-------------------------------------------------------------------------------
(* parse_args, one word or two at a time. *)
Parsing == stage = "parse" /\ args # <<>>

Consume(n) ==
    /\ args' = SubSeq(args, n + 1, Len(args))
    /\ UNCHANGED <<vars, stage, given, listVars>>

UsageError ==
    /\ stage' = "usage"
    /\ args' = <<>>
    /\ UNCHANGED <<vars, given, o, listVars>>

(* Taking options wherever they are, also after the name. *)
ParseNameThenOptions ==
    /\ Parsing
    /\ Head(args) \notin Dashed
    /\ o' = IF o.name = None THEN [o EXCEPT !.name = Head(args)]
                             ELSE [o EXCEPT !.rest = Append(@, Head(args))]
    /\ Consume(1)

(* The first word without a hyphen is the name, and the rest is left alone. *)
ParseName ==
    /\ Parsing
    /\ Head(args) \notin Dashed
    /\ o' = [o EXCEPT !.name = Head(args), !.rest = Tail(args)]
    /\ Consume(Len(args))

ParseOption ==
    /\ Parsing
    /\ Head(args) \in DOMAIN ActionOf \cup DOMAIN SwitchOf \cup DOMAIN FlagOf \cup DOMAIN Joined
    /\ LET w == Head(args)
       IN  o' = CASE w \in DOMAIN ActionOf -> [o EXCEPT !.action = ActionOf[w]]
                  [] w \in DOMAIN SwitchOf -> [o EXCEPT ![SwitchOf[w]] = TRUE]
                  [] w \in DOMAIN FlagOf   -> [o EXCEPT !.flags = @ \cup {FlagOf[w]}]
                  [] w = "-N5"             -> [o EXCEPT !.max_bytes = 5]
                  [] w = "-L5"             -> [o EXCEPT !.max_lines = 5]
    /\ Consume(1)

(* -N, -L and -e take the next word, whatever it looks like. *)
ParseValue ==
    /\ Parsing
    /\ Head(args) \in Valued
    /\ IF Len(args) < 2 \/ (Head(args) # "-e" /\ args[2] \notin DOMAIN Sizes)
         THEN UsageError
         ELSE /\ o' = CASE Head(args) = "-N" -> [o EXCEPT !.max_bytes = Sizes[args[2]]]
                        [] Head(args) = "-L" -> [o EXCEPT !.max_lines = Sizes[args[2]]]
                        [] Head(args) = "-e" -> [o EXCEPT !.detach_key = parse_detach_key(BytesOf(args[2]))]
              /\ Consume(2)

ParseVersion ==
    /\ Parsing
    /\ Head(args) = Version
    /\ stage' = "version"
    /\ args' = <<>>
    /\ UNCHANGED <<vars, given, o, listVars>>

ParseUnknown ==
    /\ Parsing
    /\ Head(args) \in Unknown
    /\ UsageError

(* Options that do not go together. *)
Clash ==
    \/ o.max_bytes # 0 /\ o.max_lines # 0
    \/ o.action # "Dump" /\ (o.max_bytes # 0 \/ o.max_lines # 0)
    \/ o.action # "SendKeys" /\ o.literal
    \/ o.action = "Dump" /\ o.rest # <<>>
    \/ o.action = "SendKeys" /\ o.rest = <<>>

ParseEnd ==
    /\ stage = "parse"
    /\ args = <<>>
    /\ IF Clash
         THEN UsageError
         ELSE /\ stage' = "main"
              /\ UNCHANGED <<vars, given, args, o, listVars>>

-------------------------------------------------------------------------------
(* The rest of real_main. *)

(* Without a terminal an invocation that names a session passes stdin       *)
(* through, and attaches if nothing else is asked for.                      *)
Adjusted ==
    IF o.name # None /\ ~opts.tty /\ o.action \notin {"Dump", "SendKeys"}
      THEN [o EXCEPT !.passthrough = TRUE, !.quiet = TRUE,
                     !.flags = @ \cup {"LOWPRIORITY"},
                     !.action = IF @ = None THEN "Attach" ELSE @]
      ELSE o

(* What becomes of an attach is in LichTerminal, of the other actions in    *)
(* LichSockets and LichSession.                                             *)
Dispatch ==
    /\ stage = "main"
    /\ stage' = CASE Adjusted.action = None /\ Adjusted.name = None -> "open"
                  [] (Adjusted.action = None) # (Adjusted.name = None) -> "usage"
                  [] Adjusted.action \in {"Create", "Dump", "SendKeys"} -> "other"
                  [] OTHER -> "attach"
    /\ opts' = [opts EXCEPT !.passthrough = Adjusted.passthrough]
    /\ given' = <<>>
    /\ o' = NoOpts
    /\ UNCHANGED <<pc, size, mode, handler, pending, intr, fds, ws, told, saved,
                   status, args, listVars>>

(* list_sessions: the directory is opened, with whatever is in it by then;  *)
(* other directories have sessions too.                                     *)
OpenDir ==
    /\ stage = "open"
    /\ usable' \in Usable
    /\ IF usable' = {}
         THEN stage' = "error" /\ UNCHANGED <<dir, left, lasting>>
         ELSE /\ stage' = "list"
              /\ \E d \in [Entries -> {"absent", "orphan", "live"}] :
                   dir' = [f \in Files |-> IF f \in Here' THEN d[Tail(f)] ELSE "live"]
              /\ left' = Here'
              /\ lasting' = {f \in Here' : dir'[f] = "live"}
    /\ UNCHANGED <<vars, given, args, o, at, printed>>

Listing == stage = "list" /\ at = NoFile

(* A connection to the entry f, unless it is of another host. *)
ListConnect(f) ==
    /\ Listing
    /\ f \in left
    /\ dir[f] = "live"
    /\ left' = left \ {f}
    /\ at' = IF OfHost(f) THEN f ELSE NoFile
    /\ UNCHANGED <<vars, stage, given, args, o, usable, dir, printed, lasting>>

(* Leaving the loop at an entry that refuses. *)
ListRefusedStops(f) ==
    /\ Listing
    /\ f \in left
    /\ dir[f] = "orphan"
    /\ stage' = "listed"
    /\ UNCHANGED <<vars, given, args, o, listVars>>

(* The entry f refuses and is skipped. *)
ListRefused(f) ==
    /\ Listing
    /\ f \in left
    /\ dir[f] = "orphan"
    /\ left' = left \ {f}
    /\ UNCHANGED <<vars, stage, given, args, o, usable, dir, at, printed, lasting>>

(* MSG_PID, and the line; or the end of a connection to a session that      *)
(* ended meanwhile.                                                         *)
ListAnswer ==
    /\ stage = "list"
    /\ at # NoFile
    /\ printed' = IF dir[at] = "live" THEN printed \cup {at} ELSE printed
    /\ at' = NoFile
    /\ UNCHANGED <<vars, stage, given, args, o, usable, dir, left, lasting>>

(* read_dir is done when it has given every entry that was there all the    *)
(* time; it may or may not give the others.                                 *)
ListEnd ==
    /\ Listing
    /\ lasting \cap left = {}
    /\ stage' = "listed"
    /\ UNCHANGED <<vars, given, args, o, listVars>>

-------------------------------------------------------------------------------
(* Other invocations, meanwhile: sessions begin, end and crash. *)
Becomes(f, s) ==
    /\ stage = "list"
    /\ f \in Here
    /\ dir' = [dir EXCEPT ![f] = s]
    /\ lasting' = lasting \ {f}
    /\ UNCHANGED <<vars, stage, given, args, o, usable, left, at, printed>>

SessionBegins(f) == dir[f] # "live" /\ Becomes(f, "live")
SessionEnds(f) == dir[f] = "live" /\ Becomes(f, "absent")
SessionCrashes(f) == dir[f] = "live" /\ Becomes(f, "orphan")

Final == {"usage", "version", "error", "other", "listed"}

CommandNext ==
    \/ ParseName \/ ParseOption \/ ParseValue \/ ParseVersion \/ ParseUnknown
    \/ ParseEnd \/ Dispatch
    \/ OpenDir \/ ListAnswer \/ ListEnd
    \/ \E f \in Files : \/ ListConnect(f) \/ ListRefused(f)
                        \/ SessionBegins(f) \/ SessionEnds(f) \/ SessionCrashes(f)
    \/ stage = "attach" /\ Next /\ UNCHANGED commandVars
    \/ stage \in Final /\ UNCHANGED <<vars, commandVars>>

CommandSpec == CommandInit /\ [][CommandNext]_<<vars, commandVars>>

-------------------------------------------------------------------------------
(* What a command line means, read off the line as a whole. *)

(* The i-th word is the value of the one before it: it follows an odd       *)
(* number of words in a row that take one.                                  *)
IsValue(line, i) ==
    \E k \in {n \in 1..(i - 1) : n % 2 = 1} :
      /\ \A j \in (i - k)..(i - 1) : line[j] \in Valued
      /\ i - k = 1 \/ line[i - k - 1] \notin Valued

(* Where the name is, or the end of the line. *)
NameAt(line) ==
    CHOOSE n \in 1..(Len(line) + 1) :
      /\ n <= Len(line) => line[n] \notin Dashed /\ ~IsValue(line, n)
      /\ \A i \in 1..(n - 1) : line[i] \in Dashed \/ IsValue(line, i)

Options(line) == {i \in 1..(NameAt(line) - 1) : ~IsValue(line, i)}

(* The last of the options that give a thing decides about it. *)
LastOf(line, words, What(_), default) ==
    LET S == {i \in Options(line) : line[i] \in words}
    IN  IF S = {} THEN default ELSE What(CHOOSE i \in S : \A j \in S : j <= i)

Has(line, w) == \E i \in Options(line) : line[i] = w

Meaning(line) ==
    LET n == NameAt(line)
        Size(i) == IF line[i] \in DOMAIN Joined THEN 5 ELSE Sizes[line[i + 1]]
    IN  [action      |-> LastOf(line, DOMAIN ActionOf, LAMBDA i : ActionOf[line[i]], None),
         name        |-> IF n <= Len(line) THEN line[n] ELSE None,
         rest        |-> SubSeq(line, n + 1, Len(line)),
         literal     |-> Has(line, "-x"),
         max_bytes   |-> LastOf(line, {"-N", "-N5"}, Size, 0),
         max_lines   |-> LastOf(line, {"-L", "-L5"}, Size, 0),
         flags       |-> {FlagOf[w] : w \in {v \in DOMAIN FlagOf : Has(line, v)}},
         quiet       |-> Has(line, "-q"),
         force       |-> Has(line, "-f"),
         passthrough |-> Has(line, "-p"),
         detach_key  |-> LastOf(line, {"-e"}, LAMBDA i : parse_detach_key(BytesOf(line[i + 1])), 28)]

(* However options, their values and the words of a command are mixed,      *)
(* parse_args finds what the line means: values that look like options are  *)
(* values, the last of several actions counts, and what follows the name    *)
(* reaches the command as it is.                                            *)
ParseMeans == stage = "main" => o = Meaning(given)

(* list_sessions shows every session this invocation could attach to by a   *)
(* name and that lives through the listing, whatever others begin, end or   *)
(* crash, of this host or another, while it connects to one after another.  *)
ListComplete ==
    stage = "listed" =>
      \A n \in Names : socket_path(n) \in lasting => socket_path(n) \in printed

(* The name on a line is the name of the session that answered: socket_path *)
(* leads from it back to the file.  A session whose own name ends with      *)
(* "@host" is the exception.                                                *)
Resolvable(file) == Len(file) = 3 \/ file[Len(file) - 1] # Host

ListResolves ==
    \A f \in printed : Resolvable(f) => socket_path(Trimmed(f)) = f
===============================================================================

---------------------------- MODULE LichInputProofs -----------------------------
(***************************************************************************)
(* What travels from the clients to the pty, proved for every value of the *)
(* constants: with room in the terminal nothing a client sends is lost     *)
(* from the middle or repeated, and the keys of a send-keys client arrive  *)
(* although it has gone.                                                   *)
(***************************************************************************)
EXTENDS LichSessionProofs, LichSequenceLemmas, FiniteSetTheorems

(* The terminal has room for all that all clients will ever send. *)
Roomy == PTYIN >= KEYS * Cardinality(Conn)

(* The packets of c that the server has not handled, in order. *)
Arriving(c) == client[c].buf \o up[c]

IsInput(p) == p.typ \in {"CONTENT", "SEND_KEYS"}

(* After m units of input the packet p takes the count to n. *)
Follows(p, m, n) ==
    IF IsInput(p) THEN m <= n /\ p.payload = OutputFrom(m, n) ELSE n = m

(* The packets ps carry the units m + 1 to n, one after the other: a[i] is  *)
(* the count before the i-th packet.                                        *)
CarriesUnits(ps, m, n) ==
    \E a \in [1..(Len(ps) + 1) -> 0..n] :
      /\ a[1] = m
      /\ a[Len(ps) + 1] = n
      /\ \A i \in 1..Len(ps) : Follows(ps[i], a[i], a[i + 1])

(* The units of c in s are none that come after the k-th. *)
UpTo(s, c, k) == \A i \in 1..Len(s) : s[i].conn = c => s[i].key <= k

(* Of the n units c has sent, the pty was given the first k, all of which   *)
(* it took if it is roomy, and the others are in packets not handled yet,   *)
(* as long as the server has not closed the connection.  A read-only client *)
(* sends none.                                                              *)
Tally(c, k, n) ==
    /\ Roomy => InputOf(c) = OutputFrom(0, k)
    /\ UpTo(input, c, k)
    /\ k <= n
    /\ n <= sent[c]
    /\ srvSock[c] # "closed" => /\ CarriesUnits(Arriving(c), k, n)
                                /\ n = IF Kind[c] = "readonly" THEN 0 ELSE sent[c]

(* Only a read-only client is taken for one: the MSG_ATTACH of any other    *)
(* carries no flags.                                                        *)
NoFlags == <<0>>

FlagsRight(c) ==
    Kind[c] # "readonly" /\ srvSock[c] # "closed" =>
      /\ client[c].flags = 0
      /\ \A i \in 1..Len(Arriving(c)) :
           Arriving(c)[i].typ = "ATTACH" => Arriving(c)[i].payload = NoFlags

(* A connection not accepted yet has an empty Client. *)
NotYet(c) == srvSock[c] \in {"none", "backlog"} => client[c].buf = <<>>

InputConn(c) == (\E k, n \in 0..sent[c] : Tally(c, k, n)) /\ FlagsRight(c) /\ NotYet(c)

(* The units of c's input among those in s. *)
InputIn(c, s) ==
    FlattenSeq([i \in 1..Len(s) |-> IF s[i].conn = c THEN <<s[i].key>> ELSE <<>>])

(* The units of each client are in s in the order they were sent in. *)
Ascends(s) ==
    \A i, j \in 1..Len(s) : i < j /\ s[i].conn = s[j].conn => s[i].key < s[j].key

(* They are also no more than their places allow. *)
Rises(s) ==
    /\ \A i \in 1..Len(s) : s[i].key \in 1..Len(InputIn(s[i].conn, s))
    /\ Ascends(s)

(* The only program that sends MSG_SEND_KEYS is the one behind "keys". *)
ProgramRight == \A c \in Conn : cpc[c] = "keys" => Kind[c] = "keys"

(* The pty holds no more than it was given. *)
InputInv ==
    /\ IndInv
    /\ ProgramRight
    /\ Ascends(input)
    /\ Roomy => Rises(input) /\ inq <= Len(input)
    /\ \A c \in Conn : InputConn(c)

-------------------------------------------------------------------------------
(* A send-keys client sends nothing but keys, and the server neither        *)
(* attaches it nor sends it a history.                                      *)
KeysProgram(c) ==
    /\ cpc[c] \in {"start", "pid", "keys", "done"}
    /\ cpc[c] \in {"pid", "keys"} => cliSock[c] = "open"
    /\ cpc[c] = "start" => cliSock[c] = "none"
    /\ srvSock[c] = "backlog" => cpc[c] \in {"pid", "done"}
    /\ cliSock[c] \in {"closed", "reset"} => cpc[c] = "done"
    /\ result[c] = "ok" => cpc[c] = "done" /\ sent[c] = KEYS
    /\ \A i \in 1..Len(Arriving(c)) : Arriving(c)[i].typ = "SEND_KEYS"
    /\ ~client[c].attached
    /\ ~(pc = "replay" /\ cur = c)

(* It is sent nothing but MSG_PID, so that its close is no reset. *)
KeysQuiet(c) ==
    /\ client[c].send_queue = <<>>
    /\ client[c].close_after_drain = "unset"
    /\ rbuf[c] = <<>>
    /\ cpc[c] = "keys" => down[c] = <<>>
    /\ cpc[c] = "pid" => down[c] = <<>> \/ (Len(down[c]) = 2 /\ down[c][1].val = 1)
    /\ result[c] = "ok" => cliSock[c] = "closed"

(* The server leaves the client only when the client has gone, and then     *)
(* there is nothing left to handle.                                         *)
KeysLeft(c) ==
    /\ client[c].disconnected =>
         cpc[c] = "done" /\ (result[c] = "ok" => Arriving(c) = <<>>)
    /\ pc = "handle" /\ cur = c /\ saw_eof => cpc[c] = "done" /\ up[c] = <<>>
    /\ srvSock[c] = "closed" =>
         cpc[c] = "done" /\ (result[c] = "ok" => InputOf(c) = OutputFrom(0, KEYS))

(* The session lives, its terminal has room, and fcntl works. *)
Calm == Roomy /\ child_exit = NoStatus /\ "fcntl" \notin Faults

KeysConn(c) == KeysProgram(c) /\ (Calm => KeysQuiet(c) /\ KeysLeft(c))

KeysInv == InputInv /\ \A c \in Conn : Kind[c] = "keys" => KeysConn(c)

-------------------------------------------------------------------------------
(* Packets and the units they carry. *)

LEMMA CarriesUnitsNone ==
    ASSUME NEW m \in Nat, NEW n \in Nat
    PROVE  CarriesUnits(<<>>, m, n) <=> m = n
<1>1. Len(<<>>) = 0
  OBVIOUS
<1>2. ASSUME CarriesUnits(<<>>, m, n) PROVE m = n
  BY <1>1, <1>2 DEF CarriesUnits
<1>3. ASSUME m = n PROVE CarriesUnits(<<>>, m, n)
  <2> DEFINE a == [i \in 1..1 |-> n]
  <2>1. a \in [1..1 -> 0..n] /\ a[1] = m
    BY <1>3
  <2> HIDE DEF a
  <2>2. Len(<<>>) + 1 = 1 /\ 1..Len(<<>>) = {}
    BY <1>1
  <2>3. a[Len(<<>>) + 1] = n /\ a \in [1..(Len(<<>>) + 1) -> 0..n]
    BY <1>3, <2>1, <2>2
  <2> QED
    BY <2>1, <2>2, <2>3 DEF CarriesUnits
<1> QED
  BY <1>2, <1>3

(* A packet more at the end. *)
LEMMA CarriesUnitsAppend ==
    ASSUME NEW ps \in Seq(Packet), NEW p \in Packet,
           NEW m \in Nat, NEW n \in Nat, NEW k \in Nat, n <= k,
           CarriesUnits(ps, m, n), Follows(p, n, k)
    PROVE  CarriesUnits(Append(ps, p), m, k)
<1>1. PICK l \in Nat : l = Len(ps)
  OBVIOUS
<1>2. PICK a \in [1..(l + 1) -> 0..n] :
             /\ a[1] = m /\ a[l + 1] = n
             /\ \A i \in 1..l : Follows(ps[i], a[i], a[i + 1])
  BY <1>1 DEF CarriesUnits
<1> DEFINE q == Append(ps, p)
           b == [i \in 1..(l + 2) |-> IF i = l + 2 THEN k ELSE a[i]]
<1>3. Len(q) = l + 1 /\ q[l + 1] = p /\ \A i \in 1..l : q[i] = ps[i]
  BY <1>1
<1>4. b \in [1..(l + 2) -> 0..k] /\ b[1] = m /\ b[l + 2] = k /\ b[l + 1] = n
  BY <1>2
<1>5. \A i \in 1..l : b[i] = a[i] /\ b[i + 1] = a[i + 1]
  OBVIOUS
<1> HIDE DEF q, b
<1>6. ASSUME NEW i \in 1..(l + 1) PROVE Follows(q[i], b[i], b[i + 1])
  <2>1. CASE i \in 1..l
    <3>1. Follows(ps[i], a[i], a[i + 1])
      BY <1>2, <2>1
    <3>2. q[i] = ps[i] /\ b[i] = a[i] /\ b[i + 1] = a[i + 1]
      BY <1>3, <1>5, <2>1
    <3> QED
      BY <3>1, <3>2
  <2>2. CASE i = l + 1
    <3>1. q[i] = p /\ b[i] = n /\ b[i + 1] = k
      BY <1>3, <1>4, <2>2
    <3> QED
      BY <3>1
  <2> QED
    BY <2>1, <2>2
<1>7. Len(q) + 1 = l + 2
  BY <1>3
<1>8. CarriesUnits(q, m, k)
  BY <1>3, <1>4, <1>6, <1>7 DEF CarriesUnits
<1> QED
  BY <1>8 DEF q

(* The first packet taken off. *)
LEMMA CarriesUnitsTail ==
    ASSUME NEW ps \in Seq(Packet), ps # <<>>,
           NEW m \in Nat, NEW n \in Nat, CarriesUnits(ps, m, n)
    PROVE  \E k \in 0..n : Follows(Head(ps), m, k) /\ CarriesUnits(Tail(ps), k, n)
<1>1. PICK l \in Nat : l + 1 = Len(ps)
  <2>1. Len(ps) \in Nat /\ Len(ps) # 0
    OBVIOUS
  <2>2. Len(ps) - 1 \in Nat /\ (Len(ps) - 1) + 1 = Len(ps)
    BY <2>1
  <2> QED
    BY <2>2
<1>2. PICK a \in [1..(l + 2) -> 0..n] :
             /\ a[1] = m /\ a[l + 2] = n
             /\ \A i \in 1..(l + 1) : Follows(ps[i], a[i], a[i + 1])
  <2>1. Len(ps) + 1 = l + 2
    BY <1>1
  <2> QED
    BY <1>1, <2>1 DEF CarriesUnits
<1> DEFINE q == Tail(ps)
           b == [i \in 1..(l + 1) |-> a[i + 1]]
<1>3. Len(q) = l /\ \A i \in 1..l : q[i] = ps[i + 1]
  BY <1>1
<1>4. b \in [1..(l + 1) -> 0..n] /\ b[1] = a[2] /\ b[l + 1] = n /\ a[2] \in 0..n
  BY <1>2
<1>5. \A i \in 1..l : b[i] = a[i + 1] /\ b[i + 1] = a[(i + 1) + 1]
  OBVIOUS
<1>6. Head(ps) = ps[1]
  OBVIOUS
<1>7. Follows(Head(ps), m, a[2])
  <2>1. 1 \in 1..(l + 1) /\ 1 + 1 = 2
    OBVIOUS
  <2> QED
    BY <1>2, <1>6, <2>1
<1> HIDE DEF q, b
<1>8. ASSUME NEW i \in 1..l PROVE Follows(q[i], b[i], b[i + 1])
  <2>1. i + 1 \in 1..(l + 1)
    OBVIOUS
  <2>2. Follows(ps[i + 1], a[i + 1], a[(i + 1) + 1])
    BY <1>2, <2>1
  <2> QED
    BY <1>3, <1>5, <2>2
<1>9. CarriesUnits(q, a[2], n)
  BY <1>3, <1>4, <1>8 DEF CarriesUnits
<1> QED
  BY <1>4, <1>7, <1>9 DEF q

-------------------------------------------------------------------------------
(* The input of one client, after a write to the pty. *)

Units == [conn : Conn, key : Nat]

(* The function InputOf(c) maps. *)
UnitOf(c) == [r \in Units |-> IF r.conn = c THEN <<r.key>> ELSE <<>>]

LEMMA InputMaps ==
    ASSUME NEW c \in Conn, NEW s \in Seq(Units)
    PROVE  InputIn(c, s) = FlatMap(UnitOf(c), s)
<1>1. \A i \in 1..Len(s) : s[i] \in Units
  OBVIOUS
<1>2. [i \in 1..Len(s) |-> IF s[i].conn = c THEN <<s[i].key>> ELSE <<>>]
        = [i \in 1..Len(s) |-> UnitOf(c)[s[i]]]
  BY <1>1 DEF UnitOf
<1> QED
  BY <1>2 DEF InputIn, FlatMap

LEMMA InputConcat ==
    ASSUME NEW c \in Conn, NEW s \in Seq(Units), NEW t \in Seq(Units)
    PROVE  /\ InputIn(c, s) \in Seq(Nat)
           /\ Joins(InputIn(c, s \o t), InputIn(c, s), InputIn(c, t))
<1>1. ASSUME NEW r \in Units PROVE UnitOf(c)[r] \in Seq(Nat)
  <2>1. r.key \in Nat
    BY DEF Units
  <2>2. <<r.key>> \in Seq(Nat) /\ <<>> \in Seq(Nat)
    BY <2>1
  <2> QED
    BY <2>2 DEF UnitOf
<1>2. /\ FlatMap(UnitOf(c), s) \in Seq(Nat)
      /\ Joins(FlatMap(UnitOf(c), s \o t), FlatMap(UnitOf(c), s), FlatMap(UnitOf(c), t))
  BY <1>1, FlatMapConcat
<1>3. s \o t \in Seq(Units)
  OBVIOUS
<1> QED
  BY <1>2, <1>3, InputMaps

(* What a client e has written to the pty is its own input and nobody       *)
(* else's.                                                                  *)
Written(e, keys) == [i \in 1..Len(keys) |-> [conn |-> e, key |-> keys[i]]]

LEMMA WrittenType ==
    ASSUME NEW e \in Conn, NEW keys \in Seq(Nat)
    PROVE  /\ Written(e, keys) \in Seq(Units)
           /\ Len(Written(e, keys)) = Len(keys)
           /\ \A i \in 1..Len(keys) : Written(e, keys)[i].conn = e /\ Written(e, keys)[i].key = keys[i]
<1>1. Len(keys) \in Nat /\ \A i \in 1..Len(keys) : keys[i] \in Nat
  OBVIOUS
<1>2. Written(e, keys) \in [1..Len(keys) -> Units]
  BY <1>1 DEF Written, Units
<1>3. Written(e, keys) \in Seq(Units) /\ Len(Written(e, keys)) = Len(keys)
  BY <1>1, <1>2
<1> QED
  BY <1>3 DEF Written

LEMMA InputWritten ==
    ASSUME NEW c \in Conn, NEW e \in Conn, NEW keys \in Seq(Nat)
    PROVE  InputIn(c, Written(e, keys)) = IF c = e THEN keys ELSE <<>>
<1> DEFINE w == Written(e, keys)
<1>1. Len(w) = Len(keys) /\ \A i \in 1..Len(keys) : w[i].conn = e /\ w[i].key = keys[i]
  BY WrittenType
<1> HIDE DEF w
<1>2. CASE c = e
  <2>1. [i \in 1..Len(w) |-> IF w[i].conn = c THEN <<w[i].key>> ELSE <<>>]
          = Singles(keys, Len(keys))
    BY <1>1, <1>2 DEF Singles
  <2>2. FlattenSeq(Singles(keys, Len(keys))) = keys
    BY FlattenSingles
  <2> QED
    BY <1>2, <2>1, <2>2 DEF InputIn, w
<1>3. CASE c # e
  <2>1. [i \in 1..Len(w) |-> IF w[i].conn = c THEN <<w[i].key>> ELSE <<>>]
          = Blanks(Len(keys))
    BY <1>1, <1>3 DEF Blanks
  <2>2. Len(keys) \in Nat
    OBVIOUS
  <2>3. FlattenSeq(Blanks(Len(keys))) = <<>>
    BY <2>2, FlattenBlanks
  <2> QED
    BY <1>3, <2>1, <2>3 DEF InputIn, w
<1> QED
  BY <1>2, <1>3

(* The numbers up to k, and then those up to n. *)
LEMMA OutputJoins ==
    ASSUME NEW k \in Nat, NEW n \in Nat, k <= n
    PROVE  /\ OutputFrom(k, n) \in Seq(Nat) /\ Len(OutputFrom(k, n)) = n - k
           /\ \A i \in 1..(n - k) : OutputFrom(k, n)[i] = k + i
           /\ Joins(OutputFrom(0, n), OutputFrom(0, k), OutputFrom(k, n))
<1>1. ASSUME NEW a \in Nat, NEW b \in Nat, a <= b
      PROVE  /\ OutputFrom(a, b) \in Seq(Nat)
             /\ Len(OutputFrom(a, b)) = b - a
             /\ \A i \in 1..(b - a) : OutputFrom(a, b)[i] = a + i
  <2>1. b - a \in Nat /\ OutputFrom(a, b) \in [1..(b - a) -> Nat]
    BY <1>1 DEF OutputFrom
  <2>2. OutputFrom(a, b) \in Seq(Nat) /\ Len(OutputFrom(a, b)) = b - a
    BY <2>1
  <2> QED
    BY <2>2 DEF OutputFrom
<1> DEFINE u == OutputFrom(0, k)
           v == OutputFrom(k, n)
           w == OutputFrom(0, n)
<1>2. /\ u \in Seq(Nat) /\ Len(u) = k /\ \A i \in 1..k : u[i] = i
      /\ v \in Seq(Nat) /\ Len(v) = n - k /\ \A i \in 1..(n - k) : v[i] = k + i
      /\ w \in Seq(Nat) /\ Len(w) = n /\ \A i \in 1..n : w[i] = i
  <2>1. /\ u \in Seq(Nat) /\ Len(u) = k - 0 /\ \A i \in 1..(k - 0) : u[i] = 0 + i
    BY <1>1
  <2>2. /\ v \in Seq(Nat) /\ Len(v) = n - k /\ \A i \in 1..(n - k) : v[i] = k + i
    BY <1>1
  <2>3. /\ w \in Seq(Nat) /\ Len(w) = n - 0 /\ \A i \in 1..(n - 0) : w[i] = 0 + i
    BY <1>1
  <2> HIDE DEF u, v, w
  <2> QED
    BY <2>1, <2>2, <2>3
<1> HIDE DEF u, v, w
<1>3. u \o v \in Seq(Nat) /\ Len(u \o v) = n
  BY <1>2
<1>4. ASSUME NEW i \in 1..n PROVE (u \o v)[i] = w[i]
  <2>1. (u \o v)[i] = IF i <= k THEN u[i] ELSE v[i - k]
    BY <1>2
  <2> QED
    BY <1>2, <2>1
<1>5. w = u \o v
  <2> DEFINE r == u \o v
  <2>1. r \in Seq(Nat) /\ Len(r) = n /\ \A i \in 1..n : r[i] = w[i]
    BY <1>3, <1>4
  <2> HIDE DEF r
  <2>2. r = w
    BY <1>2, <2>1, SameSeq
  <2> QED
    BY <2>2 DEF r
<1> QED
  BY <1>2, <1>5 DEF Joins, u, v, w

-------------------------------------------------------------------------------
(* Room in the terminal. *)

(* A write of the units that come next keeps them apart. *)
LEMMA RisesWritten ==
    ASSUME NEW s \in Seq(Units), Rises(s), NEW e \in Conn,
           NEW k \in Nat, NEW n \in Nat, k <= n, InputIn(e, s) = OutputFrom(0, k)
    PROVE  Rises(s \o Written(e, OutputFrom(k, n)))
<1> DEFINE keys == OutputFrom(k, n)
           w == Written(e, keys)
           t == s \o w
<1>1. keys \in Seq(Nat) /\ Len(keys) = n - k /\ \A i \in 1..(n - k) : keys[i] = k + i
  BY OutputJoins
<1>2. Len(OutputFrom(0, k)) = k
  <2>1. Len(OutputFrom(0, k)) = k - 0
    BY OutputJoins
  <2> QED
    BY <2>1
<1> HIDE DEF keys
<1>3. /\ w \in Seq(Units) /\ Len(w) = n - k
      /\ \A i \in 1..(n - k) : w[i].conn = e /\ w[i].key = k + i
  BY <1>1, WrittenType
<1> HIDE DEF w
<1>4. ASSUME NEW c \in Conn
      PROVE  /\ Len(InputIn(c, s)) \in Nat
             /\ Len(InputIn(c, t)) = IF c = e THEN n ELSE Len(InputIn(c, s))
  <2>1. /\ InputIn(c, s) \in Seq(Nat)
        /\ Joins(InputIn(c, t), InputIn(c, s), InputIn(c, w))
    BY <1>3, InputConcat
  <2>2. InputIn(c, w) = IF c = e THEN keys ELSE <<>>
    BY <1>1, InputWritten DEF w
  <2>3. PICK u : u = InputIn(c, w)
    OBVIOUS
  <2>4. u \in Seq(Nat) /\ Len(u) = IF c = e THEN n - k ELSE 0
    <3>1. CASE c = e
      BY <1>1, <2>2, <2>3, <3>1
    <3>2. CASE c # e
      <4>1. u = <<>>
        BY <2>2, <2>3, <3>2
      <4> QED
        BY <3>2, <4>1
    <3> QED
      BY <3>1, <3>2
  <2>5. PICK v \in Seq(Nat) : v = InputIn(c, s)
    BY <2>1
  <2>6. Len(v \o u) = Len(v) + Len(u) /\ Len(v) \in Nat
    <3>1. u \in Seq(Nat)
      BY <2>4
    <3> QED
      BY <3>1, ConcatProperties
  <2>7. Len(InputIn(c, t)) = Len(v) + Len(u)
    BY <2>1, <2>3, <2>5, <2>6 DEF Joins
  <2>8. c = e => Len(v) = k
    BY <1>2, <2>5
  <2> HIDE DEF t
  <2>9. CASE c = e
    BY <2>4, <2>5, <2>6, <2>7, <2>8, <2>9
  <2>10. CASE c # e
    BY <2>4, <2>5, <2>6, <2>7, <2>10
  <2> QED
    BY <2>9, <2>10
<1>5. PICK l \in Nat : l = Len(s)
  OBVIOUS
<1>6. /\ t \in Seq(Units) /\ Len(t) = l + (n - k)
      /\ \A i \in 1..(l + (n - k)) : t[i] = IF i <= l THEN s[i] ELSE w[i - l]
  <2>1. w \in Seq(Units) /\ Len(w) = n - k
    BY <1>3
  <2>2. /\ t \in Seq(Units) /\ Len(t) = Len(s) + Len(w)
        /\ \A i \in 1..(Len(s) + Len(w)) : t[i] = IF i <= Len(s) THEN s[i] ELSE w[i - Len(s)]
    BY <2>1, ConcatProperties
  <2> HIDE DEF t
  <2> QED
    BY <1>5, <2>1, <2>2
<1>7. ASSUME NEW i \in 1..l
      PROVE  s[i].conn \in Conn /\ s[i].key \in 1..Len(InputIn(s[i].conn, s)) /\ s[i].key \in Nat
  <2>1. s[i] \in Units
    BY <1>5
  <2> QED
    BY <1>5, <2>1 DEF Rises, Units
<1> HIDE DEF t
<1>8. ASSUME NEW i \in 1..(l + (n - k))
      PROVE  t[i].key \in 1..Len(InputIn(t[i].conn, t))
  <2>1. CASE i <= l
    <3>1. i \in 1..l /\ t[i] = s[i]
      BY <1>6, <2>1
    <3>2. s[i].conn = e => Len(InputIn(s[i].conn, s)) = k
      BY <1>2
    <3> QED
      BY <1>4, <1>7, <3>1, <3>2
  <2>2. CASE ~(i <= l)
    <3>1. i - l \in 1..(n - k) /\ t[i] = w[i - l]
      BY <1>6, <2>2
    <3>2. t[i].conn = e /\ t[i].key = k + (i - l)
      BY <1>3, <3>1
    <3> QED
      BY <1>4, <3>1, <3>2
  <2> QED
    BY <2>1, <2>2
<1>9. ASSUME NEW i \in 1..(l + (n - k)), NEW j \in 1..(l + (n - k)),
             i < j, t[i].conn = t[j].conn
      PROVE  t[i].key < t[j].key
  <2>1. CASE j <= l
    <3>1. i \in 1..l /\ j \in 1..l /\ t[i] = s[i] /\ t[j] = s[j]
      BY <1>6, <1>9, <2>1, SMTT(30)
    <3> QED
      BY <1>5, <1>9, <3>1 DEF Rises, Ascends
  <2>2. CASE ~(j <= l) /\ i <= l
    <3>1. j - l \in 1..(n - k) /\ t[j] = w[j - l] /\ i \in 1..l /\ t[i] = s[i]
      BY <1>6, <2>2
    <3>2. t[j].conn = e /\ t[j].key = k + (j - l)
      BY <1>3, <3>1
    <3>3. s[i].key \in 1..k
      BY <1>2, <1>7, <1>9, <3>1, <3>2
    <3> QED
      BY <3>1, <3>2, <3>3
  <2>3. CASE ~(j <= l) /\ ~(i <= l)
    <3>1. /\ j - l \in 1..(n - k) /\ t[j] = w[j - l]
          /\ i - l \in 1..(n - k) /\ t[i] = w[i - l]
      BY <1>6, <2>3
    <3>2. t[j].key = k + (j - l) /\ t[i].key = k + (i - l)
      BY <1>3, <3>1
    <3> QED
      BY <1>9, <3>2
  <2> QED
    BY <2>1, <2>2, <2>3
<1>10. Rises(t)
  BY <1>6, <1>8, <1>9 DEF Rises, Ascends
<1> QED
  BY <1>10 DEF t, w, keys

(* Also a write of only the first m of them keeps the units in order. *)
LEMMA AscendsWritten ==
    ASSUME NEW s \in Seq(Units), Ascends(s), NEW e \in Conn,
           NEW k \in Nat, NEW n \in Nat, UpTo(s, e, k), NEW m \in 0..(n - k),
           NEW w, w = [i \in 1..m |-> [conn |-> e, key |-> OutputFrom(k, n)[i]]]
    PROVE  /\ Ascends(s \o w)
           /\ UpTo(s \o w, e, n)
           /\ \A c \in Conn, a \in Nat : c # e /\ UpTo(s, c, a) => UpTo(s \o w, c, a)
<1>1. m \in Nat /\ m <= n - k /\ \A i \in 1..m : OutputFrom(k, n)[i] = k + i
  BY DEF OutputFrom
<1>2. /\ w \in Seq(Units) /\ Len(w) = m
      /\ \A i \in 1..m : w[i].conn = e /\ w[i].key = k + i
  <2>1. ASSUME NEW i \in 1..m
        PROVE  w[i] = [conn |-> e, key |-> k + i] /\ w[i] \in Units
    <3>1. w[i] = [conn |-> e, key |-> k + i]
      BY <1>1
    <3>2. k + i \in Nat
      BY <1>1
    <3>. QED
      BY <3>1, <3>2 DEF Units
  <2>2. w \in [1..m -> Units]
    BY <2>1
  <2>. QED
    BY <1>1, <2>1, <2>2
<1>3. PICK l \in Nat : l = Len(s)
  OBVIOUS
<1>4. PICK t : t = s \o w
  OBVIOUS
<1>5. /\ Len(t) = l + m
      /\ \A i \in 1..(l + m) : t[i] = IF i <= l THEN s[i] ELSE w[i - l]
  BY <1>2, <1>3, <1>4, ConcatProperties
<1>6. \A i \in 1..l : s[i].key \in Nat
  <2>1. \A i \in 1..l : s[i] \in Units
    BY <1>3
  <2>. QED
    BY <2>1 DEF Units
<1>7. \A i \in 1..(l + m) :
        \/ i \in 1..l /\ t[i] = s[i]
        \/ i \in (l + 1)..(l + m) /\ t[i].conn = e /\ t[i].key = k + (i - l)
  <2>1. ASSUME NEW i \in 1..(l + m), ~(i <= l)
        PROVE  i \in (l + 1)..(l + m) /\ t[i].conn = e /\ t[i].key = k + (i - l)
    <3>1. i - l \in 1..m /\ i \in (l + 1)..(l + m)
      BY <1>1, <2>1
    <3>. QED
      BY <1>2, <1>5, <2>1, <3>1
  <2>2. ASSUME NEW i \in 1..(l + m), i <= l PROVE i \in 1..l /\ t[i] = s[i]
    BY <1>5, <2>2
  <2>. QED
    BY <2>1, <2>2
<1>8. UpTo(t, e, n)
  <2>. SUFFICES ASSUME NEW i \in 1..(l + m), t[i].conn = e PROVE t[i].key <= n
    BY <1>5 DEF UpTo
  <2>1. CASE i \in 1..l /\ t[i] = s[i]
    BY <1>1, <1>3, <1>6, <2>1 DEF UpTo
  <2>2. CASE i \in (l + 1)..(l + m) /\ t[i].key = k + (i - l)
    BY <1>1, <2>2
  <2>. QED
    BY <1>7, <2>1, <2>2
<1>9. ASSUME NEW c \in Conn, NEW a \in Nat, c # e, UpTo(s, c, a) PROVE UpTo(t, c, a)
  <2>. SUFFICES ASSUME NEW i \in 1..(l + m), t[i].conn = c PROVE t[i].key <= a
    BY <1>5 DEF UpTo
  <2>1. i \in 1..l /\ t[i] = s[i]
    BY <1>7, <1>9
  <2>. QED
    BY <1>3, <1>9, <2>1 DEF UpTo
<1>10. Ascends(t)
  <2>. SUFFICES ASSUME NEW i \in 1..(l + m), NEW j \in 1..(l + m), i < j, t[i].conn = t[j].conn
                PROVE  t[i].key < t[j].key
    BY <1>5 DEF Ascends
  <2>1. CASE j \in 1..l
    <3>1. i \in 1..l
      BY <2>1
    <3>2. t[i] = s[i] /\ t[j] = s[j]
      BY <1>7, <2>1, <3>1
    <3>. QED
      BY <1>3, <2>1, <3>1, <3>2 DEF Ascends
  <2>2. CASE j \notin 1..l /\ i \in 1..l
    <3>1. t[i] = s[i] /\ t[j].conn = e /\ t[j].key = k + (j - l) /\ j - l >= 1
      BY <1>7, <2>2
    <3>2. s[i].key <= k
      BY <1>3, <2>2, <3>1 DEF UpTo
    <3>. QED
      BY <1>6, <2>2, <3>1, <3>2
  <2>3. CASE j \notin 1..l /\ i \notin 1..l
    BY <1>7, <2>3
  <2>. QED
    BY <2>1, <2>2, <2>3
<1>. QED
  BY <1>4, <1>8, <1>9, <1>10

(* Units that are all different are no more than there can be. *)
LEMMA RisesBound ==
    ASSUME NEW s \in Seq(Units), Rises(s),
           \A c \in Conn : Len(InputIn(c, s)) <= KEYS
    PROVE  Len(s) <= KEYS * Cardinality(Conn)
<1>1. Len(s) \in Nat /\ KEYS \in Nat
  BY BoundAssumption
<1> DEFINE T == Conn \X (1..KEYS)
           f == [i \in 1..Len(s) |-> <<s[i].conn, s[i].key>>]
<1>2. ASSUME NEW i \in 1..Len(s)
      PROVE  s[i].conn \in Conn /\ s[i].key \in 1..KEYS
  <2>0. s[i] \in Units
    OBVIOUS
  <2>1. s[i].conn \in Conn
    BY <2>0 DEF Units
  <2>2. s[i].key \in 1..Len(InputIn(s[i].conn, s))
    BY DEF Rises
  <2>3. Len(InputIn(s[i].conn, s)) \in Nat
    <3>1. InputIn(s[i].conn, s) \in Seq(Nat)
      BY <2>1, InputConcat
    <3> QED
      BY <3>1
  <2> QED
    BY <1>1, <2>1, <2>2, <2>3
<1>3. f \in [1..Len(s) -> T]
  BY <1>2
<1>4. ASSUME NEW i \in 1..Len(s), NEW j \in 1..Len(s), f[i] = f[j] PROVE i = j
  <2>1. s[i].conn = s[j].conn /\ s[i].key = s[j].key
    BY <1>4
  <2>2. s[i].key \in Nat
    BY <1>2
  <2>3. ~(i < j) /\ ~(j < i)
    BY <2>1, <2>2 DEF Rises, Ascends
  <2> QED
    BY <2>3
<1>5. f \in Injection(1..Len(s), T)
  <2> HIDE DEF f, T
  <2> QED
    BY <1>3, <1>4 DEF Injection, IsInjective
<1>6. IsFiniteSet(1..KEYS) /\ Cardinality(1..KEYS) = KEYS
  <2>1. 1 \in Int /\ KEYS \in Int
    BY <1>1
  <2>2. IsFiniteSet(1..KEYS) /\ Cardinality(1..KEYS) = IF 1 > KEYS THEN 0 ELSE KEYS - 1 + 1
    BY <2>1, FS_Interval
  <2> QED
    BY <1>1, <2>2
<1>7. IsFiniteSet(T) /\ Cardinality(T) = Cardinality(Conn) * KEYS
  BY <1>6, FiniteAssumption, FS_Product
<1>8. Cardinality(1..Len(s)) <= Cardinality(T)
  <2> HIDE DEF f, T
  <2> QED
    BY <1>5, <1>7, FS_Injection
<1>9. Cardinality(1..Len(s)) = Len(s)
  <2>1. 1 \in Int /\ Len(s) \in Int
    BY <1>1
  <2>2. Cardinality(1..Len(s)) = IF 1 > Len(s) THEN 0 ELSE Len(s) - 1 + 1
    BY <2>1, FS_Interval
  <2> QED
    BY <1>1, <2>2
<1>10. Cardinality(Conn) \in Nat
  BY FiniteAssumption, FS_CardinalityType
<1>11. Cardinality(Conn) * KEYS = KEYS * Cardinality(Conn)
  <2>1. \A a, b \in Nat : a * b = b * a
    OBVIOUS
  <2> QED
    BY <1>1, <1>10, <2>1
<1> HIDE DEF T
<1> QED
  BY <1>7, <1>8, <1>9, <1>11

-------------------------------------------------------------------------------
(* Steps and one connection's input. *)

LEMMA InputTypes ==
    ASSUME IndInv
    PROVE  /\ input \in Seq(Units) /\ inq \in Nat
           /\ \A c \in Conn : /\ client[c] \in Client /\ up[c] \in Seq(Packet)
                              /\ client[c].buf \in Seq(Packet)
                              /\ Arriving(c) \in Seq(Packet)
                              /\ sent[c] \in Nat /\ sent[c] <= KEYS
           /\ clients = {c \in Conn : srvSock[c] = "open"}
<1>1. ValuesInv /\ TablesInv
  BY InvSplit
<1>2. ASSUME NEW c \in Conn
      PROVE  /\ client[c] \in Client /\ up[c] \in Seq(Packet)
             /\ client[c].buf \in Seq(Packet)
             /\ sent[c] \in Nat /\ sent[c] <= KEYS
  BY <1>1 DEF TablesInv, ClientTypeOK, ConnInStep, Client
<1>3. ASSUME NEW c \in Conn PROVE Arriving(c) \in Seq(Packet)
  BY <1>2, ConcatProperties DEF Arriving
<1> QED
  BY <1>1, <1>2, <1>3 DEF ValuesInv, TablesInv, Units

(* Nothing of what c sent changes its place. *)
Untouched(c) ==
    /\ input' = input
    /\ sent'[c] = sent[c]
    /\ Arriving(c)' = Arriving(c)
    /\ client'[c].flags \in {client[c].flags, 0}
    /\ srvSock[c] = "closed" => srvSock'[c] = "closed"
    /\ NotYet(c)'

LEMMA StillConn ==
    ASSUME NEW c \in Conn, InputConn(c), Untouched(c)
    PROVE  InputConn(c)'
<1>1. InputOf(c)' = InputOf(c)
  BY DEF Untouched, InputOf
<1>2. PICK k \in 0..sent[c], n \in 0..sent[c] : Tally(c, k, n)
  BY DEF InputConn
<1>3. Tally(c, k, n)'
  BY <1>1, <1>2 DEF Untouched, Tally
<1>4. \E k1, n1 \in 0..sent'[c] : Tally(c, k1, n1)'
  BY <1>2, <1>3 DEF Untouched
<1>5. FlagsRight(c)'
  BY DEF Untouched, FlagsRight, InputConn
<1> QED
  BY <1>4, <1>5 DEF InputConn, Untouched

(* The server has closed the connection. *)
LEMMA ClosedConn ==
    ASSUME NEW c \in Conn, IndInv, InputConn(c),
           input' = input, sent'[c] \in Nat, sent[c] <= sent'[c],
           srvSock'[c] = "closed"
    PROVE  InputConn(c)'
<1>1. InputOf(c)' = InputOf(c)
  BY DEF InputOf
<1>2. PICK k \in 0..sent[c], n \in 0..sent[c] : Tally(c, k, n)
  BY DEF InputConn
<1>3. sent[c] \in Nat
  BY InputTypes
<1>4. k \in 0..sent'[c] /\ n \in 0..sent'[c]
  BY <1>2, <1>3
<1>5. Tally(c, k, n)'
  BY <1>1, <1>2, <1>3, <1>4 DEF Tally
<1> QED
  BY <1>4, <1>5 DEF InputConn, NotYet, FlagsRight

(* c sends a packet. *)
LEMMA SendsConn ==
    ASSUME NEW c \in Conn, IndInv, InputConn(c), NEW p \in Packet,
           input' = input, client' = client, srvSock' = srvSock,
           up'[c] = Append(up[c], p),
           sent'[c] \in Nat, sent[c] <= sent'[c],
           Kind[c] = "readonly" => ~IsInput(p),
           Kind[c] # "readonly" => Follows(p, sent[c], sent'[c]),
           Kind[c] # "readonly" /\ p.typ = "ATTACH" => p.payload = NoFlags
    PROVE  InputConn(c)'
<1>1. InputOf(c)' = InputOf(c)
  BY DEF InputOf
<1>2. PICK k \in 0..sent[c], n \in 0..sent[c] : Tally(c, k, n)
  BY DEF InputConn
<1>3. /\ sent[c] \in Nat /\ Arriving(c) \in Seq(Packet)
      /\ client[c].buf \in Seq(Packet) /\ up[c] \in Seq(Packet)
  BY InputTypes
<1>4. Arriving(c)' = Append(Arriving(c), p)
  <2>1. AppendsAfter(client[c].buf, up[c], p)
    BY <1>3, ConcatAppend
  <2> QED
    BY <2>1 DEF Arriving, AppendsAfter
<1>0. PICK m : m = IF Kind[c] = "readonly" \/ srvSock[c] = "closed" THEN n ELSE sent'[c]
  OBVIOUS
<1>5. m \in 0..sent'[c] /\ k \in 0..sent'[c] /\ n <= m /\ k <= m
  BY <1>0, <1>2, <1>3 DEF Tally
<1>6. ASSUME srvSock[c] # "closed" PROVE CarriesUnits(Arriving(c), k, n) /\ Follows(p, n, m)
  <2>1. CarriesUnits(Arriving(c), k, n) /\ n = IF Kind[c] = "readonly" THEN 0 ELSE sent[c]
    BY <1>2, <1>6 DEF Tally
  <2>2. CASE Kind[c] = "readonly"
    BY <1>0, <2>1, <2>2 DEF Follows
  <2>3. CASE Kind[c] # "readonly"
    BY <1>0, <1>6, <2>1, <2>3
  <2> QED
    BY <2>1, <2>2, <2>3
<1>7. srvSock[c] # "closed" => m = IF Kind[c] = "readonly" THEN 0 ELSE sent'[c]
  BY <1>0, <1>2 DEF Tally
<1>8. m \in Nat /\ n \in Nat /\ k \in Nat
  BY <1>2, <1>3, <1>5
<1>9. srvSock[c] # "closed" => CarriesUnits(Append(Arriving(c), p), k, m)
  BY <1>3, <1>5, <1>6, <1>8, CarriesUnitsAppend
<1>10. Tally(c, k, m)'
  BY <1>1, <1>2, <1>4, <1>5, <1>7, <1>9 DEF Tally
<1>11. FlagsRight(c)'
  <2>1. SUFFICES ASSUME Kind[c] # "readonly", srvSock[c] # "closed"
                 PROVE  /\ client'[c].flags = 0
                        /\ \A i \in 1..Len(Arriving(c)') :
                             Arriving(c)'[i].typ = "ATTACH" => Arriving(c)'[i].payload = NoFlags
    BY DEF FlagsRight
  <2>2. /\ Len(Append(Arriving(c), p)) = Len(Arriving(c)) + 1
        /\ \A i \in 1..(Len(Arriving(c)) + 1) :
             Append(Arriving(c), p)[i] = IF i = Len(Arriving(c)) + 1 THEN p ELSE Arriving(c)[i]
        /\ Len(Arriving(c)) \in Nat
    BY <1>3, AppendProperties
  <2>3. /\ client[c].flags = 0
        /\ \A i \in 1..Len(Arriving(c)) :
             Arriving(c)[i].typ = "ATTACH" => Arriving(c)[i].payload = NoFlags
    BY <2>1 DEF InputConn, FlagsRight
  <2>4. ASSUME NEW i \in 1..(Len(Arriving(c)) + 1), Append(Arriving(c), p)[i].typ = "ATTACH"
        PROVE  Append(Arriving(c), p)[i].payload = NoFlags
    <3>1. CASE i = Len(Arriving(c)) + 1
      <4>1. Append(Arriving(c), p)[i] = p
        BY <2>2, <3>1
      <4> QED
        BY <2>1, <2>4, <4>1
    <3>2. CASE i # Len(Arriving(c)) + 1
      <4>1. i \in 1..Len(Arriving(c)) /\ Append(Arriving(c), p)[i] = Arriving(c)[i]
        BY <2>2, <3>2
      <4> QED
        BY <2>3, <2>4, <4>1
    <3> QED
      BY <3>1, <3>2
  <2> QED
    BY <1>4, <2>2, <2>3, <2>4
<1>12. NotYet(c)'
  BY DEF InputConn, NotYet
<1> QED
  BY <1>5, <1>10, <1>11, <1>12 DEF InputConn

(* A read-only client's key goes nowhere. *)
LEMMA ReadonlyConn ==
    ASSUME NEW c \in Conn, IndInv, InputConn(c), Kind[c] = "readonly",
           input' = input, client' = client, srvSock' = srvSock, up'[c] = up[c],
           sent'[c] \in Nat, sent[c] <= sent'[c]
    PROVE  InputConn(c)'
<1>1. InputOf(c)' = InputOf(c) /\ Arriving(c)' = Arriving(c)
  BY DEF InputOf, Arriving
<1>2. PICK k \in 0..sent[c], n \in 0..sent[c] : Tally(c, k, n)
  BY DEF InputConn
<1>3. sent[c] \in Nat
  BY InputTypes
<1>4. k \in 0..sent'[c] /\ n \in 0..sent'[c] /\ k <= n
  BY <1>2, <1>3 DEF Tally
<1>5. Tally(c, k, n)'
  BY <1>1, <1>2, <1>4 DEF Tally
<1>6. FlagsRight(c)' /\ NotYet(c)'
  BY DEF FlagsRight, NotYet, InputConn
<1> QED
  BY <1>4, <1>5, <1>6 DEF InputConn

-------------------------------------------------------------------------------
(* A client's step, as far as its input is concerned. *)

(* Nothing is sent; the connection may be a new one. *)
Silent(c) ==
    /\ UNCHANGED <<up, sent>>
    /\ srvSock' = srvSock \/ (/\ srvSock[c] = "none"
                             /\ srvSock' = [srvSock EXCEPT ![c] = "backlog"])

(* Keys are taken that go nowhere. *)
Wasted(c) ==
    /\ UNCHANGED <<up, srvSock>>
    /\ \E n \in Nat : sent' = [sent EXCEPT ![c] = sent[c] + n]
    /\ srvSock[c] = "closed" \/ Kind[c] = "readonly"

(* The packet p is sent, with n units of input in it. *)
Sends(c, p, n) ==
    /\ UNCHANGED srvSock
    /\ up' = [up EXCEPT ![c] = Append(up[c], p)]
    /\ sent' = [sent EXCEPT ![c] = sent[c] + n]
    /\ IF Kind[c] = "readonly" THEN ~IsInput(p) ELSE Follows(p, sent[c], sent[c] + n)
    /\ Kind[c] # "readonly" /\ p.typ = "ATTACH" => p.payload = NoFlags

ClientMove(c) ==
    /\ UNCHANGED <<input, inq, client>>
    /\ Silent(c) \/ Wasted(c) \/ \E p \in Packet, n \in Nat : Sends(c, p, n)

(* A packet without input. *)
LEMMA SendsOther ==
    ASSUME NEW c \in Conn, IndInv, NEW p \in Packet, ~IsInput(p),
           Kind[c] # "readonly" /\ p.typ = "ATTACH" => p.payload = NoFlags,
           UNCHANGED <<srvSock, sent>>,
           up' = [up EXCEPT ![c] = Append(up[c], p)]
    PROVE  Sends(c, p, 0)
<1>1. sent[c] \in Nat /\ sent \in [Conn -> Nat]
  BY InvSplit DEF TablesInv, ClientTypeOK
<1>2. sent[c] + 0 = sent[c] /\ sent' = [sent EXCEPT ![c] = sent[c] + 0]
  BY <1>1
<1>3. Follows(p, sent[c], sent[c] + 0)
  BY <1>2 DEF Follows
<1> QED
  BY <1>2, <1>3 DEF Sends

LEMMA SendOrFailMove ==
    ASSUME NEW c \in Conn, IndInv, NEW p \in Packet, ~IsInput(p), NEW next,
           Kind[c] # "readonly" /\ p.typ = "ATTACH" => p.payload = NoFlags,
           UNCHANGED <<srvSock, sent>>, SendOrFail(c, p, next)
    PROVE  Silent(c) \/ Sends(c, p, 0)
<1>1. CASE srvSock[c] = "closed"
  BY <1>1 DEF SendOrFail, Silent
<1>2. CASE srvSock[c] # "closed"
  BY <1>2, SendsOther DEF SendOrFail
<1> QED
  BY <1>1, <1>2

LEMMA ClientMoves ==
    ASSUME IndInv, ProgramRight, NEW c \in Conn, ClientRuns(c) \/ ClientUser(c),
           UNCHANGED serverVars
    PROVE  ClientMove(c)
<1>0. UNCHANGED <<input, inq, client>>
  <2>1. client' = client
    BY DEF serverVars
  <2>2. UNCHANGED <<input, inq>>
    BY DEF ClientRuns, ClientUser, Connect, ConnectRefused, RecvPart, RecvFail, RecvPid,
           RecvLoop, RecvExit, RecvDump, SendAttach, send_resize, SendDump, SendKeys,
           StdinEmpty, SelectStdin, StdinKey, StdinDetach, StdinEof, Killed,
           kernelVars, ptyVars
  <2> QED
    BY <2>1, <2>2
<1>1. CASE Connect(c)
  <2>1. srvSock[c] = "none"
    BY <1>1, InvSplit DEF Connect, TablesInv, ConnInStep
  <2> QED
    BY <1>0, <1>1, <2>1 DEF Connect, ClientMove, Silent
<1>2. CASE \/ ConnectRefused(c) \/ RecvPart(c) \/ RecvFail(c) \/ RecvPid(c) \/ RecvLoop(c)
           \/ RecvDump(c) \/ StdinEmpty(c) \/ SelectStdin(c) \/ StdinEof(c) \/ Killed(c)
  <2>1. UNCHANGED <<up, sent, srvSock>>
    BY <1>2 DEF ConnectRefused, RecvPart, RecvFail, RecvPid, RecvLoop, RecvDump,
                StdinEmpty, SelectStdin, StdinEof, Killed, kernelVars, sockVars
  <2> QED
    BY <1>0, <2>1 DEF ClientMove, Silent
<1>3. CASE RecvExit(c)
  <2>1. /\ Whole(c) /\ RecvPacket(c).typ = "EXIT" /\ UNCHANGED <<srvSock, sent>>
        /\ up' = IF srvSock[c] = "closed" THEN up
                 ELSE [up EXCEPT ![c] = Append(up[c], RecvPacket(c))]
    BY <1>3 DEF RecvExit
  <2>2. RecvPacket(c) \in Packet
    <3>1. RecvPacket(c).payload \in Seq(Nat)
      BY <2>1, RecvType
    <3> QED
      BY <2>1, <3>1 DEF RecvPacket, CellsPacket, Packet, MsgType
  <2>3. PICK p \in Packet : p = RecvPacket(c)
    BY <2>2
  <2>4. ~IsInput(p) /\ p.typ # "ATTACH"
    BY <2>1, <2>3 DEF IsInput
  <2>5. CASE srvSock[c] = "closed"
    BY <1>0, <2>1, <2>5 DEF ClientMove, Silent
  <2>6. CASE srvSock[c] # "closed"
    <3>1. Sends(c, p, 0)
      BY <2>1, <2>3, <2>4, <2>6, SendsOther
    <3> QED
      BY <1>0, <3>1 DEF ClientMove
  <2> QED
    BY <2>5, <2>6
<1>4. CASE SendAttach(c)
  <2>1. PICK p : p = [typ |-> "ATTACH", payload |-> <<flags(c)>>]
    OBVIOUS
  <2>2. p \in Packet /\ ~IsInput(p) /\ (Kind[c] # "readonly" => p.payload = NoFlags)
    BY <2>1 DEF Packet, MsgType, IsInput, flags, NoFlags
  <2>3. SendOrFail(c, p, "resize") /\ UNCHANGED <<srvSock, sent>>
    BY <1>4, <2>1 DEF SendAttach
  <2> QED
    BY <1>0, <2>2, <2>3, SendOrFailMove DEF ClientMove
<1>5. CASE send_resize(c)
  <2>1. PICK p : p = [typ |-> "RESIZE", payload |-> <<TermSize[c]>>]
    OBVIOUS
  <2>2. p \in Packet /\ ~IsInput(p) /\ p.typ # "ATTACH"
    BY <2>1, ConnAssumption DEF Packet, MsgType, IsInput
  <2>3. SendOrFail(c, p, "loop") /\ UNCHANGED <<srvSock, sent>>
    BY <1>5, <2>1 DEF send_resize
  <2> QED
    BY <1>0, <2>2, <2>3, SendOrFailMove DEF ClientMove
<1>6. CASE SendDump(c)
  <2>1. PICK p : p = [typ |-> "DUMP", payload |-> <<>>]
    OBVIOUS
  <2>2. p \in Packet /\ ~IsInput(p) /\ p.typ # "ATTACH"
    BY <2>1, EmptySeq DEF Packet, MsgType, IsInput
  <2>3. SendOrFail(c, p, "dumping") /\ UNCHANGED <<srvSock, sent>>
    BY <1>6, <2>1 DEF SendDump
  <2> QED
    BY <1>0, <2>2, <2>3, SendOrFailMove DEF ClientMove
<1>7. CASE StdinDetach(c)
  <2>1. PICK p : p = [typ |-> "DETACH", payload |-> <<>>]
    OBVIOUS
  <2>2. p \in Packet /\ ~IsInput(p) /\ p.typ # "ATTACH"
    BY <2>1, EmptySeq DEF Packet, MsgType, IsInput
  <2>3. /\ UNCHANGED <<srvSock, sent>>
        /\ up' = IF srvSock[c] = "closed" THEN up ELSE [up EXCEPT ![c] = Append(up[c], p)]
    BY <1>7, <2>1 DEF StdinDetach
  <2>4. CASE srvSock[c] = "closed"
    BY <1>0, <2>3, <2>4 DEF ClientMove, Silent
  <2>5. CASE srvSock[c] # "closed"
    <3>1. Sends(c, p, 0)
      BY <2>2, <2>3, <2>5, SendsOther
    <3> QED
      BY <1>0, <2>2, <3>1 DEF ClientMove
  <2> QED
    BY <2>4, <2>5
<1>8. CASE SendKeys(c)
  <2>1. CASE sent[c] = KEYS
    <3>1. UNCHANGED <<up, sent, srvSock>>
      BY <1>8, <2>1 DEF SendKeys
    <3> QED
      BY <1>0, <3>1 DEF ClientMove, Silent
  <2>2. CASE sent[c] # KEYS
    <3>1. sent[c] \in Nat /\ sent[c] <= KEYS /\ KEYS \in Nat /\ MAX_PAYLOAD \in Nat
      BY InputTypes, BoundAssumption
    <3>2. PICK n : n = MinOf(MAX_PAYLOAD, KEYS - sent[c])
      OBVIOUS
    <3>3. n \in Nat
      BY <3>1, <3>2 DEF MinOf
    <3>4. PICK p : p = [typ |-> "SEND_KEYS", payload |-> [i \in 1..n |-> sent[c] + i]]
      OBVIOUS
    <3>5. /\ SendOrFail(c, p, "keys")
          /\ sent' = [sent EXCEPT ![c] = sent[c] + n] /\ srvSock' = srvSock
          /\ cpc[c] = "keys"
      BY <1>8, <2>2, <3>2, <3>4 DEF SendKeys
    <3>6. Kind[c] # "readonly"
      BY <3>5 DEF ProgramRight
    <3>7. (sent[c] + n) - sent[c] = n
      BY <3>1, <3>3
    <3>8. p.payload = OutputFrom(sent[c], sent[c] + n) /\ p.typ = "SEND_KEYS"
      BY <3>4, <3>7 DEF OutputFrom
    <3>9. p \in Packet
      <4>1. [i \in 1..n |-> sent[c] + i] \in Seq(Nat)
        BY <3>1, <3>3
      <4> QED
        BY <3>4, <4>1 DEF Packet, MsgType
    <3>10. CASE srvSock[c] = "closed"
      BY <1>0, <3>3, <3>5, <3>10 DEF ClientMove, Wasted, SendOrFail
    <3>11. CASE srvSock[c] # "closed"
      <4>1. up' = [up EXCEPT ![c] = Append(up[c], p)]
        BY <3>5, <3>11 DEF SendOrFail
      <4>2. Follows(p, sent[c], sent[c] + n)
        BY <3>1, <3>3, <3>8 DEF Follows, IsInput
      <4>3. Sends(c, p, n)
        BY <3>5, <3>6, <3>8, <4>1, <4>2 DEF Sends
      <4> QED
        BY <1>0, <3>3, <3>9, <4>3 DEF ClientMove
    <3> QED
      BY <3>10, <3>11
  <2> QED
    BY <2>1, <2>2
<1>9. CASE StdinKey(c)
  <2>1. sent[c] \in Nat /\ sent' = [sent EXCEPT ![c] = sent[c] + 1] /\ srvSock' = srvSock
    BY <1>9, InputTypes DEF StdinKey
  <2>2. CASE Kind[c] = "readonly"
    <3>1. up' = up
      BY <1>9, <2>2 DEF StdinKey
    <3> QED
      BY <1>0, <2>1, <2>2, <3>1 DEF ClientMove, Wasted
  <2>3. CASE Kind[c] # "readonly"
    <3>1. PICK p : p = [typ |-> "CONTENT", payload |-> <<sent[c] + 1>>]
      OBVIOUS
    <3>2. SendOrFail(c, p, "loop")
      BY <1>9, <2>3, <3>1 DEF StdinKey
    <3>3. p \in Packet /\ p.typ = "CONTENT"
      BY <2>1, <3>1 DEF Packet, MsgType
    <3>4. p.payload = OutputFrom(sent[c], sent[c] + 1)
      <4>1. (sent[c] + 1) - sent[c] = 1
        BY <2>1
      <4>2. OutputFrom(sent[c], sent[c] + 1) = [i \in 1..1 |-> sent[c] + i]
        BY <4>1 DEF OutputFrom
      <4>3. [i \in 1..1 |-> sent[c] + i] = <<sent[c] + 1>>
        BY <2>1
      <4> QED
        BY <3>1, <4>2, <4>3
    <3>5. CASE srvSock[c] = "closed"
      BY <1>0, <2>1, <3>2, <3>5 DEF ClientMove, Wasted, SendOrFail
    <3>6. CASE srvSock[c] # "closed"
      <4>1. up' = [up EXCEPT ![c] = Append(up[c], p)]
        BY <3>2, <3>6 DEF SendOrFail
      <4>2. Follows(p, sent[c], sent[c] + 1)
        BY <2>1, <3>3, <3>4 DEF Follows, IsInput
      <4>3. Sends(c, p, 1)
        BY <2>1, <2>3, <3>3, <4>1, <4>2 DEF Sends
      <4> QED
        BY <1>0, <3>3, <4>3 DEF ClientMove
    <3> QED
      BY <3>5, <3>6
  <2> QED
    BY <2>2, <2>3
<1> QED
  BY <1>1, <1>2, <1>3, <1>4, <1>5, <1>6, <1>7, <1>8, <1>9 DEF ClientRuns, ClientUser

(* The input of every client after a client's step. *)
LEMMA ClientInput ==
    ASSUME IndInv, NEW c \in Conn, ClientMove(c), \A e \in Conn : InputConn(e)
    PROVE  \A e \in Conn : InputConn(e)'
<1>. SUFFICES ASSUME NEW e \in Conn PROVE InputConn(e)'
  OBVIOUS
<1>0. /\ InputConn(e) /\ UNCHANGED <<input, inq, client>>
      /\ up \in [Conn -> Seq(Packet)] /\ sent \in [Conn -> Nat]
      /\ srvSock \in [Conn -> {"none", "backlog", "open", "closed"}]
  BY InvSplit DEF ClientMove, TablesInv, ClientTypeOK
<1>1. CASE Silent(c)
  <2>1. /\ up' = up /\ sent' = sent
        /\ srvSock[e] = "closed" => srvSock'[e] = "closed"
        /\ srvSock'[e] \in {"none", "backlog"} => srvSock[e] \in {"none", "backlog"}
    BY <1>0, <1>1 DEF Silent
  <2>2. Untouched(e)
    BY <1>0, <2>1 DEF Untouched, Arriving, NotYet, InputConn
  <2> QED
    BY <1>0, <2>2, StillConn
<1>2. CASE Wasted(c)
  <2>1. PICK n \in Nat : sent' = [sent EXCEPT ![c] = sent[c] + n]
    BY <1>2 DEF Wasted
  <2>2. up' = up /\ srvSock' = srvSock /\ (srvSock[c] = "closed" \/ Kind[c] = "readonly")
    BY <1>2 DEF Wasted
  <2>3. CASE e # c
    <3>1. Untouched(e)
      BY <1>0, <2>1, <2>2, <2>3 DEF Untouched, Arriving, NotYet, InputConn
    <3> QED
      BY <1>0, <3>1, StillConn
  <2>4. CASE e = c
    <3>1. sent'[e] \in Nat /\ sent[e] <= sent'[e]
      BY <1>0, <2>1, <2>4
    <3>2. CASE Kind[e] = "readonly"
      BY <1>0, <2>2, <3>1, <3>2, ReadonlyConn
    <3>3. CASE srvSock[e] = "closed"
      BY <1>0, <2>2, <3>1, <3>3, ClosedConn
    <3> QED
      BY <2>2, <2>4, <3>2, <3>3
  <2> QED
    BY <2>3, <2>4
<1>3. ASSUME NEW p \in Packet, NEW n \in Nat, Sends(c, p, n) PROVE InputConn(e)'
  <2>1. /\ srvSock' = srvSock
        /\ up' = [up EXCEPT ![c] = Append(up[c], p)]
        /\ sent' = [sent EXCEPT ![c] = sent[c] + n]
    BY <1>3 DEF Sends
  <2>2. CASE e # c
    <3>1. up'[e] = up[e] /\ sent'[e] = sent[e]
      BY <1>0, <2>1, <2>2
    <3>2. Untouched(e)
      BY <1>0, <2>1, <3>1 DEF Untouched, Arriving, NotYet, InputConn
    <3> QED
      BY <1>0, <3>2, StillConn
  <2>3. CASE e = c
    <3>1. /\ sent'[e] = sent[e] + n /\ sent'[e] \in Nat /\ sent[e] <= sent'[e]
          /\ up'[e] = Append(up[e], p)
      BY <1>0, <2>1, <2>3
    <3>2. /\ Kind[e] = "readonly" => ~IsInput(p)
          /\ Kind[e] # "readonly" => Follows(p, sent[e], sent'[e])
          /\ Kind[e] # "readonly" /\ p.typ = "ATTACH" => p.payload = NoFlags
      BY <1>3, <2>3, <3>1 DEF Sends
    <3> QED
      BY <1>0, <2>1, <3>1, <3>2, SendsConn
  <2> QED
    BY <2>2, <2>3
<1> QED
  BY <1>1, <1>2, <1>3 DEF ClientMove

(* Who runs which program. *)
LEMMA ProgramStep ==
    ASSUME IndInv, ProgramRight, NEW c \in Conn, ClientRuns(c) \/ ClientUser(c)
    PROVE  ProgramRight'
<1>0. cpc \in [Conn -> CPCs]
  BY InvSplit DEF TablesInv, ClientTypeOK
<1>1. \/ cpc' = cpc
      \/ \E x \in CPCs : /\ cpc' = [cpc EXCEPT ![c] = x]
                         /\ x = "keys" => cpc[c] = "keys" \/ Kind[c] = "keys"
  <2>1. CASE Connect(c) \/ ConnectRefused(c) \/ SelectStdin(c) \/ StdinEmpty(c)
    BY <2>1 DEF Connect, ConnectRefused, SelectStdin, StdinEmpty, CPCs
  <2>2. CASE RecvPart(c)
    <3>1. cpc' = [cpc EXCEPT ![c] = IF cpc[c] = "loop" THEN "recv" ELSE cpc[c]]
      BY <2>2 DEF RecvPart
    <3> QED
      BY <1>0, <3>1 DEF CPCs
  <2>3. CASE RecvFail(c) \/ RecvExit(c) \/ StdinEof(c) \/ Killed(c) \/ StdinDetach(c)
    BY <2>3 DEF RecvFail, RecvExit, StdinEof, Killed, StdinDetach, Finish, CPCs
  <2>4. CASE RecvPid(c)
    <3>1. CASE Kind[c] = "probe"
      BY <2>4, <3>1 DEF RecvPid, Finish, CPCs
    <3>2. CASE Kind[c] # "probe"
      <4>1. cpc' = [cpc EXCEPT ![c] = CASE Kind[c] = "dump" -> "dump"
                                        [] Kind[c] = "keys" -> "keys"
                                        [] OTHER -> "attach"]
        BY <2>4, <3>2 DEF RecvPid, Received
      <4>2. CASE Kind[c] = "dump"
        BY <4>1, <4>2 DEF CPCs
      <4>3. CASE Kind[c] = "keys"
        BY <4>1, <4>3 DEF CPCs
      <4>4. CASE Kind[c] # "dump" /\ Kind[c] # "keys"
        BY <4>1, <4>4 DEF CPCs
      <4> QED
        BY <4>2, <4>3, <4>4
    <3> QED
      BY <3>1, <3>2
  <2>5. CASE RecvLoop(c) \/ RecvDump(c)
    BY <2>5 DEF RecvLoop, RecvDump, Received, Finish, CPCs
  <2>6. CASE SendAttach(c) \/ send_resize(c) \/ SendDump(c)
    BY <2>6 DEF SendAttach, send_resize, SendDump, SendOrFail, Finish, CPCs
  <2>7. CASE SendKeys(c)
    BY <2>7 DEF SendKeys, SendOrFail, Finish, CPCs
  <2>8. CASE StdinKey(c)
    BY <2>8 DEF StdinKey, SendOrFail, Finish, CPCs
  <2> QED
    BY <2>1, <2>2, <2>3, <2>4, <2>5, <2>6, <2>7, <2>8 DEF ClientRuns, ClientUser
<1> QED
  BY <1>0, <1>1 DEF ProgramRight

-------------------------------------------------------------------------------
(* The server's steps. *)

(* Those that leave a client's packets, flags and connection alone. *)
LEMMA SameStill ==
    ASSUME NEW e \in Conn, InputConn(e), input' = input, sent' = sent,
           client'[e].buf = client[e].buf, client'[e].flags = client[e].flags,
           up'[e] = up[e], srvSock'[e] = srvSock[e]
    PROVE  InputConn(e)'
<1>1. Untouched(e)
  BY DEF Untouched, Arriving, NotYet, InputConn
<1> QED
  BY <1>1, StillConn

(* What sending makes of the struct of a client. *)
LEMMA SentKeeps ==
    ASSUME NEW c \in Conn, client[c] \in Client, NEW r
    PROVE  /\ SentOrDisconnect(c, r).buf = client[c].buf
           /\ SentOrDisconnect(c, r).flags = client[c].flags
           /\ SentThenClose(c, r).buf = client[c].buf
           /\ SentThenClose(c, r).flags = client[c].flags
           /\ Replayed(c, r).buf = client[c].buf
           /\ Replayed(c, r).flags = client[c].flags
           /\ [Replayed(c, r) EXCEPT !.disconnected = TRUE].buf = client[c].buf
           /\ [Replayed(c, r) EXCEPT !.disconnected = TRUE].flags = client[c].flags
           /\ Flushed(c).buf = client[c].buf
           /\ Flushed(c).flags = client[c].flags
<1>1. /\ SentOrDisconnect(c, r).buf = client[c].buf
      /\ SentOrDisconnect(c, r).flags = client[c].flags
  BY DEF SentOrDisconnect, Client
<1>2. /\ SentThenClose(c, r).buf = client[c].buf
      /\ SentThenClose(c, r).flags = client[c].flags
  BY DEF SentThenClose, Client
<1>3. /\ Replayed(c, r).buf = client[c].buf
      /\ Replayed(c, r).flags = client[c].flags
      /\ [Replayed(c, r) EXCEPT !.disconnected = TRUE].buf = client[c].buf
      /\ [Replayed(c, r) EXCEPT !.disconnected = TRUE].flags = client[c].flags
  BY DEF Replayed, SentThenClose, Client
<1>4. /\ Flushed(c).buf = client[c].buf
      /\ Flushed(c).flags = client[c].flags
  BY DEF Flushed, SentOrDisconnect, Client
<1> QED
  BY <1>1, <1>2, <1>3, <1>4

LEMMA QuietInput ==
    ASSUME IndInv, UNCHANGED clientVars, \A e \in Conn : InputConn(e),
           \/ PollShutdown \/ AcceptDone \/ PtyDone \/ WaitPid \/ Shutdown \/ EndClient
           \/ \E c \in Conn : Elapse(c)
           \/ \E n \in 1..MAX_PAYLOAD : ReadPty(n)
           \/ ReplayChunk \/ ReplayFail \/ ReplayEnd \/ QueueExit
    PROVE  UNCHANGED <<input, inq>> /\ \A e \in Conn : InputConn(e)'
<1> DEFINE Keeps == \A e \in Conn : /\ client'[e].buf = client[e].buf
                                   /\ client'[e].flags = client[e].flags
<1>0. client \in [Conn -> Client] /\ \A e \in Conn : client[e] \in Client
  BY InvSplit DEF TablesInv
<1>1. UNCHANGED <<input, inq, up, srvSock, sent>>
  BY DEF PollShutdown, AcceptDone, PtyDone, WaitPid, Shutdown, EndClient, Elapse, ReadPty,
         ReplayChunk, ReplayFail, ReplayEnd, QueueExit, kernelVars, sockVars, ptyVars, clientVars
<1>2. ASSUME client' = client PROVE Keeps
  BY <1>2
<1>3. ASSUME PollShutdown \/ AcceptDone \/ PtyDone \/ WaitPid \/ Shutdown PROVE Keeps
  <2>1. client' = client
    BY <1>3 DEF PollShutdown, AcceptDone, PtyDone, WaitPid, Shutdown
  <2> QED
    BY <1>2, <2>1
<1>4. ASSUME EndClient PROVE Keeps
  <2>1. cur \in Conn
    BY <1>4, InvSplit DEF EndClient, LoopInv, TablesInv
  <2>2. client' = [client EXCEPT ![cur] = [client[cur] EXCEPT !.disconnected = client[cur].disconnected \/ saw_eof]]
    BY <1>0, <1>4, <2>1 DEF EndClient
  <2>3. ASSUME NEW e \in Conn
        PROVE  client'[e].buf = client[e].buf /\ client'[e].flags = client[e].flags
    <3>1. CASE e = cur
      BY <1>0, <2>1, <2>2, <3>1 DEF Client
    <3>2. CASE e # cur
      BY <1>0, <2>1, <2>2, <3>2
    <3> QED
      BY <3>1, <3>2
  <2> QED
    BY <2>3
<1>5. ASSUME NEW c \in Conn, Elapse(c) PROVE Keeps
  BY <1>0, <1>5 DEF Elapse, Client
(* A step that gives some of the clients the struct f has for them. *)
<1>6. ASSUME NEW S, NEW f,
             client' = [c \in Conn |-> IF c \in S THEN f[c] ELSE client[c]],
             \A c \in Conn : f[c].buf = client[c].buf /\ f[c].flags = client[c].flags
      PROVE  Keeps
  BY <1>6
<1>7. ASSUME NEW n \in 1..MAX_PAYLOAD, ReadPty(n) PROVE Keeps
  <2>1. PICK p : SendAll({c \in clients : client[c].attached}, p, SentOrDisconnect)
    BY <1>7 DEF ReadPty, broadcast_content
  <2> DEFINE f == [c \in Conn |-> SentOrDisconnect(c, send_packet_nonblocking(c, p))]
             S == {c \in clients : client[c].attached}
  <2>2. client' = [c \in Conn |-> IF c \in S THEN f[c] ELSE client[c]]
    BY <2>1 DEF SendAll
  <2>3. \A c \in Conn : f[c].buf = client[c].buf /\ f[c].flags = client[c].flags
    BY <1>0, SentKeeps
  <2> HIDE DEF f, S
  <2> QED
    BY <1>6, <2>2, <2>3
<1>8. ASSUME ReplayChunk PROVE Keeps
  <2> DEFINE f == [c \in Conn |-> SentOrDisconnect(c, send_packet_nonblocking(c, content(chunk)))]
             S == {cur}
  <2>2. client' = [c \in Conn |-> IF c \in S THEN f[c] ELSE client[c]]
    BY <1>8 DEF ReplayChunk, SendAll
  <2>3. \A c \in Conn : f[c].buf = client[c].buf /\ f[c].flags = client[c].flags
    BY <1>0, SentKeeps
  <2> HIDE DEF f, S
  <2> QED
    BY <1>6, <2>2, <2>3
<1>9. ASSUME ReplayFail PROVE Keeps
  <2> DEFINE f == [c \in Conn |-> [Replayed(c, send_packet_nonblocking(c, content(chunk)))
                                     EXCEPT !.disconnected = TRUE]]
             S == {cur}
  <2>2. client' = [c \in Conn |-> IF c \in S THEN f[c] ELSE client[c]]
    BY <1>9 DEF ReplayFail, SendAll
  <2>3. \A c \in Conn : f[c].buf = client[c].buf /\ f[c].flags = client[c].flags
    BY <1>0, SentKeeps
  <2> HIDE DEF f, S
  <2> QED
    BY <1>6, <2>2, <2>3
<1>10. ASSUME ReplayEnd /\ send_end PROVE Keeps
  <2> DEFINE p == [typ |-> "DUMP_END", payload |-> <<>>]
             f == [c \in Conn |-> Replayed(c, send_packet_nonblocking(c, p))]
             S == {cur}
  <2>2. client' = [c \in Conn |-> IF c \in S THEN f[c] ELSE client[c]]
    BY <1>10 DEF ReplayEnd, SendAll
  <2>3. \A c \in Conn : f[c].buf = client[c].buf /\ f[c].flags = client[c].flags
    BY <1>0, SentKeeps
  <2> HIDE DEF f, S
  <2> QED
    BY <1>6, <2>2, <2>3
<1>11. ASSUME QueueExit /\ child_exit # NoStatus PROVE Keeps
  <2> DEFINE p == [typ |-> "EXIT", payload |-> <<child_exit>>]
             f == [c \in Conn |-> SentThenClose(c, send_packet_nonblocking(c, p))]
             S == {c \in clients : /\ ~client[c].disconnected
                                   /\ client[c].close_after_drain = "unset"}
  <2>2. client' = [c \in Conn |-> IF c \in S THEN f[c] ELSE client[c]]
    BY <1>11 DEF QueueExit, SendAll
  <2>3. \A c \in Conn : f[c].buf = client[c].buf /\ f[c].flags = client[c].flags
    BY <1>0, SentKeeps
  <2> HIDE DEF f, S
  <2> QED
    BY <1>6, <2>2, <2>3
<1>12. ASSUME (ReplayEnd /\ ~send_end) \/ (QueueExit /\ child_exit = NoStatus) PROVE Keeps
  <2>1. client' = client
    BY <1>12 DEF ReplayEnd, QueueExit
  <2> QED
    BY <1>2, <2>1
<1>13. Keeps
  <2> HIDE DEF Keeps
  <2> QED
    BY <1>3, <1>4, <1>5, <1>7, <1>8, <1>9, <1>10, <1>11, <1>12
<1> QED
  BY <1>1, <1>13, SameStill

LEMMA AcceptInput ==
    ASSUME IndInv, UNCHANGED clientVars, \A e \in Conn : InputConn(e),
           NEW c \in Conn, Accept(c) \/ AcceptDropped(c)
    PROVE  UNCHANGED <<input, inq>> /\ \A e \in Conn : InputConn(e)'
<1>0. /\ client \in [Conn -> Client] /\ sent \in [Conn -> Nat]
      /\ srvSock \in [Conn -> {"none", "backlog", "open", "closed"}]
  BY InvSplit DEF TablesInv, ClientTypeOK
<1>1. UNCHANGED <<input, inq, up, sent>> /\ srvSock[c] = "backlog"
  BY DEF Accept, AcceptDropped, ptyVars, clientVars
<1>2. ASSUME NEW e \in Conn, e # c PROVE InputConn(e)'
  <2>0. CASE Accept(c)
    <3>1. client' = [client EXCEPT ![c] = NewClient] /\ srvSock' = [srvSock EXCEPT ![c] = "open"]
      BY <2>0 DEF Accept
    <3>2. client'[e] = client[e] /\ srvSock'[e] = srvSock[e]
      BY <1>0, <1>2, <3>1
    <3> QED
      BY <1>1, <3>2, SameStill
  <2>1. CASE AcceptDropped(c)
    <3>1. client' = client /\ srvSock' = [srvSock EXCEPT ![c] = "closed"]
      BY <2>1 DEF AcceptDropped, serverVars
    <3>2. client'[e] = client[e] /\ srvSock'[e] = srvSock[e]
      BY <1>0, <1>2, <3>1
    <3> QED
      BY <1>1, <3>2, SameStill
  <2> QED
    BY <2>0, <2>1
<1>3. InputConn(c)'
  <2>1. CASE Accept(c)
    <3>1. client'[c] = NewClient /\ srvSock'[c] = "open"
      BY <1>0, <2>1 DEF Accept
    <3>2. client[c].buf = <<>>
      BY <1>1 DEF InputConn, NotYet
    <3>3. Untouched(c)
      BY <1>1, <3>1, <3>2 DEF Untouched, Arriving, NotYet, NewClient
    <3> QED
      BY <3>3, StillConn
  <2>2. CASE AcceptDropped(c)
    <3>1. srvSock'[c] = "closed" /\ sent'[c] \in Nat /\ sent[c] <= sent'[c]
      BY <1>0, <1>1, <2>2 DEF AcceptDropped
    <3> QED
      BY <1>1, <3>1, ClosedConn
  <2> QED
    BY <2>1, <2>2
<1> QED
  BY <1>1, <1>2, <1>3

LEMMA FlushInput ==
    ASSUME IndInv, UNCHANGED clientVars, \A e \in Conn : InputConn(e), FlushAndReap
    PROVE  UNCHANGED <<input, inq>> /\ \A e \in Conn : InputConn(e)'
<1>0. \A e \in Conn : client[e] \in Client /\ sent[e] \in Nat /\ sent[e] <= sent[e]
  BY InputTypes
<1>1. UNCHANGED <<input, inq, up, sent>>
  BY DEF FlushAndReap, ptyVars, clientVars
<1>2. ASSUME NEW e \in Conn PROVE InputConn(e)'
  <2>1. \/ srvSock'[e] = "closed"
        \/ srvSock'[e] = srvSock[e] /\ client'[e] \in {Flushed(e), client[e]}
    BY DEF FlushAndReap
  <2>2. CASE srvSock'[e] = "closed"
    BY <1>0, <1>1, <2>2, ClosedConn
  <2>3. CASE srvSock'[e] = srvSock[e] /\ client'[e] \in {Flushed(e), client[e]}
    <3>1. client'[e].buf = client[e].buf /\ client'[e].flags = client[e].flags
      BY <1>0, <2>3, SentKeeps
    <3> QED
      BY <1>1, <2>3, <3>1, SameStill
  <2> QED
    BY <2>1, <2>2, <2>3
<1> QED
  BY <1>1, <1>2

LEMMA ReadInput ==
    ASSUME IndInv, UNCHANGED clientVars, \A e \in Conn : InputConn(e),
           NEW c \in Conn, ReadClient(c)
    PROVE  UNCHANGED <<input, inq>> /\ \A e \in Conn : InputConn(e)'
<1>0. /\ client \in [Conn -> Client] /\ up \in [Conn -> Seq(Packet)]
      /\ client[c].buf \in Seq(Packet) /\ up[c] \in Seq(Packet)
  BY InvSplit, InputTypes DEF TablesInv
<1>1. UNCHANGED <<input, inq, srvSock, sent>> /\ up' = [up EXCEPT ![c] = <<>>]
  BY DEF ReadClient, ptyVars, clientVars
<1>2. /\ client'[c].buf = client[c].buf \o up[c]
      /\ client'[c].flags = client[c].flags
      /\ \A e \in Conn \ {c} : client'[e] = client[e]
  BY <1>0 DEF ReadClient, Client
<1>3. ASSUME NEW e \in Conn, e # c PROVE InputConn(e)'
  <2>1. up'[e] = up[e] /\ client'[e] = client[e]
    BY <1>0, <1>1, <1>2, <1>3
  <2> QED
    BY <1>1, <2>1, SameStill
<1>4. InputConn(c)'
  <2>1. up'[c] = <<>>
    BY <1>0, <1>1
  <2>2. Arriving(c)' = Arriving(c)
    <3>1. client[c].buf \o up[c] \in Seq(Packet)
      BY <1>0, ConcatProperties
    <3>2. (client[c].buf \o up[c]) \o <<>> = client[c].buf \o up[c]
      BY <3>1, ConcatEmptySeq
    <3> QED
      BY <1>2, <2>1, <3>2 DEF Arriving
  <2>3. srvSock[c] = "open"
    BY InvSplit DEF ReadClient, LoopInv, TablesInv
  <2>4. Untouched(c)
    BY <1>1, <1>2, <2>2, <2>3 DEF Untouched, NotYet
  <2> QED
    BY <2>4, StillConn
<1> QED
  BY <1>1, <1>3, <1>4

(* The first packet of a client not handled yet. *)
LEMMA FrontUnread ==
    ASSUME IndInv, NEW types, Popping(types)
    PROVE  /\ cur \in Conn /\ srvSock[cur] = "open" /\ Arriving(cur) \in Seq(Packet)
           /\ Arriving(cur) # <<>> /\ Head(Arriving(cur)) = front
           /\ Tail(client[cur].buf) \o up[cur] = Tail(Arriving(cur))
<1>1. cur \in Conn /\ srvSock[cur] = "open"
  BY FrontType, InputTypes
<1>2. PICK s \in Seq(Packet), t \in Seq(Packet) : s = client[cur].buf /\ t = up[cur]
  BY <1>1, InputTypes
<1>3. s # <<>>
  BY <1>2 DEF Popping
<1>4. PICK m \in Nat, l \in Nat : Len(s) = m + 1 /\ Len(t) = l
  <2>1. Len(s) \in Nat /\ Len(s) # 0 /\ Len(t) \in Nat
    BY <1>3
  <2>2. Len(s) - 1 \in Nat /\ Len(s) = (Len(s) - 1) + 1
    BY <2>1
  <2> QED
    BY <2>1, <2>2
<1> DEFINE u == s \o t
           v == Tail(s)
           w == v \o t
           x == Tail(u)
<1>5. /\ u \in Seq(Packet) /\ Len(u) = m + 1 + l
      /\ \A i \in 1..(m + 1 + l) : u[i] = IF i <= m + 1 THEN s[i] ELSE t[i - (m + 1)]
  <2>1. /\ u \in Seq(Packet) /\ Len(u) = Len(s) + Len(t)
        /\ \A i \in 1..(Len(s) + Len(t)) : u[i] = IF i <= Len(s) THEN s[i] ELSE t[i - Len(s)]
    BY ConcatProperties
  <2> HIDE DEF u
  <2>2. Len(s) + Len(t) = m + 1 + l
    BY <1>4
  <2> QED
    BY <1>4, <2>1, <2>2
<1>6. v \in Seq(Packet) /\ Len(v) = m /\ \A i \in 1..m : v[i] = s[i + 1]
  BY <1>3, <1>4
<1> HIDE DEF u, v
<1>7. /\ w \in Seq(Packet) /\ Len(w) = m + l
      /\ \A i \in 1..(m + l) : w[i] = IF i <= m THEN v[i] ELSE t[i - m]
  BY <1>4, <1>6, ConcatProperties
<1>8. u # <<>> /\ Head(u) = s[1] /\ Head(s) = s[1]
  BY <1>3, <1>4, <1>5
<1>9. x \in Seq(Packet) /\ Len(x) = m + l /\ \A i \in 1..(m + l) : x[i] = u[i + 1]
  BY <1>5, <1>8
<1> HIDE DEF w, x
<1>10. \A i \in 1..(m + l) : w[i] = x[i]
  <2> TAKE i \in 1..(m + l)
  <2>1. x[i] = u[i + 1] /\ i + 1 \in 1..(m + 1 + l)
    BY <1>9
  <2>2. u[i + 1] = IF i + 1 <= m + 1 THEN s[i + 1] ELSE t[(i + 1) - (m + 1)]
    BY <1>5, <2>1
  <2>3. (i + 1) - (m + 1) = i - m /\ (i + 1 <= m + 1 <=> i <= m)
    OBVIOUS
  <2>4. i <= m => v[i] = s[i + 1]
    BY <1>6
  <2> QED
    BY <1>7, <2>1, <2>2, <2>3, <2>4
<1>11. w = x
  BY <1>7, <1>9, <1>10, SameSeq
<1>12. Arriving(cur) = u /\ front = Head(s) /\ Tail(client[cur].buf) \o up[cur] = w
  BY <1>2 DEF Arriving, front, u, v, w
<1> QED
  BY <1>1, <1>5, <1>8, <1>11, <1>12 DEF x

(* A packet of c is taken off, and its input, if there is any, written. *)
LEMMA PopConn ==
    ASSUME IndInv, NEW c \in Conn, InputConn(c), srvSock[c] = "open", srvSock'[c] = "open",
           NEW ps \in Seq(Packet), ps = Arriving(c), ps # <<>>, Arriving(c)' = Tail(ps),
           sent'[c] = sent[c],
           \/ client'[c].flags = client[c].flags
           \/ /\ Head(ps).typ = "ATTACH"
              /\ client'[c].flags = read_u32(Head(ps).payload),
           \/ input' = input /\ (~IsInput(Head(ps)) \/ Kind[c] = "readonly")
           \/ /\ IsInput(Head(ps))
              /\ Roomy => Joins(InputOf(c)', InputOf(c), Head(ps).payload)
              /\ \A k, j \in Nat : UpTo(input, c, k) /\ Follows(Head(ps), k, j)
                                    => UpTo(input', c, j)
    PROVE  InputConn(c)'
<1>1. sent[c] \in Nat
  BY InputTypes
<1>2. PICK k \in 0..sent[c], n \in 0..sent[c] : Tally(c, k, n)
  BY DEF InputConn
<1>3. /\ k \in Nat /\ n \in Nat /\ n <= sent[c] /\ k <= n
      /\ Roomy => InputOf(c) = OutputFrom(0, k)
      /\ UpTo(input, c, k) /\ CarriesUnits(ps, k, n)
      /\ n = IF Kind[c] = "readonly" THEN 0 ELSE sent[c]
  BY <1>1, <1>2 DEF Tally
<1>4. PICK j \in 0..n : Follows(Head(ps), k, j) /\ CarriesUnits(Tail(ps), j, n)
  BY <1>3, CarriesUnitsTail
<1>5. j \in Nat /\ j <= n /\ j \in 0..sent[c]
  BY <1>1, <1>3, <1>4
<1>6. (Roomy => InputOf(c)' = OutputFrom(0, j)) /\ UpTo(input', c, j)
  <2>1. CASE input' = input /\ ~IsInput(Head(ps))
    <3>1. j = k /\ InputOf(c)' = InputOf(c)
      BY <1>4, <2>1 DEF Follows, InputOf
    <3>. QED
      BY <1>3, <2>1, <3>1
  <2>2. CASE input' = input /\ Kind[c] = "readonly"
    <3>1. n = 0 /\ k = 0 /\ j = 0 /\ InputOf(c)' = InputOf(c)
      BY <1>3, <1>5, <2>2 DEF InputOf
    <3> QED
      BY <1>3, <2>2, <3>1
  <2>3. CASE /\ IsInput(Head(ps))
             /\ Roomy => Joins(InputOf(c)', InputOf(c), Head(ps).payload)
             /\ \A m, l \in Nat : UpTo(input, c, m) /\ Follows(Head(ps), m, l)
                                   => UpTo(input', c, l)
    <3>1. k <= j /\ Head(ps).payload = OutputFrom(k, j)
      BY <1>4, <2>3 DEF Follows
    <3>2. Joins(OutputFrom(0, j), OutputFrom(0, k), OutputFrom(k, j))
      BY <1>3, <1>5, <3>1, OutputJoins
    <3>3. Roomy => InputOf(c)' = OutputFrom(0, j)
      BY <1>3, <2>3, <3>1, <3>2 DEF Joins
    <3>4. UpTo(input', c, j)
      BY <1>3, <1>4, <1>5, <2>3
    <3> QED
      BY <3>3, <3>4
  <2> QED
    BY <2>1, <2>2, <2>3
<1>7. Tally(c, j, n)'
  BY <1>3, <1>4, <1>5, <1>6 DEF Tally
<1>8. FlagsRight(c)'
  <2>. SUFFICES ASSUME Kind[c] # "readonly"
               PROVE  /\ client'[c].flags = 0
                      /\ \A i \in 1..Len(Tail(ps)) :
                           Tail(ps)[i].typ = "ATTACH" => Tail(ps)[i].payload = NoFlags
    BY DEF FlagsRight
  <2>1. /\ client[c].flags = 0
        /\ \A i \in 1..Len(ps) : ps[i].typ = "ATTACH" => ps[i].payload = NoFlags
    BY DEF InputConn, FlagsRight
  <2>2. /\ Head(ps) = ps[1] /\ Len(ps) \in Nat /\ Len(ps) # 0
        /\ Len(Tail(ps)) = Len(ps) - 1
        /\ \A i \in 1..(Len(ps) - 1) : Tail(ps)[i] = ps[i + 1]
    OBVIOUS
  <2>3. Head(ps).typ = "ATTACH" => Head(ps).payload = NoFlags
    BY <2>1, <2>2
  <2>4. read_u32(NoFlags) = 0
    BY DEF read_u32, NoFlags
  <2>5. client'[c].flags = 0
    BY <2>1, <2>3, <2>4
  <2>6. ASSUME NEW i \in 1..(Len(ps) - 1), Tail(ps)[i].typ = "ATTACH"
        PROVE  Tail(ps)[i].payload = NoFlags
    <3>1. i + 1 \in 1..Len(ps) /\ Tail(ps)[i] = ps[i + 1]
      BY <2>2
    <3> QED
      BY <2>1, <2>6, <3>1
  <2> QED
    BY <2>2, <2>5, <2>6
<1>9. NotYet(c)'
  BY DEF NotYet
<1>10. \E k1, n1 \in 0..sent'[c] : Tally(c, k1, n1)'
  BY <1>2, <1>5, <1>7
<1> QED
  BY <1>8, <1>9, <1>10 DEF InputConn

(* The packets without input. *)
LEMMA HandleOtherInput ==
    ASSUME IndInv, UNCHANGED clientVars, \A e \in Conn : InputConn(e),
           HandleAttach \/ HandleDump \/ HandleResize \/ HandleDetach
    PROVE  UNCHANGED <<input, inq>> /\ \A e \in Conn : InputConn(e)'
<1>0. client \in [Conn -> Client]
  BY InvSplit DEF TablesInv
<1>1. UNCHANGED <<input, inq, up, srvSock, sent>>
  BY DEF HandleAttach, HandleDump, HandleResize, HandleDetach, kernelVars, sockVars, ptyVars,
         clientVars
<1>2. PICK types \in {{"ATTACH"}, {"DUMP"}, {"RESIZE"}, {"DETACH", "EXIT"}} : Popping(types)
  BY DEF HandleAttach, HandleDump, HandleResize, HandleDetach
<1>3. /\ cur \in Conn /\ srvSock[cur] = "open" /\ Arriving(cur) \in Seq(Packet)
      /\ Arriving(cur) # <<>> /\ Head(Arriving(cur)) = front
      /\ Tail(client[cur].buf) \o up[cur] = Tail(Arriving(cur))
  BY <1>2, FrontUnread
<1>4. ~IsInput(front)
  BY <1>2 DEF Popping, front, IsInput
<1>5. /\ client[cur] \in Client
      /\ Popped.buf = Tail(client[cur].buf) /\ Popped.flags = client[cur].flags
  BY <1>0, <1>3 DEF Popped, Client
<1>6. PICK cl : /\ client' = [client EXCEPT ![cur] = cl]
                /\ cl.buf = Tail(client[cur].buf)
                /\ \/ cl.flags = client[cur].flags
                   \/ front.typ = "ATTACH" /\ cl.flags = read_u32(front.payload)
  <2>0. Popped \in Client
    BY <1>2, FrontType
  <2>1. CASE HandleAttach
    <3> DEFINE cl == [Popped EXCEPT !.attached = TRUE, !.flags = read_u32(front.payload)]
    <3>1. client' = [client EXCEPT ![cur] = cl] /\ front.typ = "ATTACH"
      BY <2>1 DEF HandleAttach, Popping, front
    <3>2. cl.buf = Popped.buf /\ cl.flags = read_u32(front.payload)
      BY <2>0 DEF Client
    <3> HIDE DEF cl
    <3> QED
      BY <1>5, <3>1, <3>2
  <2>2. CASE HandleDump \/ HandleResize
    BY <1>5, <2>2 DEF HandleDump, HandleResize
  <2>3. CASE HandleDetach
    <3> DEFINE cl == [Popped EXCEPT !.disconnected = TRUE]
    <3>1. client' = [client EXCEPT ![cur] = cl]
      BY <2>3 DEF HandleDetach
    <3>2. cl.buf = Popped.buf /\ cl.flags = Popped.flags
      BY <2>0 DEF Client
    <3> HIDE DEF cl
    <3> QED
      BY <1>5, <3>1, <3>2
  <2> QED
    BY <2>1, <2>2, <2>3
<1>7. PICK c \in Conn : c = cur
  BY <1>3
<1>8. client'[c] = cl /\ \A e \in Conn \ {c} : client'[e] = client[e]
  BY <1>0, <1>6, <1>7
<1>9. ASSUME NEW e \in Conn, e # c PROVE InputConn(e)'
  <2>1. client'[e] = client[e] /\ up'[e] = up[e] /\ srvSock'[e] = srvSock[e]
    BY <1>1, <1>8, <1>9
  <2> QED
    BY <1>1, <2>1, SameStill
<1>10. InputConn(c)'
  <2>1. PICK ps \in Seq(Packet) : ps = Arriving(c)
    BY <1>3, <1>7
  <2>2. input' = input
    BY <1>1
  <2>3. Arriving(c)' = Tail(ps)
    BY <1>1, <1>3, <1>6, <1>7, <1>8, <2>1 DEF Arriving
  <2>4. ps # <<>> /\ Head(ps) = front /\ srvSock[c] = "open"
    BY <1>3, <1>7, <2>1
  <2>5. \/ client'[c].flags = client[c].flags
        \/ Head(ps).typ = "ATTACH" /\ client'[c].flags = read_u32(Head(ps).payload)
    BY <1>6, <1>7, <1>8, <2>4
  <2>6. srvSock'[c] = "open" /\ sent'[c] = sent[c] /\ ~IsInput(Head(ps))
    BY <1>1, <1>4, <2>4
  <2> QED
    BY <2>1, <2>2, <2>3, <2>4, <2>5, <2>6, PopConn
<1> QED
  BY <1>1, <1>9, <1>10

(* There is room for what is next of c's input. *)
LEMMA WriteFits ==
    ASSUME IndInv, Roomy, Rises(input), \A e \in Conn : InputConn(e),
           NEW c \in Conn, NEW k \in Nat, NEW j \in Nat, k <= j, j <= KEYS,
           InputOf(c) = OutputFrom(0, k)
    PROVE  /\ Rises(input \o Written(c, OutputFrom(k, j)))
           /\ Len(input) + (j - k) <= PTYIN
           /\ \A e \in Conn : /\ InputIn(e, input) = InputOf(e)
                              /\ Joins(InputIn(e, input \o Written(c, OutputFrom(k, j))), InputOf(e),
                                       IF e = c THEN OutputFrom(k, j) ELSE <<>>)
<1>1. \A e \in Conn : InputIn(e, input) = InputOf(e)
  BY DEF InputIn, InputOf
<1>2. PICK s \in Seq(Units) : s = input
  BY InputTypes
<1>3. PICK keys : keys = OutputFrom(k, j)
  OBVIOUS
<1>4. keys \in Seq(Nat) /\ Len(keys) = j - k
  BY <1>3, OutputJoins
<1>5. PICK w : w = Written(c, keys)
  OBVIOUS
<1>6. w \in Seq(Units) /\ Len(w) = j - k
  BY <1>4, <1>5, WrittenType
<1>7. Rises(s \o w)
  BY <1>1, <1>2, <1>3, <1>5, RisesWritten
<1>8. ASSUME NEW e \in Conn
      PROVE  Joins(InputIn(e, s \o w), InputOf(e), IF e = c THEN keys ELSE <<>>)
  <2>1. Joins(InputIn(e, s \o w), InputIn(e, s), InputIn(e, w))
    BY <1>6, InputConcat
  <2>2. InputIn(e, w) = IF e = c THEN keys ELSE <<>>
    BY <1>4, <1>5, InputWritten
  <2> QED
    BY <1>1, <1>2, <2>1, <2>2
<1>9. ASSUME NEW e \in Conn PROVE Len(InputIn(e, s \o w)) <= KEYS
  <2>1. CASE e = c
    <3>1. Joins(OutputFrom(0, j), OutputFrom(0, k), OutputFrom(k, j))
      BY OutputJoins
    <3>2. InputIn(e, s \o w) = OutputFrom(0, j)
      BY <1>3, <1>8, <2>1, <3>1 DEF Joins
    <3>3. Len(OutputFrom(0, j)) = j - 0
      BY OutputJoins
    <3> QED
      BY <3>2, <3>3
  <2>2. CASE e # c
    <3>1. InputOf(e) \in Seq(Nat)
      BY <1>1, <1>2, InputConcat
    <3>2. PICK u \in Seq(Nat) : u = InputOf(e)
      BY <3>1
    <3>3. u \o <<>> = u
      BY ConcatEmptySeq
    <3>4. InputIn(e, s \o w) = u
      BY <1>8, <2>2, <3>2, <3>3 DEF Joins
    <3>5. PICK m \in 0..sent[e] : u = OutputFrom(0, m)
      BY <3>2 DEF InputConn, Tally
    <3>6. sent[e] \in Nat /\ sent[e] <= KEYS /\ KEYS \in Nat
      BY InputTypes, BoundAssumption
    <3>7. Len(OutputFrom(0, m)) = m - 0
      BY <3>5, <3>6, OutputJoins
    <3> QED
      BY <3>4, <3>5, <3>6, <3>7
  <2> QED
    BY <2>1, <2>2
<1>10. s \o w \in Seq(Units) /\ Len(s \o w) = Len(s) + (j - k) /\ Len(s) \in Nat
  BY <1>6, ConcatProperties
<1>11. Len(s \o w) <= KEYS * Cardinality(Conn)
  BY <1>7, <1>9, <1>10, RisesBound
<1>12. PICK t \in Nat : t = KEYS * Cardinality(Conn)
  <2>1. Cardinality(Conn) \in Nat /\ KEYS \in Nat
    BY FiniteAssumption, FS_CardinalityType, BoundAssumption
  <2>2. \A a, b \in Nat : a * b \in Nat
    OBVIOUS
  <2> QED
    BY <2>1, <2>2
<1>13. Len(s) + (j - k) <= PTYIN
  BY <1>10, <1>11, <1>12, BoundAssumption DEF Roomy
<1> QED
  BY <1>1, <1>2, <1>3, <1>5, <1>7, <1>8, <1>13

(* MSG_CONTENT and MSG_SEND_KEYS: what fits of the payload is written, and  *)
(* in a roomy terminal that is all of it.                                   *)
LEMMA HandleInputStep ==
    ASSUME IndInv, Ascends(input), Roomy => Rises(input) /\ inq <= Len(input),
           UNCHANGED clientVars, \A e \in Conn : InputConn(e), HandleInput
    PROVE  /\ Ascends(input)' /\ (Roomy => Rises(input)' /\ inq' <= Len(input'))
           /\ \A e \in Conn : InputConn(e)'
<1>0. /\ client \in [Conn -> Client] /\ input \in Seq(Units)
      /\ inq \in Nat /\ Len(input) \in Nat /\ PTYIN \in Nat
  BY InvSplit, InputTypes, BoundAssumption DEF TablesInv
<1>1. UNCHANGED <<up, srvSock, sent>> /\ Popping({"CONTENT", "SEND_KEYS"})
  BY DEF HandleInput, sockVars, clientVars
<1>2. /\ cur \in Conn /\ srvSock[cur] = "open" /\ Arriving(cur) \in Seq(Packet)
      /\ Arriving(cur) # <<>> /\ Head(Arriving(cur)) = front
      /\ Tail(client[cur].buf) \o up[cur] = Tail(Arriving(cur))
  BY <1>1, FrontUnread
<1>3. PICK c \in Conn : c = cur
  BY <1>2
<1>4. PICK ps \in Seq(Packet) : ps = Arriving(c)
  BY <1>2, <1>3
<1>5. ps # <<>> /\ Head(ps) = front /\ srvSock[c] = "open" /\ srvSock'[c] = "open"
  BY <1>1, <1>2, <1>3, <1>4
<1>6. IsInput(Head(ps))
  BY <1>1, <1>5 DEF Popping, front, IsInput
<1>7. /\ client'[c].buf = Tail(client[c].buf) /\ client'[c].flags = client[c].flags
      /\ \A e \in Conn \ {c} : client'[e] = client[e]
  <2>1. client' = [client EXCEPT ![c] = Popped] /\ client[c] \in Client
    BY <1>0, <1>3 DEF HandleInput
  <2>2. Popped.buf = Tail(client[c].buf) /\ Popped.flags = client[c].flags
    BY <1>3, <2>1 DEF Popped, Client
  <2> QED
    BY <1>0, <2>1, <2>2
<1>8. Arriving(c)' = Tail(ps)
  BY <1>1, <1>2, <1>3, <1>4, <1>7 DEF Arriving
<1>9. PICK k \in 0..sent[c], n \in 0..sent[c] : Tally(c, k, n)
  BY DEF InputConn
<1>10. sent[c] \in Nat /\ sent[c] <= KEYS /\ KEYS \in Nat
  BY InputTypes, BoundAssumption
<1>11. /\ k \in Nat /\ n \in Nat /\ n <= KEYS /\ UpTo(input, c, k)
       /\ Roomy => InputOf(c) = OutputFrom(0, k)
       /\ CarriesUnits(ps, k, n)
  BY <1>4, <1>5, <1>9, <1>10 DEF Tally
<1>12. PICK j \in 0..n : Follows(Head(ps), k, j)
  BY <1>5, <1>11, CarriesUnitsTail
<1>13. j \in Nat /\ j <= KEYS /\ k <= j /\ Head(ps).payload = OutputFrom(k, j)
  BY <1>6, <1>10, <1>11, <1>12 DEF Follows
<1>14. CASE client[c].flags % 2 = CLIENT_READONLY
  <2>1. UNCHANGED <<input, inq>>
    BY <1>3, <1>14 DEF HandleInput
  <2>2. Kind[c] = "readonly"
    <3>1. 0 % 2 = 0
      OBVIOUS
    <3>2. client[c].flags # 0
      BY <1>14, <3>1 DEF CLIENT_READONLY
    <3> QED
      BY <1>5, <3>2 DEF InputConn, FlagsRight
  <2>3. \A e \in Conn : InputOf(e)' = InputOf(e)
    BY <2>1 DEF InputOf
  <2>4. InputConn(c)'
    BY <1>1, <1>4, <1>5, <1>7, <1>8, <2>1, <2>2, PopConn
  <2>5. ASSUME NEW e \in Conn, e # c PROVE InputConn(e)'
    <3>1. client'[e] = client[e]
      BY <1>7, <2>5
    <3> QED
      BY <1>1, <2>1, <3>1, SameStill
  <2>6. Ascends(input)' /\ (Roomy => Rises(input)' /\ inq' <= Len(input'))
    BY <2>1
  <2> QED
    BY <2>4, <2>5, <2>6
<1>15. CASE client[c].flags % 2 # CLIENT_READONLY
  <2>1. fd_write_all(c, OutputFrom(k, j))
    BY <1>3, <1>5, <1>13, <1>15 DEF HandleInput
  <2>2. Len(OutputFrom(k, j)) = j - k /\ OutputFrom(k, j) \in Seq(Nat)
    BY <1>11, <1>13, OutputJoins
  <2>3. PICK m \in 0..(j - k) : m = MinOf(j - k, PTYIN - inq)
    <3>1. inq <= PTYIN
      BY DEF IndInv, SocketsInStep
    <3>2. MinOf(j - k, PTYIN - inq) \in 0..(j - k)
      BY <1>0, <1>11, <1>13, <3>1 DEF MinOf
    <3>. QED
      BY <3>2
  <2>4. PICK w : w = [i \in 1..m |-> [conn |-> c, key |-> OutputFrom(k, j)[i]]]
    OBVIOUS
  <2>5. inq' = inq + m /\ input' = input \o w
    BY <2>1, <2>2, <2>3, <2>4 DEF fd_write_all
  <2>6. /\ Ascends(input') /\ UpTo(input', c, j)
        /\ \A e \in Conn, a \in Nat : e # c /\ UpTo(input, e, a) => UpTo(input', e, a)
    BY <1>0, <1>11, <1>13, <2>4, <2>5, AscendsWritten
  <2>7. ASSUME Roomy
        PROVE  /\ Rises(input') /\ inq' <= Len(input')
               /\ \A e \in Conn :
                    Joins(InputOf(e)', InputOf(e), IF e = c THEN OutputFrom(k, j) ELSE <<>>)
    <3>1. /\ Rises(input \o Written(c, OutputFrom(k, j)))
          /\ Len(input) + (j - k) <= PTYIN
          /\ \A e \in Conn : /\ InputIn(e, input) = InputOf(e)
                             /\ Joins(InputIn(e, input \o Written(c, OutputFrom(k, j))), InputOf(e),
                                      IF e = c THEN OutputFrom(k, j) ELSE <<>>)
      BY <1>11, <1>13, <2>7, WriteFits
    <3>2. m = j - k
      BY <1>0, <1>11, <1>13, <2>3, <2>7, <3>1 DEF MinOf
    <3>3. w = Written(c, OutputFrom(k, j))
      BY <2>2, <2>4, <3>2 DEF Written
    <3>4. w \in Seq(Units) /\ Len(w) = j - k
      BY <2>2, <3>3, WrittenType
    <3>5. Len(input') = Len(input) + (j - k)
      BY <1>0, <2>5, <3>4, ConcatProperties
    <3>6. inq' <= Len(input')
      BY <1>0, <1>11, <1>13, <2>5, <2>7, <3>2, <3>5
    <3>7. Rises(input')
      BY <2>5, <3>1, <3>3
    <3>8. ASSUME NEW e \in Conn
          PROVE  Joins(InputOf(e)', InputOf(e), IF e = c THEN OutputFrom(k, j) ELSE <<>>)
      <4>1. InputOf(e)' = InputIn(e, input')
        BY DEF InputOf, InputIn
      <4> QED
        BY <2>5, <3>1, <3>3, <4>1
    <3> QED
      BY <3>6, <3>7, <3>8
  <2>8. InputConn(c)'
    <3>1. Roomy => Joins(InputOf(c)', InputOf(c), Head(ps).payload)
      BY <1>13, <2>7
    <3>2. ASSUME NEW a \in Nat, NEW b \in Nat, UpTo(input, c, a), Follows(Head(ps), a, b)
          PROVE  UpTo(input', c, b)
      <4>1. a <= b /\ Head(ps).payload = OutputFrom(a, b)
        BY <1>6, <3>2 DEF Follows
      <4>2. /\ inq' = inq + MinOf(Len(OutputFrom(a, b)), PTYIN - inq)
            /\ input' = input \o [i \in 1..MinOf(Len(OutputFrom(a, b)), PTYIN - inq) |->
                                    [conn |-> c, key |-> OutputFrom(a, b)[i]]]
        BY <1>13, <2>1, <4>1 DEF fd_write_all
      <4>3. Len(OutputFrom(a, b)) = b - a
        BY <4>1, OutputJoins
      <4>4. MinOf(b - a, PTYIN - inq) \in 0..(b - a)
        <5>1. inq <= PTYIN
          BY DEF IndInv, SocketsInStep
        <5>. QED
          BY <1>0, <4>1, <5>1 DEF MinOf
      <4>. QED
        BY <1>0, <3>2, <4>2, <4>3, <4>4, AscendsWritten
    <3> QED
      BY <1>1, <1>4, <1>5, <1>6, <1>7, <1>8, <3>1, <3>2, PopConn
  <2>9. ASSUME NEW e \in Conn, e # c PROVE InputConn(e)'
    <3>1. client'[e] = client[e]
      BY <1>7, <2>9
    <3>2. ASSUME Roomy PROVE InputOf(e)' = InputOf(e)
      <4>1. PICK u \in Seq(Nat) : u = InputOf(e)
        <5>1. InputIn(e, input) \in Seq(Nat) /\ InputOf(e) = InputIn(e, input)
          BY <1>0, InputConcat DEF InputOf, InputIn
        <5> QED
          BY <5>1
      <4>2. u \o <<>> = u
        BY ConcatEmptySeq
      <4> QED
        BY <2>7, <2>9, <3>2, <4>1, <4>2 DEF Joins
    <3>3. Arriving(e)' = Arriving(e)
      BY <1>1, <3>1 DEF Arriving
    <3>4. PICK a \in 0..sent[e], b \in 0..sent[e] : Tally(e, a, b)
      BY DEF InputConn
    <3>5. a \in Nat
      <4>1. sent[e] \in Nat
        BY InputTypes
      <4>. QED
        BY <4>1
    <3>6. UpTo(input', e, a)
      BY <2>6, <2>9, <3>4, <3>5 DEF Tally
    <3>7. Tally(e, a, b)'
      BY <1>1, <3>2, <3>3, <3>4, <3>6 DEF Tally
    <3>8. FlagsRight(e)' /\ NotYet(e)'
      BY <1>1, <3>1, <3>3 DEF FlagsRight, NotYet, InputConn
    <3> QED
      BY <1>1, <3>4, <3>7, <3>8 DEF InputConn
  <2> QED
    BY <2>6, <2>7, <2>8, <2>9
<1> QED
  BY <1>14, <1>15

(* The child reads its terminal, writes to it or ends. *)
LEMMA ChildInput ==
    ASSUME IndInv, UNCHANGED <<serverVars, clientVars>>, \A e \in Conn : InputConn(e), Child
    PROVE  /\ input' = input /\ inq' \in Nat /\ inq' <= inq
           /\ \A e \in Conn : InputConn(e)'
<1>1. UNCHANGED <<input, up, srvSock>>
  BY DEF Child, ChildWrite, ChildRead, ChildExit, sockVars
<1>2. inq \in Nat
  BY InputTypes
<1>3. inq' \in Nat /\ inq' <= inq
  <2>1. CASE ChildRead
    BY <1>2, <2>1 DEF ChildRead
  <2>2. CASE ChildWrite \/ \E d \in Deaths : ChildExit(d)
    BY <1>2, <2>2 DEF ChildWrite, ChildExit
  <2> QED
    BY <2>1, <2>2 DEF Child
<1>4. client' = client /\ sent' = sent
  BY DEF serverVars, clientVars
<1>5. \A e \in Conn : InputConn(e)'
  BY <1>1, <1>4, SameStill
<1> QED
  BY <1>1, <1>3, <1>5

-------------------------------------------------------------------------------
(* The invariant, and what it shows. *)

LEMMA InputInit == Init => InputInv
<1>. SUFFICES ASSUME Init PROVE InputInv
  OBVIOUS
<1>0. IndInv
  BY InitInv
<1>1. ProgramRight
  BY DEF Init, ClientInit, ProgramRight
<1>2. input = <<>> /\ inq = 0 /\ Len(<<>>) = 0
  BY DEF Init, KernelInit
<1>3. Ascends(input) /\ Rises(input) /\ inq <= Len(input)
  BY <1>2 DEF Rises, Ascends
<1>4. ASSUME NEW c \in Conn PROVE InputConn(c)
  <2>1. /\ client[c].buf = <<>> /\ client[c].flags = 0 /\ up[c] = <<>> /\ sent[c] = 0
    BY DEF Init, KernelInit, ServerInit, ClientInit, NewClient
  <2>2. Arriving(c) = <<>>
    BY <2>1, EmptySeq, ConcatEmptySeq DEF Arriving
  <2>3. InputOf(c) = <<>>
    <3>1. [i \in 1..Len(input) |-> IF input[i].conn = c THEN <<input[i].key>> ELSE <<>>] = Blanks(0)
      BY <1>2 DEF Blanks
    <3>2. FlattenSeq(Blanks(0)) = <<>>
      BY FlattenBlanks
    <3> QED
      BY <3>1, <3>2 DEF InputOf
  <2>4. OutputFrom(0, 0) = <<>>
    <3>1. OutputFrom(0, 0) \in Seq(Nat) /\ Len(OutputFrom(0, 0)) = 0 - 0
      BY OutputJoins
    <3> QED
      BY <3>1, EmptySeq
  <2>5. Tally(c, 0, 0)
    <3>1. UpTo(input, c, 0)
      BY <1>2 DEF UpTo
    <3>2. CarriesUnits(Arriving(c), 0, 0)
      BY <2>2, CarriesUnitsNone
    <3>3. InputOf(c) = OutputFrom(0, 0)
      BY <2>3, <2>4
    <3>. QED
      BY <2>1, <3>1, <3>2, <3>3 DEF Tally
  <2>6. FlagsRight(c) /\ NotYet(c)
    BY <1>2, <2>1, <2>2 DEF FlagsRight, NotYet
  <2> QED
    BY <2>1, <2>5, <2>6 DEF InputConn
<1> QED
  BY <1>0, <1>1, <1>3, <1>4 DEF InputInv

LEMMA InputStep == InputInv /\ [Next]_vars => InputInv'
<1>. SUFFICES ASSUME InputInv, [Next]_vars PROVE InputInv'
  OBVIOUS
<1>0. IndInv /\ IndInv' /\ ProgramRight
  BY NextInv DEF InputInv
<1> DEFINE Good == /\ Ascends(input)
                   /\ Roomy => Rises(input) /\ inq <= Len(input)
                   /\ \A e \in Conn : InputConn(e)
<1>1. Good
  BY DEF InputInv
<1>2. inq \in Nat /\ Len(input) \in Nat
  BY <1>0, InputTypes
(* Steps that leave the terminal's input alone. *)
<1>3. ASSUME input' = input, inq' \in Nat, inq' <= inq, \A e \in Conn : InputConn(e)'
      PROVE  Good'
  <2>1. Roomy' <=> Roomy
    BY DEF Roomy
  <2>. QED
    BY <1>1, <1>2, <1>3, <2>1
<1>4. ASSUME UNCHANGED <<input, inq>> /\ \A e \in Conn : InputConn(e)'
      PROVE  Good'
  BY <1>2, <1>3, <1>4
<1> HIDE DEF Good
<1>5. ASSUME Server, UNCHANGED clientVars PROVE Good'
  <2>0. \A e \in Conn : InputConn(e)
    BY <1>1, <1>5 DEF Good
  <2>1. CASE \/ PollShutdown \/ AcceptDone \/ PtyDone \/ WaitPid \/ EndClient
             \/ \E n \in 1..MAX_PAYLOAD : ReadPty(n)
             \/ ReplayChunk \/ ReplayFail \/ ReplayEnd \/ QueueExit
    BY <1>0, <1>4, <1>5, <2>0, <2>1, QuietInput
  <2>2. CASE \E c \in Conn : Accept(c) \/ AcceptDropped(c)
    BY <1>0, <1>4, <1>5, <2>0, <2>2, AcceptInput
  <2>3. CASE \E c \in Conn : ReadClient(c)
    BY <1>0, <1>4, <1>5, <2>0, <2>3, ReadInput
  <2>4. CASE HandleAttach \/ HandleDump \/ HandleResize \/ HandleDetach
    BY <1>0, <1>4, <1>5, <2>0, <2>4, HandleOtherInput
  <2>5. CASE HandleInput
    BY <1>0, <1>1, <1>5, <2>0, <2>5, HandleInputStep DEF Good
  <2>6. CASE FlushAndReap
    BY <1>0, <1>4, <1>5, <2>0, <2>6, FlushInput
  <2> QED
    BY <1>5, <2>1, <2>2, <2>3, <2>4, <2>5, <2>6 DEF Server
<1>6. ASSUME Child, UNCHANGED <<serverVars, clientVars>> PROVE Good'
  <2>0. \A e \in Conn : InputConn(e)
    BY <1>1, <1>6 DEF Good
  <2> QED
    BY <1>0, <1>3, <1>6, <2>0, ChildInput
<1>7. ASSUME NEW c \in Conn, ClientRuns(c) \/ ClientUser(c), UNCHANGED serverVars
      PROVE  Good'
  <2>0. \A e \in Conn : InputConn(e)
    BY <1>1, <1>7 DEF Good
  <2>1. ClientMove(c)
    BY <1>0, <1>7, ClientMoves
  <2>2. UNCHANGED <<input, inq>>
    BY <2>1 DEF ClientMove
  <2>3. \A e \in Conn : InputConn(e)'
    BY <1>0, <2>0, <2>1, ClientInput
  <2> QED
    BY <1>4, <1>7, <2>2, <2>3
<1>8. ASSUME Shutdown \/ \E c \in Conn : Elapse(c), UNCHANGED clientVars PROVE Good'
  <2>0. \A e \in Conn : InputConn(e)
    BY <1>1, <1>8 DEF Good
  <2> QED
    BY <1>0, <1>4, <1>8, <2>0, QuietInput
<1>9. ASSUME Terminated \/ UNCHANGED vars PROVE Good'
  <2>0. \A e \in Conn : InputConn(e)
    BY <1>1, <1>9 DEF Good
  <2>1. UNCHANGED <<input, inq, client, up, srvSock, sent>>
    BY <1>9 DEF Terminated, vars, kernelVars, ptyVars, sockVars, serverVars, clientVars
  <2>2. \A e \in Conn : InputConn(e)'
    BY <2>0, <2>1, SameStill
  <2> QED
    BY <1>4, <1>9, <2>1, <2>2
<1>10. Good'
  BY <1>5, <1>6, <1>7, <1>8, <1>9 DEF Next
<1>11. ProgramRight'
  <2>1. ASSUME NEW c \in Conn, ClientRuns(c) \/ ClientUser(c) PROVE ProgramRight'
    BY <1>0, <2>1, ProgramStep
  <2>2. CASE UNCHANGED cpc
    BY <1>0, <2>2 DEF ProgramRight
  <2> QED
    BY <2>1, <2>2 DEF Next, clientVars, Terminated, vars
<1> QED
  BY <1>0, <1>10, <1>11 DEF InputInv, Good

LEMMA InputInvariance == Spec => []InputInv
BY InputInit, InputStep, PTL DEF Spec

(* What the pty has of any client's input, one that was killed, reset or    *)
(* closed by the server included, is the beginning of what it typed or      *)
(* sent: with room in the terminal read_client_packets loses nothing from   *)
(* the middle and repeats nothing, however many clients there are and       *)
(* however their packets are cut and interleaved.                           *)
THEOREM InputsPrefix == Spec => []InputPrefix
<1>1. InputInv => InputPrefix
  <2>. SUFFICES ASSUME InputInv, PTYIN >= KEYS * Cardinality(Conn), NEW c \in Conn
               PROVE  /\ Len(InputOf(c)) <= sent[c]
                      /\ InputOf(c) = OutputFrom(0, Len(InputOf(c)))
    BY DEF InputPrefix
  <2>1. InputConn(c) /\ IndInv
    BY DEF InputInv
  <2>2. PICK k \in 0..sent[c], n \in 0..sent[c] : Tally(c, k, n)
    BY <2>1 DEF InputConn
  <2>3. sent[c] \in Nat /\ k \in Nat
    BY <2>1, <2>2, InputTypes
  <2>4. Len(OutputFrom(0, k)) = k - 0
    BY <2>3, OutputJoins
  <2>5. InputOf(c) = OutputFrom(0, k)
    BY <2>2 DEF Tally, Roomy
  <2> QED
    BY <2>2, <2>3, <2>4, <2>5
<1> QED
  BY <1>1, InputInvariance, PTL

-------------------------------------------------------------------------------
(* A send-keys client and the server's steps. *)

(* The client's end of c is left alone. *)
Resting(c) ==
    /\ cpc'[c] = cpc[c] /\ cliSock'[c] = cliSock[c] /\ result'[c] = result[c]
    /\ sent'[c] = sent[c] /\ rbuf'[c] = rbuf[c]

(* The server does not turn to c. *)
Elsewhere(c) ==
    /\ pc' = "replay" /\ cur' = c => pc = "replay" /\ cur = c
    /\ pc' = "handle" /\ cur' = c /\ saw_eof' => pc = "handle" /\ cur = c /\ saw_eof

(* A step that leaves all of c alone. *)
LEMMA KeysSame ==
    ASSUME NEW c \in Conn, KeysConn(c), Resting(c), Elsewhere(c),
           client'[c] = client[c], up'[c] = up[c], down'[c] = down[c],
           srvSock'[c] = srvSock[c], InputOf(c)' = InputOf(c),
           child_exit' = NoStatus => child_exit = NoStatus
    PROVE  KeysConn(c)'
<1>1. Arriving(c)' = Arriving(c)
  BY DEF Arriving
<1>2. KeysProgram(c)'
  BY <1>1 DEF KeysConn, KeysProgram, Resting, Elsewhere
<1>3. Calm' => Calm
  BY DEF Calm, Roomy
<1>4. ASSUME Calm PROVE KeysQuiet(c)' /\ KeysLeft(c)'
  <2>1. KeysQuiet(c)'
    BY <1>4 DEF KeysConn, KeysQuiet, Resting
  <2>2. KeysLeft(c)'
    BY <1>1, <1>4 DEF KeysConn, KeysLeft, Resting, Elsewhere
  <2> QED
    BY <2>1, <2>2
<1> QED
  BY <1>2, <1>3, <1>4 DEF KeysConn

(* The session is not calm any more, or was not: only the program matters. *)
LEMMA KeysNotCalm ==
    ASSUME NEW c \in Conn, KeysConn(c), Resting(c), Elsewhere(c), ~Calm',
           srvSock'[c] = "backlog" => srvSock[c] = "backlog",
           Arriving(c)' = Arriving(c) \/ Arriving(c)' = <<>>, client'[c].attached = client[c].attached
    PROVE  KeysConn(c)'
<1>1. Len(<<>>) = 0
  OBVIOUS
<1>2. \A i \in 1..Len(Arriving(c)') : Arriving(c)'[i].typ = "SEND_KEYS"
  BY <1>1 DEF KeysConn, KeysProgram
<1> QED
  BY <1>2 DEF KeysConn, KeysProgram, Resting, Elsewhere

(* The steps that touch nothing of any client. *)
LEMMA KeysIdle ==
    ASSUME UNCHANGED clientVars, NEW c \in Conn, KeysConn(c),
           PollShutdown \/ AcceptDone \/ PtyDone \/ WaitPid \/ Shutdown
    PROVE  KeysConn(c)'
<1>1. UNCHANGED <<client, cliSock, srvSock, up, down, input>>
  BY DEF PollShutdown, AcceptDone, PtyDone, WaitPid, Shutdown, kernelVars, sockVars, ptyVars
<1>2. child_exit' = NoStatus => child_exit = NoStatus
  BY DEF PollShutdown, AcceptDone, PtyDone, WaitPid, Shutdown
<1>3. Elsewhere(c)
  BY DEF Elsewhere, PollShutdown, AcceptDone, PtyDone, WaitPid, Shutdown
<1>4. Resting(c) /\ InputOf(c)' = InputOf(c)
  BY <1>1 DEF Resting, clientVars, InputOf
<1> QED
  BY <1>1, <1>2, <1>3, <1>4, KeysSame

(* The packets in the kernel are among those not handled. *)
LEMMA SecondPart ==
    ASSUME NEW s \in Seq(Packet), NEW t \in Seq(Packet), NEW typ,
           \A i \in 1..Len(s \o t) : (s \o t)[i].typ = typ
    PROVE  \A i \in 1..Len(t) : t[i].typ = typ
<1>. SUFFICES ASSUME NEW i \in 1..Len(t) PROVE t[i].typ = typ
  OBVIOUS
<1>1. Len(s) \in Nat /\ Len(t) \in Nat
  OBVIOUS
<1>2. /\ Len(s \o t) = Len(s) + Len(t)
      /\ \A j \in 1..(Len(s) + Len(t)) :
           (s \o t)[j] = IF j <= Len(s) THEN s[j] ELSE t[j - Len(s)]
  BY ConcatProperties
<1>3. PICK j \in 1..(Len(s) + Len(t)) : j = Len(s) + i
  BY <1>1
<1>4. ~(j <= Len(s)) /\ j - Len(s) = i
  BY <1>1, <1>3
<1>5. (s \o t)[j] = t[i] /\ (s \o t)[j].typ = typ
  BY <1>2, <1>4
<1> QED
  BY <1>5

(* The struct of c is a new one: what is not read stays. *)
LEMMA FreshUnread ==
    ASSUME IndInv, NEW c \in Conn, KeysProgram(c), up' = up, client'[c] = NewClient
    PROVE  \A i \in 1..Len(Arriving(c)') : Arriving(c)'[i].typ = "SEND_KEYS"
<1>1. PICK s \in Seq(Packet), t \in Seq(Packet) : s = client[c].buf /\ t = up[c]
  BY InputTypes
<1>2. Arriving(c)' = t
  <2>1. <<>> \o t = t
    BY ConcatEmptySeq
  <2> QED
    BY <1>1, <2>1 DEF Arriving, NewClient
<1>3. Arriving(c) = s \o t
  BY <1>1 DEF Arriving
<1>4. \A i \in 1..Len(Arriving(c)) : Arriving(c)[i].typ = "SEND_KEYS"
  BY DEF KeysProgram
<1> QED
  BY <1>2, <1>3, <1>4, SecondPart

(* accept. *)
LEMMA KeysAccept ==
    ASSUME IndInv, UNCHANGED clientVars, NEW c \in Conn, KeysConn(c),
           NEW e \in Conn, Accept(e) \/ AcceptDropped(e)
    PROVE  KeysConn(c)'
<1>0. /\ client \in [Conn -> Client] /\ down \in [Conn -> Seq(Cell)]
      /\ srvSock \in [Conn -> {"none", "backlog", "open", "closed"}]
  BY TableTypes
<1>1. /\ UNCHANGED <<input, up, cliSock, pc, cur, saw_eof, child_exit>>
      /\ SendPid(e) /\ srvSock[e] = "backlog" /\ pc = "accept"
  BY DEF Accept, AcceptDropped, ptyVars, serverVars
<1>2. Resting(c) /\ Elsewhere(c) /\ InputOf(c)' = InputOf(c)
  BY <1>1 DEF Resting, Elsewhere, clientVars, InputOf
<1>3. CASE e # c
  <2>1. down'[c] = down[c]
    BY <1>0, <1>1, <1>3 DEF SendPid
  <2>2. client'[c] = client[c] /\ srvSock'[c] = srvSock[c]
    <3>1. CASE Accept(e)
      BY <1>0, <1>3, <3>1 DEF Accept
    <3>2. CASE AcceptDropped(e)
      BY <1>0, <1>3, <3>2 DEF AcceptDropped, serverVars
    <3> QED
      BY <3>1, <3>2
  <2> QED
    BY <1>1, <1>2, <2>1, <2>2, KeysSame
<1>4. CASE e = c /\ AcceptDropped(c)
  <2>1. ~Calm' /\ client' = client /\ srvSock'[c] # "backlog"
    BY <1>0, <1>4 DEF AcceptDropped, Calm, serverVars
  <2>2. Arriving(c)' = Arriving(c)
    BY <1>1, <2>1 DEF Arriving
  <2> QED
    BY <1>2, <2>1, <2>2, KeysNotCalm
<1>5. CASE e = c /\ Accept(c)
  <2>1. client'[c] = NewClient /\ srvSock'[c] = "open"
    BY <1>0, <1>5 DEF Accept
  <2>2. KeysProgram(c)
    BY DEF KeysConn
  <2>3. /\ \A i \in 1..Len(Arriving(c)') : Arriving(c)'[i].typ = "SEND_KEYS"
        /\ ~client'[c].attached
    BY <1>1, <2>1, <2>2, FreshUnread DEF NewClient
  <2>4. KeysProgram(c)'
    BY <1>1, <1>2, <2>1, <2>3 DEF KeysConn, KeysProgram, Resting, Elsewhere
  <2>5. down[c] = <<>>
    BY <1>1, <1>5, InvSplit DEF TablesInv, ConnInStep
  <2>6. down'[c] = <<>> \/ (Len(down'[c]) = 2 /\ down'[c][1].val = 1)
    <3>1. CASE cliSock[c] # "open"
      BY <1>1, <1>5, <2>5, <3>1 DEF SendPid
    <3>2. CASE cliSock[c] = "open"
      <4> DEFINE p == [typ |-> "PID", payload |-> <<1>>]
      <4>1. down'[c] = <<>> \o packet_bytes(p)
        BY <1>0, <1>1, <1>5, <2>5, <3>2 DEF SendPid
      <4>2. p \in Packet /\ Len(p.payload) = 1
        BY DEF Packet, MsgType
      <4>3. packet_bytes(p) \in Seq(Cell) /\ Len(packet_bytes(p)) = 1 + 1
        BY <4>2, PacketBytesType
      <4>4. packet_bytes(p)[1].val = 1
        BY <4>2 DEF packet_bytes
      <4>5. <<>> \o packet_bytes(p) = packet_bytes(p)
        BY <4>3, ConcatEmptySeq
      <4> HIDE DEF p
      <4> QED
        BY <4>1, <4>3, <4>4, <4>5
    <3> QED
      BY <3>1, <3>2
  <2>7. ASSUME Calm' PROVE KeysQuiet(c)' /\ KeysLeft(c)'
    <3>1. Calm /\ cpc[c] \in {"pid", "done"}
      BY <1>1, <1>5, <2>7 DEF Calm, Roomy, KeysConn, KeysProgram
    <3>2. KeysQuiet(c)'
      BY <1>2, <2>1, <2>6, <3>1 DEF KeysConn, KeysQuiet, Resting, NewClient
    <3>3. KeysLeft(c)'
      BY <1>1, <1>2, <2>1 DEF KeysLeft, NewClient
    <3> QED
      BY <3>2, <3>3
  <2> QED
    BY <2>4, <2>7 DEF KeysConn
<1> QED
  BY <1>3, <1>4, <1>5

(* The broadcast, send_history, MSG_EXIT and the clock. *)
LEMMA KeysSends ==
    ASSUME IndInv, UNCHANGED clientVars, NEW c \in Conn, KeysConn(c),
           \/ \E n \in 1..MAX_PAYLOAD : ReadPty(n)
           \/ ReplayChunk \/ ReplayFail \/ ReplayEnd \/ QueueExit
           \/ \E e \in Conn : Elapse(e)
    PROVE  KeysConn(c)'
<1>0. client \in [Conn -> Client] /\ down \in [Conn -> Seq(Cell)]
  BY TableTypes
<1>1. UNCHANGED <<input, up, srvSock, cliSock, cur, saw_eof, child_exit>>
  BY DEF ReadPty, ReplayChunk, ReplayFail, ReplayEnd, QueueExit, Elapse,
         kernelVars, sockVars, ptyVars
<1>2. Resting(c) /\ InputOf(c)' = InputOf(c)
  BY <1>1 DEF Resting, clientVars, InputOf
<1>3. ~client[c].attached /\ ~(pc = "replay" /\ cur = c)
  BY DEF KeysConn, KeysProgram
<1>4. Elsewhere(c)
  BY <1>1, <1>3 DEF Elsewhere, ReadPty, ReplayChunk, ReplayFail, ReplayEnd, QueueExit, Elapse
<1>5. ASSUME client'[c] = client[c], down'[c] = down[c] PROVE KeysConn(c)'
  BY <1>1, <1>2, <1>4, <1>5, KeysSame
<1>6. ASSUME NEW n \in 1..MAX_PAYLOAD, ReadPty(n) PROVE KeysConn(c)'
  <2>1. client'[c] = client[c] /\ down'[c] = down[c]
    BY <1>3, <1>6 DEF ReadPty, broadcast_content, SendAll
  <2> QED
    BY <1>5, <2>1
<1>7. CASE ReplayChunk
  <2>1. client'[c] = client[c] /\ down'[c] = down[c]
    BY <1>3, <1>7 DEF ReplayChunk, SendAll
  <2> QED
    BY <1>5, <2>1
<1>8. CASE ReplayFail
  <2>1. client'[c] = client[c] /\ down'[c] = down[c]
    BY <1>3, <1>8 DEF ReplayFail, SendAll
  <2> QED
    BY <1>5, <2>1
<1>9. CASE ReplayEnd
  <2>1. client'[c] = client[c] /\ down'[c] = down[c]
    BY <1>3, <1>9 DEF ReplayEnd, SendAll
  <2> QED
    BY <1>5, <2>1
<1>10. CASE QueueExit /\ child_exit = NoStatus
  <2>1. client'[c] = client[c] /\ down'[c] = down[c]
    BY <1>10 DEF QueueExit
  <2> QED
    BY <1>5, <2>1
<1>11. CASE QueueExit /\ child_exit # NoStatus
  <2> DEFINE p == [typ |-> "EXIT", payload |-> <<child_exit>>]
  <2>1. client'[c] \in {client[c], SentThenClose(c, send_packet_nonblocking(c, p))}
    BY <1>11 DEF QueueExit, SendAll
  <2>2. client'[c].buf = client[c].buf /\ client'[c].attached = client[c].attached
    BY <1>0, <2>1 DEF SentThenClose, Client
  <2>3. ~Calm' /\ Arriving(c)' = Arriving(c)
    BY <1>1, <1>11, <2>2 DEF Calm, Arriving
  <2> QED
    BY <1>1, <1>2, <1>4, <2>2, <2>3, KeysNotCalm
<1>12. ASSUME NEW e \in Conn, Elapse(e) PROVE KeysConn(c)'
  <2>0. /\ client' = [client EXCEPT ![e].close_after_drain = "late"] /\ down' = down
        /\ client[e].close_after_drain = "set"
    BY <1>12 DEF Elapse, kernelVars, sockVars
  <2>1. CASE e # c
    BY <1>0, <1>5, <2>0, <2>1
  <2>2. CASE e = c
    <3>1. ~Calm
      BY <2>0, <2>2 DEF KeysConn, KeysQuiet
    <3>2. ~Calm'
      BY <1>1, <3>1 DEF Calm, Roomy
    <3>3. client'[c].buf = client[c].buf /\ client'[c].attached = client[c].attached
      BY <1>0, <2>0, <2>2 DEF Client
    <3>4. Arriving(c)' = Arriving(c)
      BY <1>1, <3>3 DEF Arriving
    <3> QED
      BY <1>1, <1>2, <1>4, <3>2, <3>3, <3>4, KeysNotCalm
  <2> QED
    BY <2>1, <2>2
<1> QED
  BY <1>6, <1>7, <1>8, <1>9, <1>10, <1>11, <1>12

(* read_client_packets reads what has come from e.  For a client that has   *)
(* gone with "ok" that is not a reset, and the end of its stream.           *)
LEMMA KeysRead ==
    ASSUME IndInv, UNCHANGED clientVars, NEW c \in Conn, KeysConn(c),
           NEW e \in Conn, ReadClient(e)
    PROVE  KeysConn(c)'
<1>0. client \in [Conn -> Client] /\ up \in [Conn -> Seq(Packet)]
  BY TableTypes
<1>1. /\ UNCHANGED <<input, srvSock, cliSock, down, child_exit>>
      /\ up' = [up EXCEPT ![e] = <<>>] /\ pc = "read" /\ pc' \in {"read", "handle"}
      /\ pc' = "handle" => cur' = e /\ saw_eof' = (cliSock[e] = "closed")
  BY DEF ReadClient, ptyVars
<1>2. Resting(c) /\ InputOf(c)' = InputOf(c) /\ (Calm' => Calm)
  BY <1>1 DEF Resting, clientVars, InputOf, Calm, Roomy
<1>3. CASE e # c
  <2>1. client'[c] = client[c] /\ up'[c] = up[c]
    BY <1>0, <1>1, <1>3 DEF ReadClient
  <2>2. Elsewhere(c)
    BY <1>1, <1>3 DEF Elsewhere
  <2> QED
    BY <1>1, <1>2, <2>1, <2>2, KeysSame
<1>4. CASE e = c
  <2>1. /\ client'[c].buf = client[c].buf \o up[c]
        /\ client'[c].attached = client[c].attached
        /\ client'[c].send_queue = client[c].send_queue
        /\ client'[c].close_after_drain = client[c].close_after_drain
        /\ client'[c].disconnected => client[c].disconnected \/ cliSock[c] = "reset"
    <3>0. client[c] \in Client
      BY <1>0
    <3>1. CASE cliSock[c] = "reset"
      <4>1. client'[c] = [client[c] EXCEPT !.buf = client[c].buf \o up[c], !.disconnected = TRUE]
        BY <1>0, <1>4, <3>1 DEF ReadClient
      <4> QED
        BY <3>0, <3>1, <4>1 DEF Client
    <3>2. CASE cliSock[c] # "reset"
      <4>1. client'[c] = [client[c] EXCEPT !.buf = client[c].buf \o up[c]]
        BY <1>0, <1>4, <3>2 DEF ReadClient
      <4> QED
        BY <3>0, <4>1 DEF Client
    <3> QED
      BY <3>1, <3>2
  <2>2. up'[c] = <<>>
    BY <1>0, <1>1, <1>4
  <2>3. Arriving(c)' = Arriving(c)
    <3>1. Arriving(c) \in Seq(Packet)
      BY InputTypes
    <3>2. Arriving(c) \o <<>> = Arriving(c)
      BY <3>1, ConcatEmptySeq
    <3> QED
      BY <2>1, <2>2, <3>2 DEF Arriving
  <2>4. KeysProgram(c)'
    BY <1>1, <1>2, <2>1, <2>3 DEF KeysConn, KeysProgram, Resting
  <2>5. ASSUME Calm' PROVE KeysQuiet(c)' /\ KeysLeft(c)'
    <3>0. KeysQuiet(c) /\ KeysLeft(c) /\ KeysProgram(c)
      BY <1>2, <2>5 DEF KeysConn
    <3>1. KeysQuiet(c)'
      BY <1>1, <1>2, <2>1, <3>0 DEF KeysQuiet, Resting
    <3>2. /\ cliSock[c] \in {"closed", "reset"} => cpc[c] = "done"
          /\ cliSock[c] = "reset" => result[c] # "ok"
      BY <3>0 DEF KeysProgram, KeysQuiet
    <3>3. KeysLeft(c)'
      BY <1>1, <1>2, <1>4, <2>1, <2>2, <2>3, <3>0, <3>2 DEF KeysLeft, Resting
    <3> QED
      BY <3>1, <3>3
  <2> QED
    BY <2>4, <2>5 DEF KeysConn
<1> QED
  BY <1>3, <1>4

(* What another client has written is not c's. *)
LEMMA OthersInput ==
    ASSUME IndInv, NEW c \in Conn, HandleInput, cur # c
    PROVE  InputOf(c)' = InputOf(c)
<1>1. InputOf(c) = InputIn(c, input) /\ InputOf(c)' = InputIn(c, input')
  BY DEF InputOf, InputIn
<1>2. CASE input' = input
  BY <1>1, <1>2
<1>3. CASE fd_write_all(cur, front.payload)
  <2>1. cur \in Conn /\ front \in Packet
    BY FrontType DEF HandleInput
  <2>2. PICK keys \in Seq(Nat) : keys = front.payload
    BY <2>1 DEF Packet
  <2>3. PICK n : n = MinOf(Len(keys), PTYIN - inq)
    OBVIOUS
  <2>4. n \in 0..Len(keys)
    <3>1. PTYIN - inq \in Nat /\ Len(keys) \in Nat
      BY InvSplit, BoundAssumption DEF ValuesInv
    <3>2. n \in Nat /\ n <= Len(keys)
      BY <2>3, <3>1, MinOfType
    <3> QED
      BY <3>1, <3>2
  <2>5. PICK ks : ks = [i \in 1..n |-> keys[i]]
    OBVIOUS
  <2>6. ks \in Seq(Nat) /\ Len(ks) = n
    <3>1. n \in Nat /\ \A i \in 1..n : keys[i] \in Nat
      BY <2>4
    <3>2. ks \in [1..n -> Nat]
      BY <2>5, <3>1
    <3> QED
      BY <3>1, <3>2, FunctionIsSeq
  <2>7. input' = input \o Written(cur, ks)
    <3>1. input' = input \o [i \in 1..n |-> [conn |-> cur, key |-> keys[i]]]
      BY <1>3, <2>2, <2>3 DEF fd_write_all
    <3>2. [i \in 1..n |-> [conn |-> cur, key |-> keys[i]]] = Written(cur, ks)
      BY <2>5, <2>6 DEF Written
    <3> QED
      BY <3>1, <3>2
  <2>8. PICK w \in Seq(Units) : w = Written(cur, ks)
    BY <2>1, <2>6, WrittenType
  <2>9. InputIn(c, w) = <<>>
    BY <2>1, <2>6, <2>8, InputWritten
  <2>10. PICK s \in Seq(Units) : s = input
    BY InputTypes
  <2>11. InputIn(c, s) \in Seq(Nat) /\ Joins(InputIn(c, s \o w), InputIn(c, s), InputIn(c, w))
    BY InputConcat
  <2>12. InputIn(c, s) \o <<>> = InputIn(c, s)
    BY <2>11, ConcatEmptySeq
  <2> QED
    BY <1>1, <2>7, <2>8, <2>9, <2>10, <2>11, <2>12 DEF Joins
<1> QED
  BY <1>2, <1>3 DEF HandleInput

(* The packets of e are handled: those of c are keys. *)
LEMMA KeysHandle ==
    ASSUME IndInv, UNCHANGED clientVars, NEW c \in Conn, KeysConn(c),
           InputOf(c)' = InputOf(c) \/ cur = c,
           HandleInput \/ HandleAttach \/ HandleDump \/ HandleResize \/ HandleDetach
    PROVE  KeysConn(c)'
<1>0. client \in [Conn -> Client]
  BY TableTypes
<1>1. /\ UNCHANGED <<up, down, srvSock, cliSock, cur, saw_eof, child_exit>>
      /\ pc = "handle" /\ pc' \in {"handle", "replay"}
  BY DEF HandleInput, HandleAttach, HandleDump, HandleResize, HandleDetach, Popping,
         kernelVars, sockVars
<1>2. Resting(c) /\ (Calm' => Calm)
  BY <1>1 DEF Resting, clientVars, Calm, Roomy
<1>3. PICK types : /\ Popping(types)
                   /\ HandleInput \/ "SEND_KEYS" \notin types
  <2>1. CASE HandleInput
    BY <2>1 DEF HandleInput
  <2>2. CASE HandleAttach
    <3>1. Popping({"ATTACH"}) /\ "SEND_KEYS" \notin {"ATTACH"}
      BY <2>2 DEF HandleAttach
    <3> QED
      BY <3>1
  <2>3. CASE HandleDump
    <3>1. Popping({"DUMP"}) /\ "SEND_KEYS" \notin {"DUMP"}
      BY <2>3 DEF HandleDump
    <3> QED
      BY <3>1
  <2>4. CASE HandleResize
    <3>1. Popping({"RESIZE"}) /\ "SEND_KEYS" \notin {"RESIZE"}
      BY <2>4 DEF HandleResize
    <3> QED
      BY <3>1
  <2>5. CASE HandleDetach
    <3>1. Popping({"DETACH", "EXIT"}) /\ "SEND_KEYS" \notin {"DETACH", "EXIT"}
      BY <2>5 DEF HandleDetach
    <3> QED
      BY <3>1
  <2> QED
    BY <2>1, <2>2, <2>3, <2>4, <2>5
<1>4. /\ cur \in Conn /\ srvSock[cur] = "open" /\ Arriving(cur) \in Seq(Packet)
      /\ Arriving(cur) # <<>> /\ Head(Arriving(cur)) = front
      /\ Tail(client[cur].buf) \o up[cur] = Tail(Arriving(cur))
  BY <1>3, FrontUnread
<1>5. CASE cur # c
  <2>1. client'[c] = client[c]
    BY <1>0, <1>4, <1>5 DEF HandleInput, HandleAttach, HandleDump, HandleResize, HandleDetach
  <2>2. Elsewhere(c)
    BY <1>1, <1>5 DEF Elsewhere
  <2> QED
    BY <1>1, <1>2, <1>5, <2>1, <2>2, KeysSame
<1>6. CASE cur = c
  <2>1. PICK ps \in Seq(Packet) : ps = Arriving(c)
    BY <1>4, <1>6
  <2>2. /\ ps # <<>> /\ Head(ps) = ps[1] /\ Len(ps) \in Nat /\ Len(ps) # 0
        /\ Len(Tail(ps)) = Len(ps) - 1
        /\ \A i \in 1..(Len(ps) - 1) : Tail(ps)[i] = ps[i + 1]
    <3>1. ps # <<>>
      BY <1>4, <1>6, <2>1
    <3> QED
      BY <3>1
  <2>3. \A i \in 1..Len(ps) : ps[i].typ = "SEND_KEYS"
    BY <2>1 DEF KeysConn, KeysProgram
  <2>4. front.typ = "SEND_KEYS"
    <3>1. front = ps[1]
      BY <1>4, <1>6, <2>1, <2>2
    <3>2. 1 \in 1..Len(ps)
      BY <2>2
    <3> QED
      BY <2>3, <3>1, <3>2
  <2>5. HandleInput
    BY <1>3, <2>4 DEF Popping, front
  <2>6. client'[c] = Popped /\ pc' = pc /\ client[c] \in Client
    BY <1>0, <1>6, <2>5 DEF HandleInput
  <2>7. /\ client'[c].buf = Tail(client[c].buf)
        /\ client'[c].attached = client[c].attached
        /\ client'[c].send_queue = client[c].send_queue
        /\ client'[c].close_after_drain = client[c].close_after_drain
        /\ client'[c].disconnected = client[c].disconnected
    BY <1>6, <2>6 DEF Popped, Client
  <2>8. Arriving(c)' = Tail(ps)
    BY <1>1, <1>4, <1>6, <2>1, <2>7 DEF Arriving
  <2>9. \A i \in 1..Len(Tail(ps)) : Tail(ps)[i].typ = "SEND_KEYS"
    <3>. SUFFICES ASSUME NEW i \in 1..(Len(ps) - 1) PROVE Tail(ps)[i].typ = "SEND_KEYS"
      BY <2>2
    <3>1. i + 1 \in 1..Len(ps) /\ Tail(ps)[i] = ps[i + 1]
      BY <2>2
    <3> QED
      BY <2>3, <3>1
  <2>10. KeysProgram(c)'
    BY <1>1, <1>2, <2>6, <2>7, <2>8, <2>9 DEF KeysConn, KeysProgram, Resting
  <2>11. ASSUME Calm' PROVE KeysQuiet(c)' /\ KeysLeft(c)'
    <3>0. KeysQuiet(c) /\ KeysLeft(c) /\ KeysProgram(c)
      BY <1>2, <2>11 DEF KeysConn
    <3>1. KeysQuiet(c)'
      BY <1>1, <1>2, <2>7, <3>0 DEF KeysQuiet, Resting
    <3>2. client[c].disconnected => cpc[c] = "done" /\ result[c] # "ok"
      BY <2>1, <2>2, <3>0 DEF KeysLeft
    <3>3. KeysLeft(c)'
      BY <1>1, <1>2, <1>4, <1>6, <2>6, <2>7, <3>0, <3>2 DEF KeysLeft, Resting
    <3> QED
      BY <3>1, <3>3
  <2> QED
    BY <2>10, <2>11 DEF KeysConn
<1> QED
  BY <1>5, <1>6

(* No packet is left: at the end of its stream the client is dropped. *)
LEMMA KeysEnd ==
    ASSUME IndInv, UNCHANGED clientVars, NEW c \in Conn, KeysConn(c), EndClient
    PROVE  KeysConn(c)'
<1>0. client \in [Conn -> Client] /\ cur \in Conn
  BY TableTypes, InvSplit DEF EndClient, LoopInv, TablesInv
<1>1. /\ UNCHANGED <<up, down, srvSock, cliSock, child_exit, input>>
      /\ pc = "handle" /\ pc' = "read" /\ client[cur].buf = <<>>
      /\ client' = [client EXCEPT ![cur] =
                       [client[cur] EXCEPT !.disconnected = client[cur].disconnected \/ saw_eof]]
  BY <1>0 DEF EndClient, kernelVars, sockVars, ptyVars
<1>2. Resting(c) /\ Elsewhere(c) /\ InputOf(c)' = InputOf(c) /\ (Calm' => Calm)
  BY <1>1 DEF Resting, Elsewhere, InputOf, clientVars, Calm, Roomy
<1>3. CASE cur # c
  <2>1. client'[c] = client[c]
    BY <1>0, <1>1, <1>3
  <2> QED
    BY <1>1, <1>2, <2>1, KeysSame
<1>4. CASE cur = c
  <2>1. client'[c] = [client[c] EXCEPT !.disconnected = client[c].disconnected \/ saw_eof]
    BY <1>0, <1>1, <1>4
  <2>2. /\ client'[c].buf = client[c].buf
        /\ client'[c].attached = client[c].attached
        /\ client'[c].send_queue = client[c].send_queue
        /\ client'[c].close_after_drain = client[c].close_after_drain
    BY <1>0, <2>1 DEF Client
  <2>3. client'[c].disconnected => client[c].disconnected \/ saw_eof
    BY <1>0, <2>1 DEF Client
  <2>4. Arriving(c)' = Arriving(c)
    BY <1>1, <2>2 DEF Arriving
  <2>5. KeysProgram(c)'
    BY <1>1, <1>2, <2>2, <2>4 DEF KeysConn, KeysProgram, Resting, Elsewhere
  <2>6. ASSUME Calm' PROVE KeysQuiet(c)' /\ KeysLeft(c)'
    <3>0. KeysQuiet(c) /\ KeysLeft(c)
      BY <1>2, <2>6 DEF KeysConn
    <3>1. KeysQuiet(c)'
      BY <1>1, <1>2, <2>2, <3>0 DEF KeysQuiet, Resting
    <3>2. saw_eof => cpc[c] = "done" /\ Arriving(c) = <<>>
      <4>1. saw_eof => cpc[c] = "done" /\ up[c] = <<>>
        BY <1>1, <1>4, <3>0 DEF KeysLeft
      <4>2. <<>> \o <<>> = <<>>
        BY EmptySeq, ConcatEmptySeq
      <4> QED
        BY <1>1, <1>4, <4>1, <4>2 DEF Arriving
    <3>3. KeysLeft(c)'
      BY <1>1, <1>2, <2>3, <2>4, <3>0, <3>2 DEF KeysLeft, Resting
    <3> QED
      BY <3>1, <3>3
  <2> QED
    BY <2>5, <2>6 DEF KeysConn
<1> QED
  BY <1>3, <1>4

(* All of c's input has reached the pty. *)
LEMMA AllHandled ==
    ASSUME IndInv, Roomy, NEW c \in Conn, Kind[c] = "keys", InputConn(c),
           srvSock[c] = "open", Arriving(c) = <<>>, sent[c] = KEYS
    PROVE  InputOf(c) = OutputFrom(0, KEYS)
<1>1. PICK k \in 0..sent[c], n \in 0..sent[c] : Tally(c, k, n)
  BY DEF InputConn
<1>2. sent[c] \in Nat /\ k \in Nat /\ n \in Nat
  BY <1>1, InputTypes
<1>3. InputOf(c) = OutputFrom(0, k) /\ CarriesUnits(<<>>, k, n) /\ n = sent[c]
  BY <1>1 DEF Tally
<1>4. k = n
  BY <1>2, <1>3, CarriesUnitsNone
<1> QED
  BY <1>3, <1>4

(* The end of the tick.  A client with nothing queued is kept as it is, or  *)
(* dropped because it is disconnected.                                      *)
LEMMA KeysFlush ==
    ASSUME IndInv, UNCHANGED clientVars, NEW c \in Conn, Kind[c] = "keys", KeysConn(c),
           Roomy => InputConn(c), FlushAndReap
    PROVE  KeysConn(c)'
<1>0. /\ client[c] \in Client /\ up[c] \in Seq(Packet) /\ client[c].buf \in Seq(Packet)
      /\ down[c] \in Seq(Cell) /\ Len(down[c]) \in Nat /\ SNDBUF \in Nat
      /\ Len(down[c]) <= SNDBUF
  <2>1. down[c] \in Seq(Cell) /\ Len(down[c]) <= SNDBUF
    BY InvSplit DEF TablesInv, ConnInStep
  <2> QED
    BY <2>1, InputTypes, BoundAssumption
<1>1. /\ UNCHANGED <<up, cliSock, child_exit, input, cur, saw_eof>>
      /\ pc' \in {"poll", "exited"}
  BY DEF FlushAndReap, ptyVars
<1>2. /\ Resting(c) /\ Elsewhere(c) /\ InputOf(c)' = InputOf(c) /\ (Calm' => Calm)
      /\ srvSock'[c] = "backlog" => srvSock[c] = "backlog"
  BY <1>1 DEF Resting, Elsewhere, InputOf, clientVars, Calm, Roomy, FlushAndReap
<1>3. CASE ~Calm'
  <2>0. KeysProgram(c)
    BY DEF KeysConn
  <2>1. CASE client'[c] = NewClient
    <3>1. \A i \in 1..Len(Arriving(c)') : Arriving(c)'[i].typ = "SEND_KEYS"
      BY <1>1, <2>0, <2>1, FreshUnread
    <3>2. KeysProgram(c)'
      BY <1>2, <2>0, <2>1, <3>1 DEF KeysProgram, Resting, Elsewhere, NewClient
    <3> QED
      BY <1>3, <3>2 DEF KeysConn
  <2>2. CASE client'[c] \in {Flushed(c), client[c]}
    <3>1. Flushed(c).buf = client[c].buf /\ Flushed(c).attached = client[c].attached
      BY <1>0 DEF Flushed, SentOrDisconnect, Client
    <3>2. client'[c].buf = client[c].buf /\ client'[c].attached = client[c].attached
      BY <2>2, <3>1
    <3>3. Arriving(c)' = Arriving(c)
      BY <1>1, <3>2 DEF Arriving
    <3> QED
      BY <1>2, <1>3, <3>2, <3>3, KeysNotCalm
  <2>3. client'[c] \in {NewClient, Flushed(c), client[c]}
    BY DEF FlushAndReap
  <2> QED
    BY <2>1, <2>2, <2>3
<1>4. CASE Calm'
  <2>0. Calm /\ KeysQuiet(c) /\ KeysLeft(c) /\ KeysProgram(c) /\ InputConn(c)
    BY <1>2, <1>4 DEF KeysConn, Calm
  <2>1. try_flush_client(c, <<>>) = [queue |-> <<>>, wire |-> down[c], ok |-> TRUE]
    <3> DEFINE n == IF cliSock[c] = "open" THEN MinOf(Len(<<>>), SNDBUF - Len(down[c])) ELSE 0
    <3>1. n = 0
      BY <1>0 DEF MinOf
    <3>2. Drop(<<>>, 0) = <<>> /\ Take(<<>>, 0) = <<>>
      <4>1. \A S : <<>> \in Seq(S)
        BY EmptySeq
      <4>2. <<>> \in Seq(Cell) /\ 0 \in 0..Len(<<>>)
        BY <4>1
      <4>3. /\ Take(<<>>, 0) \in Seq(Cell) /\ Len(Take(<<>>, 0)) = 0
            /\ Drop(<<>>, 0) \in Seq(Cell) /\ Len(Drop(<<>>, 0)) = Len(<<>>) - 0
        BY <4>2, TakeDropType
      <4>4. Len(Drop(<<>>, 0)) = 0
        BY <4>3
      <4> QED
        BY <4>3, <4>4, EmptySeq
    <3>3. down[c] \o <<>> = down[c]
      BY <1>0, ConcatEmptySeq
    <3>4. try_flush_client(c, <<>>) = [queue |-> Drop(<<>>, n), wire |-> down[c] \o Take(<<>>, n),
                                       ok |-> cliSock[c] = "open" \/ <<>> = <<>>]
      BY DEF try_flush_client
    <3> HIDE DEF n
    <3> QED
      BY <3>1, <3>2, <3>3, <3>4
  <2>2. client[c].send_queue = <<>> /\ client[c].close_after_drain = "unset"
    BY <2>0 DEF KeysQuiet
  <2>3. Flushed(c) = client[c]
    <3>1. ASSUME NEW r, r.queue = <<>>, r.ok = TRUE PROVE SentOrDisconnect(c, r) = client[c]
      BY <1>0, <2>2, <3>1 DEF SentOrDisconnect, Client
    <3>2. PICK r : r = try_flush_client(c, client[c].send_queue)
      OBVIOUS
    <3>3. r.queue = <<>> /\ r.ok = TRUE
      BY <2>1, <2>2, <3>2
    <3>4. SentOrDisconnect(c, r) = client[c]
      BY <3>1, <3>3
    <3> QED
      BY <3>2, <3>4 DEF Flushed
  <2>4. Gone(Flushed(c)) <=> client[c].disconnected
    BY <2>2, <2>3 DEF Gone
  <2>5. down'[c] = down[c]
    <3>1. down'[c] \in {down[c], try_flush_client(c, client[c].send_queue).wire}
      BY DEF FlushAndReap
    <3> QED
      BY <2>1, <2>2, <3>1
  <2>6. child_exit = NoStatus
    BY <2>0 DEF Calm
  <2>7. CASE c \in clients /\ client[c].disconnected
    <3>1. client'[c] = NewClient /\ srvSock'[c] = "closed"
      BY <2>4, <2>7 DEF FlushAndReap
    <3>2. srvSock[c] = "open"
      BY <2>7, InputTypes
    <3>3. cpc[c] = "done" /\ (result[c] = "ok" => Arriving(c) = <<>> /\ sent[c] = KEYS)
      BY <2>0, <2>7 DEF KeysLeft, KeysProgram
    <3>4. result[c] = "ok" => InputOf(c) = OutputFrom(0, KEYS)
      BY <2>0, <3>2, <3>3, AllHandled DEF Calm
    <3>5. KeysLeft(c)'
      BY <1>1, <1>2, <3>1, <3>3, <3>4 DEF KeysLeft, Resting, NewClient
    <3>6. KeysQuiet(c)'
      BY <1>2, <2>0, <2>5, <3>1, <3>3 DEF KeysQuiet, Resting, NewClient
    <3>7. \A i \in 1..Len(Arriving(c)') : Arriving(c)'[i].typ = "SEND_KEYS"
      BY <1>1, <2>0, <3>1, FreshUnread
    <3>8. KeysProgram(c)'
      BY <1>2, <2>0, <3>1, <3>7 DEF KeysProgram, Resting, Elsewhere, NewClient
    <3> QED
      BY <3>5, <3>6, <3>8 DEF KeysConn
  <2>8. CASE ~(c \in clients /\ client[c].disconnected)
    <3>1. client'[c] = client[c] /\ srvSock'[c] = srvSock[c]
      BY <2>3, <2>4, <2>6, <2>8 DEF FlushAndReap
    <3> QED
      BY <1>1, <1>2, <2>5, <2>6, <3>1, KeysSame
  <2> QED
    BY <2>7, <2>8
<1> QED
  BY <1>3, <1>4

-------------------------------------------------------------------------------
(* The steps of the send-keys client itself. *)

(* While the program runs, the server neither drops nor leaves it. *)
LEMMA KeysServed ==
    ASSUME NEW c \in Conn, KeysConn(c), Calm, cpc[c] # "done"
    PROVE  /\ KeysQuiet(c) /\ ~client[c].disconnected /\ srvSock[c] # "closed"
           /\ ~(pc = "handle" /\ cur = c /\ saw_eof)
BY DEF KeysConn, KeysLeft

LEMMA KeysFinish ==
    ASSUME IndInv, NEW c \in Conn, KeysConn(c), cpc[c] # "done", UNCHANGED serverVars,
           up' = up, srvSock' = srvSock, sent'[c] = sent[c],
           NEW r \in Results, NEW left, Finish(c, r, left),
           r = "ok" => sent[c] = KEYS /\ (Calm => left = <<>>)
    PROVE  KeysConn(c)'
<1>0. /\ cpc'[c] = "done" /\ result'[c] = r /\ cliSock'[c] \in {"closed", "reset"}
      /\ left = <<>> => cliSock'[c] = "closed"
      /\ rbuf'[c] = <<>>
  BY TableTypes DEF Finish
<1>1. UNCHANGED <<client, pc, cur, saw_eof, child_exit>>
  BY DEF serverVars
<1>2. Arriving(c)' = Arriving(c)
  BY <1>1 DEF Arriving
<1>3. KeysProgram(c)'
  BY <1>0, <1>1, <1>2 DEF KeysConn, KeysProgram
<1>4. ASSUME Calm' PROVE KeysQuiet(c)' /\ KeysLeft(c)'
  <2>1. Calm
    BY <1>1, <1>4 DEF Calm, Roomy
  <2>2. /\ KeysQuiet(c) /\ ~client[c].disconnected /\ srvSock[c] # "closed"
        /\ ~(pc = "handle" /\ cur = c /\ saw_eof)
    BY <2>1, KeysServed
  <2>3. KeysQuiet(c)'
    BY <1>0, <1>1, <2>1, <2>2 DEF KeysQuiet
  <2>4. KeysLeft(c)'
    BY <1>1, <2>2 DEF KeysLeft
  <2> QED
    BY <2>3, <2>4
<1> QED
  BY <1>3, <1>4 DEF KeysConn

LEMMA KeysClient ==
    ASSUME IndInv, NEW c \in Conn, Kind[c] = "keys", KeysConn(c),
           ClientRuns(c) \/ ClientUser(c), UNCHANGED serverVars
    PROVE  KeysConn(c)'
<1>0. /\ UNCHANGED <<client, pc, cur, saw_eof, child_exit>> /\ (Calm' => Calm)
      /\ cpc[c] \in {"start", "pid", "keys", "done"} /\ KeysProgram(c)
      /\ cpc \in [Conn -> CPCs] /\ cliSock \in [Conn -> {"none", "open", "closed", "reset"}]
      /\ srvSock \in [Conn -> {"none", "backlog", "open", "closed"}]
      /\ up \in [Conn -> Seq(Packet)] /\ down \in [Conn -> Seq(Cell)]
      /\ rbuf \in [Conn -> Seq(Cell)] /\ sent \in [Conn -> Nat]
      /\ result \in [Conn -> Results]
  BY TableTypes DEF serverVars, Calm, Roomy, KeysConn, KeysProgram
<1>1. CASE Connect(c)
  <2>1. /\ cpc[c] = "start" /\ cpc'[c] = "pid" /\ cliSock'[c] = "open"
        /\ srvSock'[c] = "backlog" /\ UNCHANGED <<up, down, rbuf, sent, result>>
    BY <1>0, <1>1 DEF Connect
  <2>2. Arriving(c)' = Arriving(c) /\ down[c] = <<>>
    BY <1>0, <2>1, InvSplit DEF Arriving, TablesInv, ConnInStep
  <2>3. KeysProgram(c)'
    BY <1>0, <2>1, <2>2 DEF KeysProgram
  <2>4. ASSUME Calm' PROVE KeysQuiet(c)' /\ KeysLeft(c)'
    <3>1. /\ KeysQuiet(c) /\ ~client[c].disconnected /\ srvSock[c] # "closed"
          /\ ~(pc = "handle" /\ cur = c /\ saw_eof)
      BY <1>0, <2>1, <2>4, KeysServed
    <3>2. KeysQuiet(c)'
      BY <1>0, <2>1, <2>2, <3>1 DEF KeysQuiet, KeysProgram
    <3>3. KeysLeft(c)'
      BY <1>0, <2>1, <3>1 DEF KeysLeft
    <3> QED
      BY <3>2, <3>3
  <2> QED
    BY <2>3, <2>4 DEF KeysConn
<1>2. CASE ConnectRefused(c)
  <2>1. /\ cpc[c] = "start" /\ cpc'[c] = "done" /\ result'[c] = "error"
        /\ UNCHANGED <<up, down, rbuf, sent, cliSock, srvSock>>
    BY <1>0, <1>2 DEF ConnectRefused, kernelVars, sockVars
  <2>2. Arriving(c)' = Arriving(c)
    BY <1>0, <2>1 DEF Arriving
  <2>3. KeysProgram(c)'
    BY <1>0, <2>1, <2>2 DEF KeysProgram
  <2>4. ASSUME Calm' PROVE KeysQuiet(c)' /\ KeysLeft(c)'
    <3>1. /\ KeysQuiet(c) /\ ~client[c].disconnected /\ srvSock[c] # "closed"
          /\ ~(pc = "handle" /\ cur = c /\ saw_eof)
      BY <1>0, <2>1, <2>4, KeysServed
    <3>2. KeysQuiet(c)'
      BY <1>0, <2>1, <3>1 DEF KeysQuiet
    <3>3. KeysLeft(c)'
      BY <1>0, <2>1, <3>1 DEF KeysLeft
    <3> QED
      BY <3>2, <3>3
  <2> QED
    BY <2>3, <2>4 DEF KeysConn
(* MSG_PID is all there is to read. *)
<1>3. ASSUME cpc[c] = "pid", down[c] # <<>>, Calm
      PROVE  Need(c) = 2 /\ Len(Pending(c)) = 2 /\ RecvRest(c) = <<>>
  <2>1. rbuf[c] = <<>> /\ Len(down[c]) = 2 /\ down[c][1].val = 1
    BY <1>0, <1>3 DEF KeysConn, KeysQuiet
  <2>2. <<>> \o down[c] = down[c] /\ down[c] \in Seq(Cell)
    BY <1>0, ConcatEmptySeq
  <2>3. Pending(c) = down[c]
    BY <2>1, <2>2 DEF Pending
  <2>4. Head(down[c]) = down[c][1]
    BY <1>3, <2>2
  <2>5. Need(c) = 2
    BY <2>1, <2>3, <2>4 DEF Need
  <2>6. 2 \in 0..Len(down[c])
    BY <2>1
  <2>7. Drop(down[c], 2) \in Seq(Cell) /\ Len(Drop(down[c], 2)) = Len(down[c]) - 2
    BY <2>2, <2>6, TakeDropType
  <2>8. Len(Drop(down[c], 2)) = 0
    BY <2>1, <2>7
  <2>9. Drop(down[c], 2) = <<>>
    BY <2>7, <2>8, EmptySeq
  <2> QED
    BY <2>1, <2>3, <2>5, <2>9 DEF RecvRest
<1>4. CASE RecvPart(c)
  <2>1. /\ cpc[c] = "pid" /\ cpc'[c] = "pid" /\ down[c] # <<>> /\ Len(Pending(c)) < Need(c)
        /\ UNCHANGED <<up, sent, result, cliSock, srvSock>>
    BY <1>0, <1>4 DEF RecvPart, Receiving
  <2>2. Arriving(c)' = Arriving(c)
    BY <1>0, <2>1 DEF Arriving
  <2>3. KeysProgram(c)'
    BY <1>0, <2>1, <2>2 DEF KeysProgram
  <2>4. ~Calm'
    <3>1. ASSUME Calm PROVE FALSE
      <4>1. Need(c) = 2 /\ Len(Pending(c)) = 2
        BY <1>3, <2>1, <3>1
      <4>2. Len(Pending(c)) < Need(c)
        BY <2>1
      <4> QED
        BY <4>1, <4>2
    <3>2. ~Calm
      BY <3>1
    <3> QED
      BY <1>0, <3>2
  <2> QED
    BY <2>3, <2>4 DEF KeysConn
<1>5. CASE RecvFail(c)
  <2>1. /\ cpc[c] = "pid" /\ UNCHANGED <<up, srvSock, sent>>
        /\ Finish(c, IF cpc[c] \in {"loop", "recv"} THEN "ioerror" ELSE "error", down[c])
    BY <1>0, <1>5 DEF RecvFail, Receiving
  <2>2. Finish(c, "error", down[c]) /\ "error" \in Results
    BY <2>1 DEF Results
  <2> QED
    BY <2>1, <2>2, KeysFinish
<1>6. CASE RecvPid(c)
  <2>1. /\ cpc[c] = "pid" /\ Whole(c) /\ Received(c, "keys")
        /\ UNCHANGED <<cliSock, srvSock, up, sent, result>>
    BY <1>6 DEF RecvPid
  <2>2. /\ down[c] # <<>> /\ cpc'[c] = "keys" /\ rbuf'[c] = <<>> /\ down'[c] = RecvRest(c)
    BY <1>0, <2>1 DEF Whole, Received
  <2>3. srvSock[c] # "backlog"
    BY <2>2, InvSplit DEF TablesInv, ConnInStep
  <2>4. Arriving(c)' = Arriving(c)
    BY <1>0, <2>1 DEF Arriving
  <2>5. KeysProgram(c)'
    BY <1>0, <2>1, <2>2, <2>3, <2>4 DEF KeysProgram
  <2>6. ASSUME Calm' PROVE KeysQuiet(c)' /\ KeysLeft(c)'
    <3>1. /\ KeysQuiet(c) /\ ~client[c].disconnected /\ srvSock[c] # "closed"
          /\ ~(pc = "handle" /\ cur = c /\ saw_eof)
      BY <1>0, <2>1, <2>6, KeysServed
    <3>2. down'[c] = <<>>
      BY <1>0, <1>3, <2>1, <2>2, <2>6
    <3>3. KeysQuiet(c)'
      BY <1>0, <2>1, <2>2, <3>1, <3>2 DEF KeysQuiet
    <3>4. KeysLeft(c)'
      BY <1>0, <2>1, <3>1 DEF KeysLeft
    <3> QED
      BY <3>3, <3>4
  <2> QED
    BY <2>5, <2>6 DEF KeysConn
<1>7. CASE SendKeys(c) /\ sent[c] = KEYS
  <2>1. cpc[c] = "keys" /\ Finish(c, "ok", down[c]) /\ UNCHANGED <<up, srvSock, sent>>
    BY <1>7 DEF SendKeys
  <2>2. Calm => down[c] = <<>>
    BY <2>1 DEF KeysConn, KeysQuiet
  <2>3. "ok" \in Results
    BY DEF Results
  <2> QED
    BY <1>7, <2>1, <2>2, <2>3, KeysFinish
<1>8. CASE SendKeys(c) /\ sent[c] # KEYS
  <2>1. PICK p \in Packet : /\ p.typ = "SEND_KEYS" /\ SendOrFail(c, p, "keys")
                            /\ cpc[c] = "keys" /\ srvSock' = srvSock
    <3> DEFINE n == MinOf(MAX_PAYLOAD, KEYS - sent[c])
               p == [typ |-> "SEND_KEYS", payload |-> [i \in 1..n |-> sent[c] + i]]
    <3>1. SendOrFail(c, p, "keys") /\ cpc[c] = "keys" /\ srvSock' = srvSock
      BY <1>8 DEF SendKeys
    <3>2. sent[c] \in Nat /\ sent[c] <= KEYS /\ KEYS \in Nat /\ MAX_PAYLOAD \in Nat
      BY InputTypes, BoundAssumption
    <3>3. n \in Nat
      BY <3>2 DEF MinOf
    <3> HIDE DEF n
    <3>4. [i \in 1..n |-> sent[c] + i] \in Seq(Nat)
      BY <3>2, <3>3
    <3>5. p \in Packet /\ p.typ = "SEND_KEYS"
      BY <3>4 DEF Packet, MsgType
    <3> HIDE DEF p
    <3> QED
      BY <3>1, <3>5
  <2>2. result[c] # "ok"
    BY <1>0, <2>1 DEF KeysProgram
  <2>3. CASE srvSock[c] = "closed"
    <3>1. Finish(c, "error", down[c]) /\ up' = up
      BY <2>1, <2>3 DEF SendOrFail
    <3>2. ~Calm
      BY <2>1, <2>3, KeysServed
    <3>3. ~Calm'
      BY <1>0, <3>2
    <3>4. cpc'[c] = "done" /\ result'[c] = "error"
      BY <1>0, <3>1 DEF Finish
    <3>5. Arriving(c)' = Arriving(c)
      BY <1>0, <3>1 DEF Arriving
    <3>6. KeysProgram(c)'
      BY <1>0, <2>1, <3>4, <3>5 DEF KeysProgram
    <3> QED
      BY <3>3, <3>6 DEF KeysConn
  <2>4. CASE srvSock[c] # "closed"
    <3>1. /\ up'[c] = Append(up[c], p) /\ cpc'[c] = "keys"
          /\ UNCHANGED <<cliSock, down, rbuf, result>>
      BY <1>0, <2>1, <2>4 DEF SendOrFail
    <3>2. Arriving(c)' = Append(Arriving(c), p)
      <4>1. PICK s : s = client[c].buf
        OBVIOUS
      <4>2. s \in Seq(Packet) /\ up[c] \in Seq(Packet)
        BY <4>1, InputTypes
      <4>3. AppendsAfter(s, up[c], p)
        BY <4>2, ConcatAppend
      <4> QED
        BY <1>0, <3>1, <4>1, <4>3 DEF Arriving, AppendsAfter
    <3>3. PICK ps \in Seq(Packet) : ps = Arriving(c)
      BY InputTypes
    <3>4. /\ Len(Append(ps, p)) = Len(ps) + 1 /\ Len(ps) \in Nat
          /\ \A i \in 1..(Len(ps) + 1) : Append(ps, p)[i] = IF i = Len(ps) + 1 THEN p ELSE ps[i]
      BY AppendProperties
    <3>5. \A i \in 1..Len(ps) : ps[i].typ = "SEND_KEYS"
      BY <1>0, <3>3 DEF KeysProgram
    <3>6. ASSUME NEW i \in 1..(Len(ps) + 1) PROVE Append(ps, p)[i].typ = "SEND_KEYS"
      <4>1. CASE i = Len(ps) + 1
        BY <2>1, <3>4, <4>1
      <4>2. CASE i # Len(ps) + 1
        <5>1. i \in 1..Len(ps) /\ Append(ps, p)[i] = ps[i]
          BY <3>4, <4>2
        <5> QED
          BY <3>5, <5>1
      <4> QED
        BY <4>1, <4>2
    <3>7. \A i \in 1..Len(Arriving(c)') : Arriving(c)'[i].typ = "SEND_KEYS"
      BY <3>2, <3>3, <3>4, <3>6
    <3>8. KeysProgram(c)'
      BY <1>0, <2>1, <2>2, <3>1, <3>7 DEF KeysProgram
    <3>9. ASSUME Calm' PROVE KeysQuiet(c)' /\ KeysLeft(c)'
      <4>1. /\ KeysQuiet(c) /\ ~client[c].disconnected
            /\ ~(pc = "handle" /\ cur = c /\ saw_eof)
        BY <1>0, <2>1, <3>9, KeysServed
      <4>2. KeysQuiet(c)'
        BY <1>0, <2>1, <3>1, <4>1 DEF KeysQuiet
      <4>3. KeysLeft(c)'
        BY <1>0, <2>1, <2>4, <4>1 DEF KeysLeft
      <4> QED
        BY <4>2, <4>3
    <3> QED
      BY <3>8, <3>9 DEF KeysConn
  <2> QED
    BY <2>3, <2>4
<1>9. CASE Killed(c)
  <2>1. cpc[c] # "done" /\ Finish(c, "killed", down[c]) /\ UNCHANGED <<up, srvSock, sent>>
    BY <1>9 DEF Killed
  <2>2. "killed" \in Results /\ "killed" # "ok"
    BY DEF Results
  <2> QED
    BY <2>1, <2>2, KeysFinish
<1>10. ~(RecvLoop(c) \/ RecvExit(c) \/ RecvDump(c) \/ SendAttach(c) \/ send_resize(c)
         \/ SendDump(c) \/ StdinEmpty(c) \/ SelectStdin(c) \/ StdinKey(c) \/ StdinDetach(c)
         \/ StdinEof(c))
  BY <1>0 DEF RecvLoop, RecvExit, RecvDump, SendAttach, send_resize, SendDump, StdinEmpty,
              SelectStdin, StdinKey, StdinDetach, StdinEof
<1> QED
  BY <1>1, <1>2, <1>4, <1>5, <1>6, <1>7, <1>8, <1>9, <1>10 DEF ClientRuns, ClientUser

-------------------------------------------------------------------------------
LEMMA KeysInit == Init => KeysInv
<1>. SUFFICES ASSUME Init, NEW c \in Conn PROVE InputInv /\ KeysConn(c)
  BY InputInit DEF KeysInv
<1>1. InputInv
  BY InputInit
<1>2. /\ client[c] = NewClient /\ up[c] = <<>> /\ down[c] = <<>> /\ rbuf[c] = <<>>
      /\ cpc[c] = "start" /\ cliSock[c] = "none" /\ srvSock[c] = "none" /\ pc = "poll"
      /\ result[c] = "none"
  BY DEF Init, KernelInit, ServerInit, ClientInit
<1>3. Arriving(c) = <<>> /\ Len(<<>>) = 0
  BY <1>2, EmptySeq, ConcatEmptySeq DEF Arriving, NewClient
<1>4. KeysProgram(c)
  BY <1>2, <1>3 DEF KeysProgram, NewClient
<1>5. KeysQuiet(c) /\ KeysLeft(c)
  BY <1>2 DEF KeysQuiet, KeysLeft, NewClient
<1> QED
  BY <1>1, <1>4, <1>5 DEF KeysConn

LEMMA KeysStep == KeysInv /\ [Next]_vars => KeysInv'
<1>. SUFFICES ASSUME KeysInv, [Next]_vars, NEW c \in Conn, Kind[c] = "keys"
             PROVE  InputInv' /\ KeysConn(c)'
  BY InputStep DEF KeysInv
<1>0. InputInv /\ InputInv' /\ IndInv /\ KeysConn(c) /\ (Roomy => InputConn(c))
  BY InputStep DEF KeysInv, InputInv
<1>1. CASE Server /\ UNCHANGED clientVars
  <2>1. CASE PollShutdown \/ AcceptDone \/ PtyDone \/ WaitPid
    BY <1>0, <1>1, <2>1, KeysIdle
  <2>2. CASE \E e \in Conn : Accept(e) \/ AcceptDropped(e)
    BY <1>0, <1>1, <2>2, KeysAccept
  <2>3. CASE \E e \in Conn : ReadClient(e)
    BY <1>0, <1>1, <2>3, KeysRead
  <2>4. CASE HandleInput \/ HandleAttach \/ HandleDump \/ HandleResize \/ HandleDetach
    <3>1. InputOf(c)' = InputOf(c) \/ cur = c
      <4>1. CASE HandleInput /\ cur # c
        BY <1>0, <4>1, OthersInput
      <4>2. CASE HandleAttach \/ HandleDump \/ HandleResize \/ HandleDetach
        <5>1. input' = input
          BY <4>2 DEF HandleAttach, HandleDump, HandleResize, HandleDetach, kernelVars, ptyVars
        <5> QED
          BY <5>1 DEF InputOf
      <4> QED
        BY <2>4, <4>1, <4>2
    <3> QED
      BY <1>0, <1>1, <2>4, <3>1, KeysHandle
  <2>5. CASE EndClient
    BY <1>0, <1>1, <2>5, KeysEnd
  <2>6. CASE \/ \E n \in 1..MAX_PAYLOAD : ReadPty(n)
             \/ ReplayChunk \/ ReplayFail \/ ReplayEnd \/ QueueExit
    BY <1>0, <1>1, <2>6, KeysSends
  <2>7. CASE FlushAndReap
    BY <1>0, <1>1, <2>7, KeysFlush
  <2> QED
    BY <1>1, <2>1, <2>2, <2>3, <2>4, <2>5, <2>6, <2>7 DEF Server
<1>2. ASSUME UNCHANGED <<client, cliSock, srvSock, up, down, input, pc, cur, saw_eof, child_exit>>,
             UNCHANGED clientVars
      PROVE  KeysConn(c)'
  <2>1. Resting(c) /\ Elsewhere(c) /\ InputOf(c)' = InputOf(c)
    BY <1>2 DEF Resting, Elsewhere, InputOf, clientVars
  <2> QED
    BY <1>0, <1>2, <2>1, KeysSame
<1>3. CASE Child /\ UNCHANGED <<serverVars, clientVars>>
  <2>1. UNCHANGED <<cliSock, srvSock, up, down, input>>
    BY <1>3 DEF Child, ChildWrite, ChildRead, ChildExit, sockVars
  <2> QED
    BY <1>0, <1>2, <1>3, <2>1 DEF serverVars
<1>4. ASSUME NEW d \in Conn, ClientRuns(d) \/ ClientUser(d), UNCHANGED serverVars
      PROVE  KeysConn(c)'
  <2>1. CASE d = c
    BY <1>0, <1>4, <2>1, KeysClient
  <2>2. CASE d # c
    <3>1. /\ UNCHANGED ptyVars
          /\ UNCHANGED <<cliSock[c], srvSock[c], rbuf[c], down[c], up[c]>>
          /\ UNCHANGED <<seen[c], sent[c], cpc[c], result[c], code[c]>>
      BY <1>0, <1>4, <2>2, OtherClient
    <3>2. UNCHANGED <<client, pc, cur, saw_eof, child_exit>>
      BY <1>4 DEF serverVars
    <3>3. Resting(c) /\ Elsewhere(c) /\ InputOf(c)' = InputOf(c)
      BY <3>1, <3>2 DEF Resting, Elsewhere, InputOf, ptyVars
    <3> QED
      BY <1>0, <3>1, <3>2, <3>3, KeysSame
  <2> QED
    BY <2>1, <2>2
<1>5. CASE (Shutdown \/ \E e \in Conn : Elapse(e)) /\ UNCHANGED clientVars
  BY <1>0, <1>5, KeysIdle, KeysSends
<1>6. CASE Terminated \/ UNCHANGED vars
  <2>1. UNCHANGED <<client, cliSock, srvSock, up, down, input, pc, cur, saw_eof, child_exit>>
    BY <1>6 DEF Terminated, vars, kernelVars, sockVars, ptyVars, serverVars
  <2>2. UNCHANGED clientVars
    BY <1>6 DEF Terminated, vars
  <2> QED
    BY <1>0, <1>2, <2>1, <2>2
<1> QED
  BY <1>0, <1>1, <1>3, <1>4, <1>5, <1>6 DEF Next

LEMMA KeysInvariance == Spec => []KeysInv
BY KeysInit, KeysStep, PTL DEF Spec

(* The keys of a send-keys client that ended with success and has been left *)
(* by the server are all on the pty, in order: the server takes the close   *)
(* of the socket for the end of the keys and not for a reset, handles every *)
(* packet read before it, and finds room for all of them.                   *)
THEOREM KeysArrive == Spec => []KeysDelivered
<1>1. KeysInv => KeysDelivered
  BY DEF KeysInv, KeysDelivered, KeysConn, Calm, Roomy, KeysLeft
<1> QED
  BY <1>1, KeysInvariance, PTL

===============================================================================

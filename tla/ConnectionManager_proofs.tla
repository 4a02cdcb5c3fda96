----------------------- MODULE ConnectionManager_proofs -----------------------
(***************************************************************************)
(* Proofs about the manager of the bot's connection and its actors, for    *)
(* any numbers of connections, actions, messages and restarts.             *)
(***************************************************************************)
EXTENDS ConnectionManager, TLAPS

(* The numbers of the control messages in a mailbox, and that they rise     *)
IsControl(m) == m.type = "control"
Nums(s) == {s[i].body.n : i \in {j \in 1..Len(s) : IsControl(s[j])}}
Rising(s) ==
    \A i, j \in 1..Len(s) :
        i < j /\ IsControl(s[i]) /\ IsControl(s[j]) => s[i].body.n < s[j].body.n

LEMMA NumsOfEmpty == Nums(<< >>) = {} /\ Rising(<< >>)
  BY DEF Nums, Rising

LEMMA NumsOfAppend ==
    ASSUME NEW S, NEW s \in Seq(S), NEW m \in S, Rising(s)
    PROVE  /\ ~IsControl(m) => Nums(Append(s, m)) = Nums(s) /\ Rising(Append(s, m))
           /\ IsControl(m) /\ (\A k \in Nums(s) : k < m.body.n)
              => Nums(Append(s, m)) = Nums(s) \union {m.body.n} /\ Rising(Append(s, m))
<1> DEFINE t == Append(s, m)
<1>1. /\ t \in Seq(S) /\ Len(t) = Len(s) + 1 /\ Len(s) \in Nat
      /\ \A i \in 1..Len(s) : t[i] = s[i]
      /\ t[Len(s) + 1] = m
  OBVIOUS
<1>2. \A i \in 1..Len(t) : i \in 1..Len(s) \/ i = Len(s) + 1
  BY <1>1
<1>3. 1..Len(s) \subseteq 1..Len(t) /\ Len(s) + 1 \in 1..Len(t)
  BY <1>1
<1> HIDE DEF t
<1>4. CASE ~IsControl(m)
  <2>1. Nums(t) = Nums(s)
    BY <1>1, <1>2, <1>3, <1>4 DEF Nums
  <2>2. Rising(t)
    <3> SUFFICES ASSUME NEW i \in 1..Len(t), NEW j \in 1..Len(t), i < j,
                        IsControl(t[i]), IsControl(t[j])
                 PROVE  t[i].body.n < t[j].body.n
      BY DEF Rising
    <3>1. i \in 1..Len(s) /\ j \in 1..Len(s)
      BY <1>1, <1>2, <1>4
    <3>2. QED
      BY <1>1, <3>1 DEF Rising
  <2>3. QED
    BY <1>4, <2>1, <2>2 DEF t
<1>5. ASSUME IsControl(m), \A k \in Nums(s) : k < m.body.n
      PROVE  Nums(t) = Nums(s) \union {m.body.n} /\ Rising(t)
  <2>1. Nums(t) = Nums(s) \union {m.body.n}
    BY <1>1, <1>2, <1>3, <1>5 DEF Nums
  <2>2. Rising(t)
    <3> SUFFICES ASSUME NEW i \in 1..Len(t), NEW j \in 1..Len(t), i < j,
                        IsControl(t[i]), IsControl(t[j])
                 PROVE  t[i].body.n < t[j].body.n
      BY DEF Rising
    <3>1. i \in 1..Len(s)
      BY <1>1, <1>2
    <3>2. CASE j \in 1..Len(s)
      BY <1>1, <3>1, <3>2 DEF Rising
    <3>3. CASE j = Len(s) + 1
      <4>1. s[i].body.n \in Nums(s)
        BY <1>1, <3>1 DEF Nums
      <4>2. QED
        BY <1>1, <1>5, <3>1, <3>3, <4>1
    <3>4. QED
      BY <1>2, <3>2, <3>3
  <2>3. QED
    BY <2>1, <2>2
<1>6. QED
  BY <1>4, <1>5 DEF t

LEMMA NumsOfTail ==
    ASSUME NEW S, NEW s \in Seq(S), s # << >>, Rising(s)
    PROVE  /\ Nums(Tail(s)) \subseteq Nums(s) /\ Rising(Tail(s))
           /\ IsControl(Head(s)) => /\ Head(s).body.n \in Nums(s)
                                    /\ \A k \in Nums(Tail(s)) : Head(s).body.n < k
<1> DEFINE t == Tail(s)
<1>1. /\ t \in Seq(S) /\ Len(t) = Len(s) - 1 /\ Len(s) \in Nat
      /\ \A i \in 1..(Len(s) - 1) : t[i] = s[i + 1]
      /\ Head(s) = s[1] /\ 1 \in 1..Len(s)
  OBVIOUS
<1>2. \A i \in 1..Len(t) : t[i] = s[i + 1] /\ i + 1 \in 1..Len(s) /\ 1 < i + 1
  BY <1>1
<1> HIDE DEF t
<1>3. Nums(t) \subseteq Nums(s)
  BY <1>2 DEF Nums
<1>4. Rising(t)
  <2> SUFFICES ASSUME NEW i \in 1..Len(t), NEW j \in 1..Len(t), i < j,
                      IsControl(t[i]), IsControl(t[j])
               PROVE  t[i].body.n < t[j].body.n
    BY DEF Rising
  <2>1. i + 1 < j + 1
    BY <1>1
  <2>2. QED
    BY <1>2, <2>1 DEF Rising
<1>5. ASSUME IsControl(Head(s))
      PROVE  /\ Head(s).body.n \in Nums(s)
             /\ \A k \in Nums(t) : Head(s).body.n < k
  <2>1. Head(s).body.n \in Nums(s)
    BY <1>1, <1>5 DEF Nums
  <2>2. ASSUME NEW i \in 1..Len(t), IsControl(t[i]) PROVE Head(s).body.n < t[i].body.n
    BY <1>1, <1>2, <1>5, <2>2 DEF Rising
  <2>3. QED
    BY <2>1, <2>2 DEF Nums
<1>6. QED
  BY <1>3, <1>4, <1>5 DEF t

(* The numbers a connection has received                                    *)
Ascending(s) == \A i, j \in 1..Len(s) : i < j => s[i] < s[j]
Elements(s) == {s[n] : n \in 1..Len(s)}

LEMMA AscendingAppend ==
    ASSUME NEW s \in Seq(Nat), NEW k \in Nat, Ascending(s), \A n \in Elements(s) : n < k
    PROVE  /\ Append(s, k) \in Seq(Nat) /\ Ascending(Append(s, k))
           /\ Elements(Append(s, k)) = Elements(s) \union {k}
           /\ Append(s, k)[Len(Append(s, k))] = k
<1> DEFINE t == Append(s, k)
<1>1. /\ t \in Seq(Nat) /\ Len(t) = Len(s) + 1 /\ Len(s) \in Nat
      /\ \A i \in 1..Len(s) : t[i] = s[i]
      /\ t[Len(s) + 1] = k
  OBVIOUS
<1>2. \A i \in 1..Len(t) : i \in 1..Len(s) \/ i = Len(s) + 1
  BY <1>1
<1>3. 1..Len(s) \subseteq 1..Len(t) /\ Len(s) + 1 \in 1..Len(t)
  BY <1>1
<1> HIDE DEF t
<1>4. Elements(t) = Elements(s) \union {k}
  BY <1>1, <1>2, <1>3 DEF Elements
<1>5. Ascending(t)
  <2> SUFFICES ASSUME NEW i \in 1..Len(t), NEW j \in 1..Len(t), i < j PROVE t[i] < t[j]
    BY DEF Ascending
  <2>1. i \in 1..Len(s)
    BY <1>1, <1>2
  <2>2. CASE j \in 1..Len(s)
    BY <1>1, <2>1, <2>2 DEF Ascending
  <2>3. CASE j = Len(s) + 1
    BY <1>1, <2>1, <2>3 DEF Elements
  <2>4. QED
    BY <1>2, <2>2, <2>3
<1>6. QED
  BY <1>1, <1>4, <1>5 DEF t

-----------------------------------------------------------------------------
(* The control messages are numbered in the order they are sent, and move   *)
(* along one pipeline: the mailbox of the manager, that of one connection,  *)
(* the connection.  What is further along has the smaller number, and no    *)
(* number is with two connections.                                          *)
Letter == [type : {"register"}, conn : Conn] \union [type : {"closed"}, conn : Conn \union {NoConn}]
          \union [type : {"control"}, body : [msg : Control, n : Nat]]
Note == {Ping, Poison} \union [type : {"control"}, body : [msg : Control, n : Nat]]
State == {"unborn", "offered", "running", "poisoned", "stopped"}

Types ==
    /\ record \in 1..MaxRecord
    /\ activeWS \in [1..MaxRecord -> Conn \union {NoConn}]
    /\ spawning \in Conn \union {NoConn}
    /\ box \in Seq(Letter) /\ wsBox \in [Conn -> Seq(Note)]
    /\ ws \in [Conn -> State] /\ owner \in [Conn -> 1..MaxRecord]
    /\ sent \in Nat /\ got \in [Conn -> Seq(Nat)]

Through(c) == Nums(wsBox[c]) \union Elements(got[c])

InOrder ==
    /\ Rising(box) /\ \A n \in Nums(box) : n \in Nat /\ n <= sent
    /\ \A c \in Conn :
          /\ Rising(wsBox[c]) /\ Ascending(got[c])
          /\ \A m \in Elements(got[c]), n \in Nums(wsBox[c]) : m < n
          /\ \A m \in Through(c) : m \in Nat /\ m <= sent /\ \A n \in Nums(box) : m < n
    /\ \A c, d \in Conn : c # d => Through(c) \cap Through(d) = {}

(* A connection registers once, and is the active one once at most: before  *)
(* that nothing has gone through it, and while it is, what has is newer     *)
(* than all that has gone through the others.                               *)
Once ==
    /\ \A i \in 1..Len(box) : box[i].type = "register" => ws[box[i].conn] = "offered"
    /\ \A i, j \in 1..Len(box) :
          box[i].type = "register" /\ box[j].type = "register" /\ i # j => box[i].conn # box[j].conn
    /\ \A c \in Conn : ws[c] \in {"unborn", "offered"} \/ c = spawning => Through(c) = {}
    /\ \A r \in 1..MaxRecord : r > record => activeWS[r] = NoConn

Newest ==
    \A c, d \in Conn : Active = d /\ c # d => \A m \in Through(c), n \in Through(d) : m < n

OrderInv == Types /\ InOrder /\ Once /\ Newest

LEMMA OrderInit == Init => OrderInv
<1> SUFFICES ASSUME Init PROVE OrderInv
  OBVIOUS
<1>1. Types
  BY ConnAssumption DEF Init, Types, State
<1>2. Elements(<< >>) = {} /\ Ascending(<< >>)
  BY DEF Elements, Ascending
<1>3. \A c \in Conn : Through(c) = {}
  BY <1>2, NumsOfEmpty DEF Init, Through
<1>4. InOrder
  BY <1>2, <1>3, NumsOfEmpty DEF Init, InOrder
<1>5. Once /\ Newest
  BY <1>3 DEF Init, Once, Newest
<1>6. QED
  BY <1>1, <1>4, <1>5 DEF OrderInv

(* A step that adds no control message anywhere                             *)
LEMMA QuietKeepsOrder ==
    ASSUME OrderInv, Types', sent' = sent, got' = got,
           Rising(box'), Nums(box') \subseteq Nums(box),
           \A c \in Conn : Rising(wsBox'[c]) /\ Nums(wsBox'[c]) \subseteq Nums(wsBox[c])
    PROVE  InOrder' /\ \A c \in Conn : Through(c)' \subseteq Through(c)
<1>1. \A c \in Conn : Through(c)' \subseteq Through(c)
  BY DEF Through
<1>2. QED
  BY <1>1 DEF OrderInv, InOrder

(* The mailbox of the manager loses its first message, or gets one that is  *)
(* neither a registration nor a control message.                            *)
LEMMA FirstTaken ==
    ASSUME OrderInv, box # << >>, box' = Tail(box)
    PROVE  /\ box' \in Seq(Letter) /\ Rising(box') /\ Nums(box') \subseteq Nums(box)
           /\ Head(box) \in Letter
           /\ \A i \in 1..Len(box') : /\ box'[i] = box[i + 1] /\ i + 1 \in 1..Len(box)
                                      /\ i \in 1..Len(box) /\ i + 1 # 1
           /\ Head(box) = box[1] /\ 1 \in 1..Len(box)
  BY NumsOfTail DEF OrderInv, Types, InOrder

(* What is taken from the mailbox leaves the registrations behind it apart. *)
LEMMA Shifted ==
    ASSUME OrderInv, ws' = ws, \A c \in Conn : (c = spawning' => c = spawning),
           \A i \in 1..Len(box') : /\ box'[i] = box[i + 1] /\ i + 1 \in 1..Len(box)
                                   /\ i \in 1..Len(box) /\ i + 1 # 1,
           \A c \in Conn : ws[c] \in {"unborn", "offered"} \/ c = spawning => Through(c)' = {},
           \A r \in 1..MaxRecord : r > record' => activeWS'[r] = NoConn
    PROVE  Once'
<1>1. \A i \in 1..Len(box') : box'[i].type = "register" => ws'[box'[i].conn] = "offered"
  BY DEF OrderInv, Once
<1>2. \A i, j \in 1..Len(box') :
         box'[i].type = "register" /\ box'[j].type = "register" /\ i # j
         => box'[i].conn # box'[j].conn
  <2> SUFFICES ASSUME NEW i \in 1..Len(box'), NEW j \in 1..Len(box'), i # j,
                      box'[i].type = "register", box'[j].type = "register"
               PROVE  box'[i].conn # box'[j].conn
    OBVIOUS
  <2>1. /\ i + 1 # j + 1 /\ i + 1 \in 1..Len(box) /\ j + 1 \in 1..Len(box)
        /\ box'[i] = box[i + 1] /\ box'[j] = box[j + 1]
    OBVIOUS
  <2>2. QED
    BY <2>1 DEF OrderInv, Once
<1>3. QED
  BY <1>1, <1>2 DEF Once

LEMMA ClosedAppended ==
    ASSUME OrderInv, NEW c \in Conn \union {NoConn}, box' = Append(box, Closed(c))
    PROVE  /\ box' \in Seq(Letter) /\ Rising(box') /\ Nums(box') = Nums(box)
           /\ \A i \in 1..Len(box') : \/ i \in 1..Len(box) /\ box'[i] = box[i]
                                      \/ box'[i].type = "closed"
<1>1. box \in Seq(Letter) /\ Closed(c) \in Letter /\ ~IsControl(Closed(c)) /\ Rising(box)
  BY DEF OrderInv, Types, InOrder, Letter, Closed, IsControl
<1>2. box' \in Seq(Letter) /\ Rising(box') /\ Nums(box') = Nums(box)
  BY <1>1, NumsOfAppend
<1>3. \A i \in 1..Len(box') : \/ i \in 1..Len(box) /\ box'[i] = box[i]
                              \/ box'[i].type = "closed"
  BY <1>1 DEF Closed
<1>4. QED
  BY <1>2, <1>3

(* A note that is put behind a mailbox, and one that is taken from it       *)
LEMMA NoteAppended ==
    ASSUME NEW s \in Seq(Note), Rising(s), NEW m \in {Ping, Poison}
    PROVE  Append(s, m) \in Seq(Note) /\ Rising(Append(s, m)) /\ Nums(Append(s, m)) = Nums(s)
<1>1. m \in Note /\ ~IsControl(m)
  BY DEF Note, IsControl, Ping, Poison
<1>2. QED
  BY <1>1, NumsOfAppend

LEMMA NoteTaken ==
    ASSUME NEW s \in Seq(Note), Rising(s), s # << >>
    PROVE  /\ Head(s) \in Note
           /\ Tail(s) \in Seq(Note) /\ Rising(Tail(s)) /\ Nums(Tail(s)) \subseteq Nums(s)
  BY NumsOfTail

LEMMA Poisoning ==
    ASSUME OrderInv, NEW d \in Conn, wsBox' = Mail(wsBox, d, Poison)
    PROVE  /\ wsBox' \in [Conn -> Seq(Note)]
           /\ \A c \in Conn : Rising(wsBox'[c]) /\ Nums(wsBox'[c]) = Nums(wsBox[c])
<1>1. \A c \in Conn : wsBox[c] \in Seq(Note) /\ Rising(wsBox[c])
  BY DEF OrderInv, Types, InOrder
<1>2. \A c \in Conn : wsBox'[c] \in {wsBox[c], Append(wsBox[c], Poison)}
  BY DEF Mail, OrderInv, Types
<1>3. \A c \in Conn : /\ wsBox'[c] \in Seq(Note) /\ Rising(wsBox'[c])
                      /\ Nums(wsBox'[c]) = Nums(wsBox[c])
  BY <1>1, <1>2, NoteAppended
<1>4. wsBox' = [c \in Conn |-> wsBox'[c]]
  BY DEF Mail, OrderInv, Types
<1>5. QED
  BY <1>3, <1>4


(* A step in the life of a connection that is open: it stays so, and all    *)
(* others are as they were.                                                 *)
LEMMA OpenKeepsOnce ==
    ASSUME OrderInv, InOrder', \A c \in Conn : Through(c)' \subseteq Through(c),
           NEW c \in Conn, ws[c] \in {"running", "poisoned"},
           ws' \in [Conn -> State], ws'[c] \notin {"unborn", "offered"},
           \A d \in Conn : d # c => ws'[d] = ws[d],
           UNCHANGED <<record, activeWS, spawning>>,
           \A i \in 1..Len(box') : \/ i \in 1..Len(box) /\ box'[i] = box[i]
                                   \/ box'[i].type = "closed"
    PROVE  Once' /\ Newest'
<1>1. \A i \in 1..Len(box') : box'[i].type = "register" => i \in 1..Len(box) /\ box'[i] = box[i]
  OBVIOUS
<1>2. \A i \in 1..Len(box') : box'[i].type = "register" => ws'[box'[i].conn] = "offered"
  <2> SUFFICES ASSUME NEW i \in 1..Len(box'), box'[i].type = "register"
               PROVE  ws'[box'[i].conn] = "offered"
    OBVIOUS
  <2>1. i \in 1..Len(box) /\ box'[i] = box[i] /\ ws[box[i].conn] = "offered"
    BY <1>1 DEF OrderInv, Once
  <2>2. box[i].conn \in Conn
    <3>1. box \in Seq(Letter) /\ box[i].type = "register"
      BY <2>1 DEF OrderInv, Types
    <3>2. box[i] \in Letter
      BY <2>1, <3>1
    <3>3. QED
      BY <3>2 DEF Letter
  <2>3. box[i].conn # c
    BY <2>1
  <2>4. QED
    BY <2>1, <2>2, <2>3
<1>3. Once'
  BY <1>1, <1>2 DEF OrderInv, Once
<1>4. Newest'
  BY DEF OrderInv, Newest, Active
<1>5. QED
  BY <1>3, <1>4

LEMMA RegisterKeeps == ASSUME OrderInv, NEW c \in Conn, RegisterConnection(c) PROVE OrderInv'
<1>1. /\ ws[c] = "unborn" /\ ws' = [ws EXCEPT ![c] = "offered"] /\ box' = Append(box, Register(c))
      /\ UNCHANGED <<record, activeWS, spawning, owner, wsBox, sent, got>>
  BY DEF RegisterConnection, managerVars
<1>2. box \in Seq(Letter) /\ Register(c) \in Letter /\ ~IsControl(Register(c)) /\ Rising(box)
  BY DEF OrderInv, Types, InOrder, Letter, Register, IsControl
<1>3. box' \in Seq(Letter) /\ Rising(box') /\ Nums(box') = Nums(box)
  BY <1>1, <1>2, NumsOfAppend
<1>4. ws' \in [Conn -> State] /\ ws'[c] = "offered" /\ \A d \in Conn : d # c => ws'[d] = ws[d]
  BY <1>1 DEF OrderInv, Types, State
<1>5. Types'
  BY <1>1, <1>3, <1>4 DEF OrderInv, Types
<1>6. InOrder' /\ \A d \in Conn : Through(d)' = Through(d)
  <2>1. \A d \in Conn : Rising(wsBox'[d]) /\ Nums(wsBox'[d]) \subseteq Nums(wsBox[d])
    BY <1>1 DEF OrderInv, InOrder
  <2>2. InOrder'
    BY <1>1, <1>3, <1>5, <2>1, QuietKeepsOrder
  <2>3. QED
    BY <1>1, <2>2 DEF Through
<1>7. /\ Len(box') = Len(box) + 1 /\ Len(box) \in Nat
      /\ \A i \in 1..Len(box) : box'[i] = box[i]
      /\ box'[Len(box) + 1].type = "register" /\ box'[Len(box) + 1].conn = c
  BY <1>1, <1>2 DEF Register
<1>8. \A i \in 1..Len(box) : box[i].type = "register" => /\ ws[box[i].conn] = "offered"
                                                          /\ box[i].conn \in Conn
                                                          /\ box[i].conn # c
  BY <1>1, <1>2 DEF OrderInv, Once, Letter
<1>9. \A i \in 1..Len(box') : i \in 1..Len(box) \/ i = Len(box) + 1
  BY <1>7
<1>10. Once'
  <2>1. \A i \in 1..Len(box') : box'[i].type = "register" => ws'[box'[i].conn] = "offered"
    BY <1>4, <1>7, <1>8, <1>9
  <2>2. \A i, j \in 1..Len(box') :
           box'[i].type = "register" /\ box'[j].type = "register" /\ i # j
           => box'[i].conn # box'[j].conn
    <3> SUFFICES ASSUME NEW i \in 1..Len(box'), NEW j \in 1..Len(box'), i # j,
                        box'[i].type = "register", box'[j].type = "register"
                 PROVE  box'[i].conn # box'[j].conn
      OBVIOUS
    <3>1. CASE i \in 1..Len(box) /\ j \in 1..Len(box)
      BY <1>7, <3>1 DEF OrderInv, Once
    <3>2. CASE ~(i \in 1..Len(box) /\ j \in 1..Len(box))
      BY <1>7, <1>8, <1>9, <3>2
    <3>3. QED
      BY <3>1, <3>2
  <2>3. \A d \in Conn : ws'[d] \in {"unborn", "offered"} \/ d = spawning' => Through(d)' = {}
    BY <1>1, <1>4, <1>6 DEF OrderInv, Once
  <2>4. QED
    BY <1>1, <2>1, <2>2, <2>3 DEF OrderInv, Once
<1>11. Newest'
  BY <1>1, <1>6 DEF OrderInv, Newest, Active
<1>12. QED
  BY <1>5, <1>6, <1>10, <1>11 DEF OrderInv

LEMMA SendKeeps == ASSUME OrderInv, NEW m \in Control, SendControl(m) PROVE OrderInv'
<1> DEFINE l == [type |-> "control", body |-> Numbered(m, sent + 1)]
<1>1. /\ sent' = sent + 1 /\ box' = Append(box, l)
      /\ UNCHANGED <<record, activeWS, spawning, owner, ws, wsBox, got>>
  BY DEF SendControl, managerVars, wsVars
<1>2. /\ box \in Seq(Letter) /\ l \in Letter /\ IsControl(l) /\ l.body.n = sent + 1
      /\ l.type # "register" /\ Rising(box) /\ sent \in Nat
  BY DEF OrderInv, Types, InOrder, Letter, Numbered, IsControl
<1> HIDE DEF l
<1>3. \A k \in Nums(box) : k \in Nat /\ k <= sent
  BY DEF OrderInv, InOrder
<1>4. box' \in Seq(Letter) /\ Rising(box') /\ Nums(box') = Nums(box) \union {sent + 1}
  <2>1. \A k \in Nums(box) : k < l.body.n
    BY <1>2, <1>3
  <2>2. QED
    BY <1>1, <1>2, <2>1, NumsOfAppend
<1>5. Types'
  BY <1>1, <1>2, <1>4 DEF OrderInv, Types
<1>6. \A c \in Conn : Through(c)' = Through(c)
  BY <1>1 DEF Through
<1>7. InOrder'
  <2>1. \A n \in Nums(box') : n \in Nat /\ n <= sent'
    BY <1>1, <1>2, <1>3, <1>4
  <2>2. ASSUME NEW c \in Conn, NEW k \in Through(c)
        PROVE  k \in Nat /\ k <= sent' /\ \A n \in Nums(box') : k < n
    <3>1. k \in Nat /\ k <= sent /\ \A n \in Nums(box) : k < n
      BY DEF OrderInv, InOrder
    <3>2. QED
      BY <1>1, <1>2, <1>4, <3>1
  <2>3. QED
    BY <1>1, <1>4, <1>6, <2>1, <2>2 DEF OrderInv, InOrder
<1>8. \A i \in 1..Len(box') : box'[i].type = "register" => i \in 1..Len(box) /\ box'[i] = box[i]
  BY <1>1, <1>2
<1>9. Once' /\ Newest'
  BY <1>1, <1>6, <1>8 DEF OrderInv, Once, Newest, Active
<1>10. QED
  BY <1>5, <1>7, <1>9 DEF OrderInv

-----------------------------------------------------------------------------
LEMMA SpawnKeeps == ASSUME OrderInv, ManagerSpawns PROVE OrderInv'
<1> DEFINE c == Head(box).conn
<1>1. /\ Idle /\ box # << >> /\ Head(box).type = "register" /\ box' = Tail(box)
      /\ wsBox' = IF Active = NoConn THEN wsBox ELSE Mail(wsBox, Active, Poison)
      /\ spawning' = c /\ ws' = [ws EXCEPT ![c] = "running"]
      /\ owner' = [owner EXCEPT ![c] = record]
      /\ UNCHANGED <<record, activeWS, sent, got>>
  BY DEF ManagerSpawns
<1>2. /\ box' \in Seq(Letter) /\ Rising(box') /\ Nums(box') \subseteq Nums(box)
      /\ Head(box) \in Letter
      /\ \A i \in 1..Len(box') : /\ box'[i] = box[i + 1] /\ i + 1 \in 1..Len(box)
                                 /\ i \in 1..Len(box) /\ i + 1 # 1
      /\ Head(box) = box[1] /\ 1 \in 1..Len(box)
  BY <1>1, FirstTaken
<1>3. c \in Conn /\ ws[c] = "offered" /\ Through(c) = {}
  BY <1>1, <1>2 DEF OrderInv, Once, Letter
<1>4. /\ wsBox' \in [Conn -> Seq(Note)]
      /\ \A d \in Conn : Rising(wsBox'[d]) /\ Nums(wsBox'[d]) = Nums(wsBox[d])
  <2>1. CASE Active = NoConn
    BY <1>1, <2>1 DEF OrderInv, Types, InOrder
  <2>2. CASE Active # NoConn
    <3>1. Active \in Conn /\ wsBox' = Mail(wsBox, Active, Poison)
      BY <1>1, <2>2 DEF Active, OrderInv, Types
    <3>2. QED
      BY <3>1, Poisoning
  <2>3. QED
    BY <2>1, <2>2
<1> HIDE DEF c
<1>5. ws' \in [Conn -> State] /\ ws'[c] = "running" /\ \A d \in Conn : d # c => ws'[d] = ws[d]
  BY <1>1, <1>3 DEF OrderInv, Types, State
<1>6. Types'
  BY <1>1, <1>2, <1>3, <1>4, <1>5 DEF OrderInv, Types
<1>7. InOrder' /\ \A d \in Conn : Through(d)' \subseteq Through(d)
  BY <1>1, <1>2, <1>4, <1>6, QuietKeepsOrder
<1>8. Once'
  <2>1. \A i \in 1..Len(box') : box'[i].type = "register" =>
           box[i + 1].conn \in Conn /\ box[i + 1].conn # c /\ ws[box[i + 1].conn] = "offered"
    <3> SUFFICES ASSUME NEW i \in 1..Len(box'), box'[i].type = "register"
                 PROVE  box[i + 1].conn \in Conn /\ box[i + 1].conn # c
                        /\ ws[box[i + 1].conn] = "offered"
      OBVIOUS
    <3>1. box[i + 1].type = "register" /\ i + 1 \in 1..Len(box) /\ i + 1 # 1
      BY <1>2
    <3>2. box[1].type = "register" /\ 1 \in 1..Len(box) /\ box[1].conn = c
      BY <1>1, <1>2 DEF c
    <3>3. box[i + 1] \in Letter
      BY <3>1 DEF OrderInv, Types
    <3>4. QED
      BY <3>1, <3>2, <3>3 DEF OrderInv, Once, Letter
  <2>2. \A i \in 1..Len(box') : box'[i].type = "register" => ws'[box'[i].conn] = "offered"
    BY <1>2, <1>5, <2>1
  <2>3. \A i, j \in 1..Len(box') :
           box'[i].type = "register" /\ box'[j].type = "register" /\ i # j
           => box'[i].conn # box'[j].conn
    <3> SUFFICES ASSUME NEW i \in 1..Len(box'), NEW j \in 1..Len(box'), i # j,
                        box'[i].type = "register", box'[j].type = "register"
                 PROVE  box'[i].conn # box'[j].conn
      OBVIOUS
    <3>1. /\ i + 1 # j + 1 /\ i + 1 \in 1..Len(box) /\ j + 1 \in 1..Len(box)
          /\ box'[i] = box[i + 1] /\ box'[j] = box[j + 1]
      BY <1>2
    <3>2. QED
      BY <3>1 DEF OrderInv, Once
  <2>4. \A d \in Conn : ws'[d] \in {"unborn", "offered"} \/ d = spawning' => Through(d)' = {}
    BY <1>1, <1>3, <1>5, <1>7 DEF OrderInv, Once
  <2>5. QED
    BY <1>1, <2>2, <2>3, <2>4 DEF OrderInv, Once
<1>9. Newest'
  BY <1>1, <1>7 DEF OrderInv, Newest, Active
<1>10. QED
  BY <1>6, <1>7, <1>8, <1>9 DEF OrderInv

LEMMA AssignKeeps == ASSUME OrderInv, ManagerAssigns PROVE OrderInv'
<1>1. /\ spawning # NoConn /\ spawning' = NoConn
      /\ activeWS' = [activeWS EXCEPT ![record] = spawning]
      /\ UNCHANGED <<record, owner, box, ws, wsBox, got, sent>>
  BY DEF ManagerAssigns, Idle, wsVars
<1>2. /\ activeWS' \in [1..MaxRecord -> Conn \union {NoConn}] /\ activeWS'[record] = spawning
      /\ \A r \in 1..MaxRecord : r # record => activeWS'[r] = activeWS[r]
      /\ spawning \in Conn /\ NoConn \notin Conn /\ record \in Nat
  BY <1>1, ConnAssumption DEF OrderInv, Types
<1>3. Types'
  BY <1>1, <1>2 DEF OrderInv, Types
<1>4. \A c \in Conn : Through(c)' = Through(c)
  BY <1>1 DEF Through
<1>5. InOrder'
  BY <1>1, <1>4 DEF OrderInv, InOrder
<1>6. Once'
  <2>1. \A r \in 1..MaxRecord : r > record => activeWS'[r] = NoConn
    BY <1>2 DEF OrderInv, Once
  <2>2. QED
    BY <1>1, <1>2, <1>4, <2>1 DEF OrderInv, Once
<1>7. Newest'
  <2>1. Through(spawning) = {}
    BY <1>2 DEF OrderInv, Once
  <2>2. QED
    BY <1>1, <1>2, <1>4, <2>1 DEF Newest, Active
<1>8. QED
  BY <1>3, <1>5, <1>6, <1>7 DEF OrderInv

LEMMA ClosedKeeps == ASSUME OrderInv, ManagerClosed PROVE OrderInv'
<1>1. /\ box # << >> /\ Head(box).type = "closed" /\ box' = Tail(box)
      /\ UNCHANGED <<spawning, owner, ws, wsBox, got, sent>>
  BY DEF ManagerClosed, wsVars
<1>2. /\ box' \in Seq(Letter) /\ Rising(box') /\ Nums(box') \subseteq Nums(box)
      /\ \A i \in 1..Len(box') : /\ box'[i] = box[i + 1] /\ i + 1 \in 1..Len(box)
                                 /\ i \in 1..Len(box) /\ i + 1 # 1
  BY <1>1, FirstTaken
<1>3. /\ record' \in 1..MaxRecord
      /\ activeWS' \in [1..MaxRecord -> Conn \union {NoConn}]
      /\ \A r \in 1..MaxRecord : r > record' => activeWS'[r] = NoConn
      /\ Active' = Active \/ Active' = NoConn
  <2>1. CASE record < MaxRecord /\ record' = record + 1 /\ UNCHANGED activeWS
    BY <2>1, ConnAssumption DEF OrderInv, Types, Once, Active
  <2>2. CASE /\ record' = record
             /\ \E c : activeWS' = [activeWS EXCEPT ![record] = IF @ = c THEN NoConn ELSE @]
    <3>1. activeWS' \in [1..MaxRecord -> Conn \union {NoConn}]
          /\ \A r \in 1..MaxRecord : activeWS'[r] = activeWS[r] \/ activeWS'[r] = NoConn
      BY <2>2 DEF OrderInv, Types
    <3>2. QED
      BY <2>2, <3>1 DEF OrderInv, Types, Once, Active
  <2>3. QED
    BY <2>1, <2>2 DEF ManagerClosed
<1>4. Types'
  BY <1>1, <1>2, <1>3 DEF OrderInv, Types
<1>5. InOrder' /\ \A c \in Conn : Through(c)' \subseteq Through(c)
  <2>1. \A c \in Conn : Rising(wsBox'[c]) /\ Nums(wsBox'[c]) \subseteq Nums(wsBox[c])
    BY <1>1 DEF OrderInv, InOrder
  <2>2. QED
    BY <1>1, <1>2, <1>4, <2>1, QuietKeepsOrder
<1>6. Once'
  <2>1. \A c \in Conn : ws[c] \in {"unborn", "offered"} \/ c = spawning => Through(c)' = {}
    BY <1>5 DEF OrderInv, Once
  <2>2. QED
    BY <1>1, <1>2, <1>3, <2>1, Shifted
<1>7. Newest'
  BY <1>3, <1>5, ConnAssumption DEF OrderInv, Newest
<1>8. QED
  BY <1>4, <1>5, <1>6, <1>7 DEF OrderInv

(* What is forwarded is newer than all that has gone through before it.     *)
LEMMA ForwardKeeps == ASSUME OrderInv, ManagerForwards PROVE OrderInv'
<1> DEFINE l == Head(box)
           m == [type |-> "control", body |-> l.body]
           d == Active
<1>1. /\ box # << >> /\ l.type = "control" /\ box' = Tail(box)
      /\ wsBox' = IF d = NoConn THEN wsBox ELSE Mail(wsBox, d, m)
      /\ UNCHANGED <<record, activeWS, spawning, owner, ws, got, sent>>
  BY DEF ManagerForwards, managerVars
<1>2. /\ box' \in Seq(Letter) /\ Rising(box') /\ Nums(box') \subseteq Nums(box)
      /\ l \in Letter
      /\ \A i \in 1..Len(box') : /\ box'[i] = box[i + 1] /\ i + 1 \in 1..Len(box)
                                 /\ i \in 1..Len(box) /\ i + 1 # 1
  BY <1>1, FirstTaken
<1>3. l.body.n \in Nums(box) /\ \A k \in Nums(box') : l.body.n < k
  BY <1>1, NumsOfTail DEF IsControl, OrderInv, Types, InOrder
<1>4. m \in Note /\ IsControl(m) /\ m.body.n = l.body.n
  BY <1>1, <1>2 DEF Note, Letter, IsControl
<1>5. d \in Conn \union {NoConn}
  BY DEF OrderInv, Types, Active
<1> HIDE DEF d, m, l
<1>6. ASSUME NEW c \in Conn
      PROVE  /\ wsBox'[c] \in Seq(Note) /\ Rising(wsBox'[c])
             /\ \/ Nums(wsBox'[c]) = Nums(wsBox[c])
                \/ c = d /\ Nums(wsBox'[c]) = Nums(wsBox[c]) \union {l.body.n}
  <2>1. wsBox[c] \in Seq(Note) /\ Rising(wsBox[c])
    BY DEF OrderInv, Types, InOrder
  <2>2. \A k \in Nums(wsBox[c]) : k < l.body.n
    BY <1>3 DEF OrderInv, InOrder, Through
  <2>3. CASE wsBox'[c] = wsBox[c]
    BY <2>1, <2>3
  <2>4. CASE c = d /\ wsBox'[c] = Append(wsBox[c], m)
    BY <1>4, <2>1, <2>2, <2>4, NumsOfAppend
  <2>5. QED
    BY <1>1, <2>3, <2>4 DEF Mail, OrderInv, Types
<1>7. wsBox' \in [Conn -> Seq(Note)]
  <2>1. wsBox' = [c \in Conn |-> wsBox'[c]]
    BY <1>1 DEF Mail, OrderInv, Types
  <2>2. QED
    BY <1>6, <2>1
<1>8. Types'
  BY <1>1, <1>2, <1>7 DEF OrderInv, Types
<1>9. \A c \in Conn : Through(c)' \subseteq Through(c) \union {l.body.n}
                      /\ (c # d => Through(c)' \subseteq Through(c))
  BY <1>1, <1>6 DEF Through
<1>10. l.body.n \in Nat /\ l.body.n <= sent
  BY <1>3 DEF OrderInv, InOrder
<1>11. \A c \in Conn : l.body.n \notin Through(c) /\ \A k \in Through(c) : k < l.body.n
  <2>1. ASSUME NEW c \in Conn, NEW k \in Through(c) PROVE k < l.body.n /\ k # l.body.n
    <3>1. k < l.body.n /\ k \in Nat
      BY <1>3 DEF OrderInv, InOrder
    <3>2. QED
      BY <1>10, <3>1
  <2>2. QED
    BY <2>1
<1>12. InOrder'
  <2>1. ASSUME NEW c \in Conn, NEW k \in Elements(got'[c]), NEW n \in Nums(wsBox'[c]) PROVE k < n
    <3>1. k \in Through(c) /\ (n \in Nums(wsBox[c]) \/ n = l.body.n)
      BY <1>1, <1>6 DEF Through
    <3>2. QED
      BY <1>1, <1>11, <3>1 DEF OrderInv, InOrder
  <2>2. ASSUME NEW c \in Conn, NEW k \in Through(c)'
        PROVE  k \in Nat /\ k <= sent /\ \A n \in Nums(box') : k < n
    <3>1. k \in Through(c) \/ k = l.body.n
      BY <1>9
    <3>2. QED
      BY <1>2, <1>3, <1>10, <3>1 DEF OrderInv, InOrder
  <2>3. \A b, c \in Conn : b # c => Through(b)' \cap Through(c)' = {}
    BY <1>9, <1>11 DEF OrderInv, InOrder
  <2>4. QED
    BY <1>1, <1>2, <1>6, <2>1, <2>2, <2>3 DEF OrderInv, InOrder
<1>13. Once'
  <2>1. \A c \in Conn : Through(c) = {} => (Through(c)' = {} \/ (c = d /\ Nums(wsBox'[c]) # Nums(wsBox[c])))
    BY <1>1, <1>6 DEF Through
  <2>2. ASSUME NEW c \in Conn, c = d, Nums(wsBox'[c]) # Nums(wsBox[c])
        PROVE  ws[c] \notin {"unborn", "offered"} /\ c # spawning
    <3>1. ws[c] \in {"running", "poisoned"}
      BY <1>1, <2>2 DEF Mail
    <3>2. spawning = NoConn
      BY DEF ManagerForwards, Idle
    <3>3. QED
      BY <3>1, <3>2, ConnAssumption
  <2>3. \A c \in Conn : ws[c] \in {"unborn", "offered"} \/ c = spawning => Through(c)' = {}
    BY <2>1, <2>2 DEF OrderInv, Once
  <2>4. QED
    BY <1>1, <1>2, <2>3, Shifted DEF OrderInv, Once
<1>14. Newest'
  <2>1. ASSUME NEW c \in Conn, NEW b \in Conn, Active' = b, c # b,
               NEW k \in Through(c)', NEW n \in Through(b)'
        PROVE  k < n
    <3>1. b = d /\ Active = b
      BY <1>1, <2>1 DEF d, Active
    <3>2. k \in Through(c) /\ (n \in Through(b) \/ n = l.body.n)
      BY <1>9, <2>1, <3>1
    <3>3. QED
      BY <1>11, <2>1, <3>1, <3>2 DEF OrderInv, Newest
  <2>2. QED
    BY <2>1 DEF Newest
<1>15. QED
  BY <1>8, <1>12, <1>13, <1>14 DEF OrderInv

-----------------------------------------------------------------------------
(* A note taken from a mailbox: the filter of duplicates does not matter.   *)
LEMMA WriteKeeps == ASSUME OrderInv, NEW c \in Conn, WsWrites(c) PROVE OrderInv'
<1> DEFINE l == Head(wsBox[c])
<1>1. /\ ws[c] \in {"running", "poisoned"} /\ wsBox[c] # << >> /\ l.type = "control"
      /\ wsBox' = [wsBox EXCEPT ![c] = Tail(wsBox[c])]
      /\ got' = got \/ got' = [got EXCEPT ![c] = Append(got[c], l.body.n)]
      /\ UNCHANGED <<record, activeWS, spawning, owner, ws, box, sent>>
  BY DEF WsWrites, NextMail, outsideActor, managerVars
<1>2. /\ wsBox[c] \in Seq(Note) /\ Rising(wsBox[c]) /\ got[c] \in Seq(Nat) /\ Ascending(got[c])
      /\ \A m \in Elements(got[c]), n \in Nums(wsBox[c]) : m < n
  BY DEF OrderInv, Types, InOrder
<1>3. /\ Tail(wsBox[c]) \in Seq(Note) /\ Rising(Tail(wsBox[c]))
      /\ Nums(Tail(wsBox[c])) \subseteq Nums(wsBox[c])
      /\ l.body.n \in Nums(wsBox[c]) /\ \A k \in Nums(Tail(wsBox[c])) : l.body.n < k
  BY <1>1, <1>2, NumsOfTail, NoteTaken DEF IsControl
<1>4. /\ wsBox' \in [Conn -> Seq(Note)] /\ wsBox'[c] = Tail(wsBox[c])
      /\ \A d \in Conn : d # c => wsBox'[d] = wsBox[d]
  BY <1>1, <1>3 DEF OrderInv, Types
<1>5. l.body.n \in Nat
  BY <1>3 DEF OrderInv, InOrder, Through
<1> HIDE DEF l
<1>6. /\ got' \in [Conn -> Seq(Nat)] /\ Ascending(got'[c])
      /\ \A d \in Conn : d # c => got'[d] = got[d]
      /\ Elements(got'[c]) \subseteq Elements(got[c]) \union {l.body.n}
  <2>1. CASE got' = got
    BY <1>2, <2>1 DEF OrderInv, Types
  <2>2. CASE got' = [got EXCEPT ![c] = Append(got[c], l.body.n)]
    <3>1. /\ Append(got[c], l.body.n) \in Seq(Nat) /\ Ascending(Append(got[c], l.body.n))
          /\ Elements(Append(got[c], l.body.n)) = Elements(got[c]) \union {l.body.n}
      BY <1>2, <1>3, <1>5, AscendingAppend
    <3>2. QED
      BY <2>2, <3>1 DEF OrderInv, Types
  <2>3. QED
    BY <1>1, <2>1, <2>2
<1>7. Types'
  BY <1>1, <1>4, <1>6 DEF OrderInv, Types
<1>8. \A d \in Conn : Through(d)' \subseteq Through(d)
  BY <1>3, <1>4, <1>6 DEF Through
<1>9. InOrder'
  <2>1. ASSUME NEW m \in Elements(got'[c]), NEW n \in Nums(wsBox'[c]) PROVE m < n
    BY <1>2, <1>3, <1>4, <1>6
  <2>2. ASSUME NEW d \in Conn
        PROVE  /\ Rising(wsBox'[d]) /\ Ascending(got'[d])
               /\ \A m \in Elements(got'[d]), n \in Nums(wsBox'[d]) : m < n
    BY <1>3, <1>4, <1>6, <2>1 DEF OrderInv, InOrder
  <2>3. QED
    BY <1>1, <1>8, <2>2 DEF OrderInv, InOrder
<1>10. Once' /\ Newest'
  BY <1>1, <1>7, <1>8, <1>9, OpenKeepsOnce DEF Types
<1>11. QED
  BY <1>7, <1>9, <1>10 DEF OrderInv

(* The other steps of a connection: poison or a ping is put into its        *)
(* mailbox or taken from it, or all of the mailbox goes.                    *)
LEMMA NotesKeep ==
    ASSUME OrderInv, NEW c \in Conn, ws[c] \in {"running", "poisoned"},
           wsBox' = [wsBox EXCEPT ![c] = wsBox'[c]],
           wsBox'[c] \in Seq(Note), Rising(wsBox'[c]), Nums(wsBox'[c]) \subseteq Nums(wsBox[c]),
           ws' \in [Conn -> State], ws'[c] \notin {"unborn", "offered"},
           \A d \in Conn : d # c => ws'[d] = ws[d],
           box' = box \/ \E d \in Conn \union {NoConn} : box' = Append(box, Closed(d)),
           UNCHANGED <<record, activeWS, spawning, owner, got, sent>>
    PROVE  OrderInv'
<1>1. /\ box' \in Seq(Letter) /\ Rising(box') /\ Nums(box') = Nums(box)
      /\ \A i \in 1..Len(box') : \/ i \in 1..Len(box) /\ box'[i] = box[i]
                                 \/ box'[i].type = "closed"
  BY ClosedAppended DEF OrderInv, Types, InOrder
<1>2. wsBox' \in [Conn -> Seq(Note)] /\ \A d \in Conn : d # c => wsBox'[d] = wsBox[d]
  BY DEF OrderInv, Types
<1>3. Types'
  BY <1>1, <1>2 DEF OrderInv, Types
<1>4. InOrder' /\ \A d \in Conn : Through(d)' \subseteq Through(d)
  <2>1. \A d \in Conn : Rising(wsBox'[d]) /\ Nums(wsBox'[d]) \subseteq Nums(wsBox[d])
    BY <1>2 DEF OrderInv, InOrder
  <2>2. QED
    BY <1>1, <1>3, <2>1, QuietKeepsOrder
<1>5. Once' /\ Newest'
  BY <1>1, <1>4, OpenKeepsOnce
<1>6. QED
  BY <1>3, <1>4, <1>5 DEF OrderInv

LEMMA ConnectionKeeps ==
    ASSUME OrderInv, NEW c \in Conn,
           WsPings(c) \/ WsPoisoned(c) \/ WsStops(c) \/ PingTick(c)
    PROVE  OrderInv'
<1>1. /\ ws[c] \in {"running", "poisoned"}
      /\ UNCHANGED <<record, activeWS, spawning, owner, got, sent>>
  BY DEF WsPings, WsPoisoned, WsStops, PingTick, NextMail, outsideActor, managerVars
<1>2. /\ wsBox[c] \in Seq(Note) /\ Rising(wsBox[c])
      /\ wsBox \in [Conn -> Seq(Note)] /\ ws \in [Conn -> State]
      /\ \A r \in 1..MaxRecord : activeWS[r] \in Conn \union {NoConn}
      /\ owner[c] \in 1..MaxRecord
  BY DEF OrderInv, Types, InOrder
<1>3. /\ ws' \in [Conn -> State] /\ ws'[c] \notin {"unborn", "offered"}
      /\ \A d \in Conn : d # c => ws'[d] = ws[d]
  BY <1>1, <1>2 DEF WsPings, WsPoisoned, WsStops, PingTick, outsideActor, State
<1>4. box' = box \/ \E d \in Conn \union {NoConn} : box' = Append(box, Closed(d))
  BY <1>2 DEF WsPings, WsPoisoned, WsStops, PingTick, outsideActor
<1>5. /\ wsBox' = [wsBox EXCEPT ![c] = wsBox'[c]]
      /\ \/ wsBox'[c] = Append(wsBox[c], Ping) \/ wsBox'[c] = << >>
         \/ wsBox[c] # << >> /\ (wsBox'[c] = Tail(wsBox[c]) \/ wsBox'[c] = Append(Tail(wsBox[c]), Poison))
  BY <1>2 DEF WsPings, WsPoisoned, WsStops, PingTick, NextMail
<1>6. wsBox'[c] \in Seq(Note) /\ Rising(wsBox'[c]) /\ Nums(wsBox'[c]) \subseteq Nums(wsBox[c])
  <2>1. CASE wsBox'[c] = Append(wsBox[c], Ping)
    BY <1>2, <2>1, NoteAppended
  <2>2. CASE wsBox'[c] = << >>
    BY <2>2, NumsOfEmpty
  <2>3. CASE wsBox[c] # << >>
             /\ (wsBox'[c] = Tail(wsBox[c]) \/ wsBox'[c] = Append(Tail(wsBox[c]), Poison))
    BY <1>2, <2>3, NoteTaken, NoteAppended
  <2>4. QED
    BY <1>5, <2>1, <2>2, <2>3
<1>7. QED
  BY <1>1, <1>3, <1>4, <1>5, <1>6, NotesKeep

LEMMA PumpKeeps == ASSUME OrderInv, NEW c \in Conn, PumpEnds(c) PROVE OrderInv'
<1>1. /\ wsBox' = Mail(wsBox, c, Poison)
      /\ UNCHANGED <<record, activeWS, spawning, owner, ws, got, box, sent>>
  BY DEF PumpEnds, managerVars
<1>2. /\ wsBox' \in [Conn -> Seq(Note)]
      /\ \A d \in Conn : Rising(wsBox'[d]) /\ Nums(wsBox'[d]) = Nums(wsBox[d])
  BY <1>1, Poisoning
<1>3. Types'
  BY <1>1, <1>2 DEF OrderInv, Types
<1>4. \A d \in Conn : Through(d)' = Through(d)
  BY <1>1, <1>2 DEF Through
<1>5. InOrder' /\ Once' /\ Newest'
  BY <1>1, <1>2, <1>4 DEF OrderInv, InOrder, Once, Newest, Active
<1>6. QED
  BY <1>3, <1>5 DEF OrderInv

LEMMA OrderKept == OrderInv /\ [Next]_vars => OrderInv'
<1> SUFFICES ASSUME OrderInv, [Next]_vars PROVE OrderInv'
  OBVIOUS
<1>1. ASSUME UNCHANGED <<record, activeWS, box, spawning, ws, wsBox, owner, sent, got>>
      PROVE  OrderInv'
  <2>1. Types'
    BY <1>1 DEF OrderInv, Types
  <2>2. \A c \in Conn : Through(c)' = Through(c)
    BY <1>1 DEF Through
  <2>3. InOrder' /\ Once' /\ Newest'
    BY <1>1, <2>2 DEF OrderInv, InOrder, Once, Newest, Active
  <2>4. QED
    BY <2>1, <2>3 DEF OrderInv
<1>2. CASE UNCHANGED vars
  BY <1>1, <1>2 DEF vars
<1>3. ASSUME NEW c \in Conn, LinkBreaks(c) PROVE OrderInv'
  BY <1>1, <1>3 DEF LinkBreaks, managerVars, wsVars
<1>4. CASE Manager
  BY <1>4, SpawnKeeps, AssignKeeps, ClosedKeeps, ForwardKeeps DEF Manager
<1>5. ASSUME NEW c \in Conn, Actor(c) \/ PingTick(c) \/ PumpEnds(c) PROVE OrderInv'
  BY <1>5, WriteKeeps, ConnectionKeeps, PumpKeeps DEF Actor
<1>6. QED
  BY <1>2, <1>3, <1>4, <1>5, RegisterKeeps, SendKeeps DEF Next

(* What reaches the bot reaches it in the order it was sent and over one    *)
(* connection: an abort never overtakes the dispatch before it, no message  *)
(* is written twice, whatever is poisoned, restarted or replaced meanwhile. *)
THEOREM ArrivesInOrder == Spec => []DeliveredInOrder
<1>1. OrderInv => DeliveredInOrder
  BY DEF OrderInv, InOrder, Ascending, Through, Elements, DeliveredInOrder, Received
<1>2. QED
  BY <1>1, OrderInit, OrderKept, PTL DEF Spec

(* A connection that has been replaced gets nothing that was sent after a   *)
(* message the newer one has received.                                      *)
THEOREM ReplacedStaysBehind == Spec => ReplacedGetsNoNews
<1> DEFINE Behind == \A c, d \in Conn :
                        /\ Active = d /\ c # d
                        /\ got[c]' # got[c]
                        /\ Received(d) # {}
                        => \A n \in Received(d) : got[c]'[Len(got[c]')] < n
<1>1. ASSUME OrderInv, [Next]_vars, NEW c \in Conn, NEW d \in Conn, Active = d, c # d,
             got[c]' # got[c], NEW n \in Received(d)
      PROVE  got[c]'[Len(got[c]')] < n
  <2>1. WsWrites(c)
    <3>1. \/ got' = got \/ \E b \in Conn : WsWrites(b)
      BY <1>1 DEF Next, vars, Manager, ManagerSpawns, ManagerAssigns, ManagerClosed, ManagerForwards,
                  Actor, WsPings, WsPoisoned, WsStops, PingTick, PumpEnds, RegisterConnection,
                  LinkBreaks, SendControl, wsVars
    <3>2. ASSUME NEW b \in Conn, WsWrites(b), b # c PROVE got'[c] = got[c]
      BY <3>2 DEF WsWrites, OrderInv, Types
    <3>3. QED
      BY <1>1, <3>1, <3>2
  <2> DEFINE l == Head(wsBox[c])
  <2>2. l.type = "control" /\ wsBox[c] # << >> /\ got'[c] = Append(got[c], l.body.n)
    BY <1>1, <2>1 DEF WsWrites, NextMail, OrderInv, Types
  <2>3. wsBox[c] \in Seq(Note) /\ Rising(wsBox[c]) /\ got[c] \in Seq(Nat)
    BY <1>1 DEF OrderInv, Types, InOrder
  <2>4. l.body.n \in Through(c)
    BY <2>2, <2>3, NumsOfTail DEF IsControl, Through
  <2> HIDE DEF l
  <2>5. got'[c][Len(got'[c])] = l.body.n
    BY <2>2, <2>3
  <2>6. n \in Through(d)
    BY <1>1 DEF Through, Received, Elements
  <2>7. QED
    BY <1>1, <2>4, <2>5, <2>6 DEF OrderInv, Newest
<1>2. OrderInv /\ [Next]_vars => Behind
  BY <1>1
<1>3. QED
  BY <1>2, OrderInit, OrderKept, PTL DEF Spec, ReplacedGetsNoNews

=============================================================================

--------------------------- MODULE RollbackProofs ---------------------------
(***************************************************************************)
(* Proofs about SafeSession, for every value of its constants: a rollback    *)
(* that comes to its end leaves the rows the session found.                  *)
(***************************************************************************)
EXTENDS SafeSession, SequenceTheorems, FiniteSetTheorems, FunctionTheorems,
        WellFoundedInduction, TLAPS

-----------------------------------------------------------------------------
(* Induction on naturals, for a set in place of a predicate.                *)

LEMMA AllNaturals ==
    ASSUME NEW S, 0 \in S, \A n \in Nat : n \in S => n + 1 \in S
    PROVE  \A n \in Nat : n \in S
<1> DEFINE R == OpToRel(<, Nat)
           Missing == Nat \ S
<1>1. \A x, y \in Nat : <<y, x>> \in R <=> y < x
  BY DEF OpToRel
<1>2. IsWellFoundedOn(R, Nat)
  BY NatLessThanWellFounded
<1> HIDE DEF R
<1>3. SUFFICES ASSUME Missing # {} PROVE FALSE
  OBVIOUS
<1>4. PICK x \in Missing : \A y \in Missing : ~(<<y, x>> \in R)
  BY <1>2, <1>3, WFMin
<1>5. x \in Nat /\ x # 0 /\ x - 1 \in Nat /\ x - 1 < x /\ (x - 1) + 1 = x
  BY <1>4
<1>6. x - 1 \notin S
  BY <1>4, <1>5
<1>7. x - 1 \in Missing
  BY <1>5, <1>6
<1>8. <<x - 1, x>> \in R
  BY <1>1, <1>5
<1> QED BY <1>4, <1>7, <1>8

-----------------------------------------------------------------------------
(* Rows, words and commands.                                                *)

Fields == {"name", "comment", "disabled"}

IsWords(w) ==
    /\ DOMAIN w \subseteq Fields
    /\ "name" \in DOMAIN w => w["name"] \in Names
    /\ "comment" \in DOMAIN w => w["comment"] \in Comments \cup {Unset}
    /\ "disabled" \in DOMAIN w => w["disabled"] \in Bool

WordSets == UNION {[F -> Names \cup Comments \cup {Unset} \cup Bool] : F \in SUBSET Fields}

Verbs == {"add", "remove", "set", "enable", "disable"}

Commands ==
    {c \in [verb : Verbs, id : Nat \cup {None}, words : WordSets] :
        /\ IsWords(c.words)
        /\ c.verb = "add" => "name" \in DOMAIN c.words
        /\ c.verb # "add" => c.id \in Nat}

Changing == {"set", "enable", "disable"}

\* What a command of these puts in its row.
Puts(c) == CASE c.verb = "set" -> c.words
             [] c.verb = "enable" -> [disabled |-> "false"]
             [] c.verb = "disable" -> [disabled |-> "true"]

Menus ==
    {m \in [rows : UNION {[D -> Row] : D \in SUBSET Nat}, next : Nat, secrets : Secrecy] :
        \A i \in DOMAIN m.rows : i < m.next}

LEMMA MenuRows ==
    ASSUME NEW m \in Menus, NEW i \in DOMAIN m.rows
    PROVE  m.rows[i] \in Row /\ i \in Nat /\ m.next \in Nat /\ i < m.next
<1>1. PICK D \in SUBSET Nat : m.rows \in [D -> Row]
  BY DEF Menus
<1> QED BY <1>1 DEF Menus

LEMMA RowFields ==
    ASSUME NEW r \in Row
    PROVE  /\ DOMAIN r = Fields /\ r = [f \in Fields |-> r[f]]
           /\ r["name"] \in Names /\ r["comment"] \in Comments \cup {Unset}
           /\ r["disabled"] \in Bool
BY DEF Row, Fields

LEMMA IsRow ==
    ASSUME NEW r, r = [f \in Fields |-> r[f]], r["name"] \in Names,
           r["comment"] \in Comments \cup {Unset}, r["disabled"] \in Bool
    PROVE  r \in Row
BY DEF Row, Fields

LEMMA SameRow ==
    ASSUME NEW r \in Row, NEW s \in Row, \A f \in Fields : r[f] = s[f]
    PROVE  r = s
BY RowFields

LEMMA OverRow ==
    ASSUME NEW w, IsWords(w), NEW r \in Row
    PROVE  /\ Over(w, r) \in Row
           /\ \A f \in Fields : Over(w, r)[f] = IF f \in DOMAIN w THEN w[f] ELSE r[f]
<1>1. DOMAIN w \cup DOMAIN r = Fields
  BY RowFields DEF IsWords
<1>2. Over(w, r) = [f \in Fields |-> IF f \in DOMAIN w THEN w[f] ELSE r[f]]
  BY <1>1 DEF Over
<1> QED BY <1>2, RowFields, IsRow DEF IsWords, Fields

LEMMA OverNewRow ==
    ASSUME NEW w, IsWords(w), "name" \in DOMAIN w
    PROVE  /\ Over(w, NewRow) \in Row
           /\ \A f \in Fields : Over(w, NewRow)[f] =
                 IF f \in DOMAIN w THEN w[f] ELSE IF f = "comment" THEN Unset ELSE "false"
<1>1. DOMAIN NewRow = {"comment", "disabled"}
      /\ NewRow["comment"] = Unset /\ NewRow["disabled"] = "false"
  BY DEF NewRow
<1>2. DOMAIN w \cup DOMAIN NewRow = Fields
  BY <1>1 DEF IsWords, Fields
<1>3. Over(w, NewRow) = [f \in Fields |-> IF f \in DOMAIN w THEN w[f] ELSE NewRow[f]]
  BY <1>2 DEF Over
<1>4. \A f \in Fields : f \notin DOMAIN w =>
         NewRow[f] = IF f = "comment" THEN Unset ELSE "false"
  BY <1>1 DEF Fields
<1>5. Over(w, NewRow)["name"] \in Names
  BY <1>3 DEF IsWords, Fields
<1>6. Over(w, NewRow)["comment"] \in Comments \cup {Unset}
  BY <1>1, <1>3 DEF IsWords, Fields
<1>7. Over(w, NewRow)["disabled"] \in Bool
  BY <1>1, <1>3 DEF IsWords, Fields, Bool
<1>8. Over(w, NewRow) \in Row
  BY <1>3, <1>5, <1>6, <1>7, IsRow
<1> QED BY <1>3, <1>4, <1>8

\* What a command makes of a menu.
LEMMA RunSays ==
    ASSUME NEW m \in Menus, NEW c \in Commands, Accepts(m, c)
    PROVE  LET n == Run(m, c)
           IN  /\ n \in Menus /\ n.secrets = m.secrets /\ m.next <= n.next
               /\ c.verb = "add" =>
                     /\ DOMAIN n.rows = DOMAIN m.rows \cup {m.next}
                     /\ n.next = m.next + 1 /\ m.next <= FullAt
                     /\ n.rows[m.next] = Over(c.words, NewRow)
                     /\ \A i \in DOMAIN m.rows : n.rows[i] = m.rows[i]
               /\ c.verb # "add" =>
                     /\ c.id \in DOMAIN m.rows /\ n.next = m.next
                     /\ \A i \in DOMAIN m.rows \ {c.id} : n.rows[i] = m.rows[i]
               /\ c.verb = "remove" => DOMAIN n.rows = DOMAIN m.rows \ {c.id}
               /\ c.verb \in Changing =>
                     /\ DOMAIN n.rows = DOMAIN m.rows
                     /\ IsWords(Puts(c))
                     /\ n.rows[c.id] = Over(Puts(c), m.rows[c.id])
<1> DEFINE n == Run(m, c)
<1>1. PICK D \in SUBSET Nat : m.rows \in [D -> Row]
  BY DEF Menus
<1>2. /\ m.next \in Nat /\ m.secrets \in Secrecy /\ DOMAIN m.rows = D
      /\ m = [rows |-> m.rows, next |-> m.next, secrets |-> m.secrets]
      /\ \A i \in D : i < m.next
  BY <1>1 DEF Menus
<1>3. /\ c.verb \in Verbs /\ IsWords(c.words)
      /\ c.verb = "add" => "name" \in DOMAIN c.words
      /\ c.verb # "add" => c.id \in Nat
  BY DEF Commands
<1>4. ASSUME NEW E \in SUBSET Nat, NEW rows \in [E -> Row], NEW next \in Nat,
             \A i \in E : i < next
      PROVE  [rows |-> rows, next |-> next, secrets |-> m.secrets] \in Menus
  <2> DEFINE x == [rows |-> rows, next |-> next, secrets |-> m.secrets]
  <2>1. x.rows = rows /\ x.next = next /\ DOMAIN x.rows = E
    OBVIOUS
  <2>2. x \in [rows : UNION {[F -> Row] : F \in SUBSET Nat}, next : Nat, secrets : Secrecy]
    BY <1>2
  <2> QED BY <1>4, <2>1, <2>2 DEF Menus
<1>5. CASE c.verb = "add"
  <2> DEFINE E == D \cup {m.next}
             rows == [i \in E |-> IF i = m.next THEN Over(c.words, NewRow) ELSE m.rows[i]]
  <2>1. n = [rows |-> rows, next |-> m.next + 1, secrets |-> m.secrets]
    BY <1>2, <1>5 DEF Run
  <2>2. rows \in [E -> Row]
    BY <1>1, <1>3, <1>5, OverNewRow
  <2>3. E \in SUBSET Nat /\ m.next + 1 \in Nat /\ \A i \in E : i < m.next + 1
    BY <1>2
  <2>4. n \in Menus
    BY <1>4, <2>1, <2>2, <2>3
  <2>5. n.rows = rows /\ n.next = m.next + 1 /\ n.secrets = m.secrets
    BY <2>1
  <2>6. m.next <= FullAt
    BY <1>5 DEF Accepts
  <2>7. \A i \in D : i # m.next
    BY <1>2
  <2> QED BY <1>2, <1>5, <2>4, <2>5, <2>6, <2>7 DEF Changing
<1>6. CASE c.verb = "remove"
  <2> DEFINE E == D \ {c.id}
             rows == [i \in E |-> m.rows[i]]
  <2>1. n = [rows |-> rows, next |-> m.next, secrets |-> m.secrets]
    BY <1>2, <1>6 DEF Run
  <2>2. rows \in [E -> Row] /\ E \in SUBSET Nat
    BY <1>1
  <2>3. n \in Menus
    BY <1>2, <1>4, <2>1, <2>2
  <2>4. n.rows = rows /\ n.next = m.next /\ n.secrets = m.secrets
    BY <2>1
  <2>5. c.id \in D
    BY <1>2, <1>6 DEF Accepts
  <2> QED BY <1>2, <1>6, <2>3, <2>4, <2>5 DEF Changing
<1>7. CASE c.verb \in Changing
  <2>1. c.id \in D /\ c.verb # "add" /\ c.verb # "remove"
    BY <1>2, <1>7 DEF Accepts, Changing
  <2>2. IsWords(Puts(c))
    BY <1>3, <1>7 DEF Puts, IsWords, Changing, Fields, Bool
  <2> DEFINE new == Over(Puts(c), m.rows[c.id])
             rows == [m.rows EXCEPT ![c.id] = new]
  <2>3. m.rows[c.id] \in Row
    BY <1>1, <2>1
  <2>4. new \in Row /\ \A f \in Fields : new[f] = IF f \in DOMAIN Puts(c) THEN Puts(c)[f]
                                                   ELSE m.rows[c.id][f]
    BY <2>2, <2>3, OverRow
  <2>5. n = [rows |-> rows, next |-> m.next, secrets |-> m.secrets]
    <3>1. CASE c.verb = "set"
      BY <1>2, <3>1 DEF Run, Puts
    <3>2. ASSUME NEW b \in Bool, Puts(c) = [disabled |-> b] 
          PROVE  [m.rows[c.id] EXCEPT !.disabled = b] = new
      <4> DEFINE r == [m.rows[c.id] EXCEPT !.disabled = b]
      <4>1. r \in Row
        BY <2>3, <3>2 DEF Row
      <4>2. \A f \in Fields : r[f] = IF f = "disabled" THEN b ELSE m.rows[c.id][f]
        BY <2>3, RowFields
      <4>3. \A f \in Fields : new[f] = r[f]
        BY <2>4, <3>2, <4>2
      <4> HIDE DEF r, new
      <4>4. r = new
        BY <2>4, <4>1, <4>3, SameRow
      <4> QED BY <4>4 DEF r
    <3>3. CASE c.verb = "enable"
      <4>1. Puts(c) = [disabled |-> "false"]
        BY <3>3 DEF Puts
      <4>2. [m.rows[c.id] EXCEPT !.disabled = "false"] = new
        BY <3>2, <4>1 DEF Bool
      <4>3. n = [m EXCEPT !.rows[c.id].disabled = "false"]
        BY <3>3 DEF Run
      <4> HIDE DEF new
      <4> QED BY <1>1, <1>2, <2>1, <4>2, <4>3
    <3>4. CASE c.verb = "disable"
      <4>1. Puts(c) = [disabled |-> "true"]
        BY <3>4 DEF Puts
      <4>2. [m.rows[c.id] EXCEPT !.disabled = "true"] = new
        BY <3>2, <4>1 DEF Bool
      <4>3. n = [m EXCEPT !.rows[c.id].disabled = "true"]
        BY <3>4 DEF Run
      <4> HIDE DEF new
      <4> QED BY <1>1, <1>2, <2>1, <4>2, <4>3
    <3> QED BY <1>7, <3>1, <3>3, <3>4 DEF Changing
  <2> HIDE DEF new
  <2>6. rows \in [D -> Row]
    BY <1>1, <2>4
  <2>7. n \in Menus
    BY <1>2, <1>4, <2>5, <2>6
  <2>8. n.rows = rows /\ n.next = m.next /\ n.secrets = m.secrets
    BY <2>5
  <2>9. rows[c.id] = new /\ DOMAIN rows = D /\ \A i \in D \ {c.id} : rows[i] = m.rows[i]
    BY <1>1, <2>1
  <2> HIDE DEF rows
  <2> QED BY <1>2, <1>7, <2>1, <2>2, <2>7, <2>8, <2>9 DEF new
<1> QED BY <1>3, <1>5, <1>6, <1>7 DEF Verbs, Changing

-----------------------------------------------------------------------------
(* What a rollback makes of a menu, entry by entry.                         *)

Entries ==
    {e \in [target : Nat, inverse : Commands] :
        e.inverse.verb # "add" => e.inverse.id = e.target}

Journals == Seq(Entries)

\* A table of menus from k on, as Undoing has it.
Solves(h, j, m, k) ==
    \A n \in k .. Len(j) :
        h[n] = IF n = Len(j) THEN {m} ELSE After(h[n + 1], j[n + 1].inverse)

LEMMA OneMore ==
    ASSUME NEW j, NEW m, NEW L \in Nat, Len(j) = L, NEW k \in Nat, k < L,
           NEW g, Solves(g, j, m, k + 1)
    PROVE  \E h : Solves(h, j, m, k)
<1> DEFINE h == [n \in k .. L |-> IF n = k THEN After(g[k + 1], j[k + 1].inverse) ELSE g[n]]
<1>1. k + 1 \in k .. L /\ k \in k .. L /\ k + 1 # k /\ k # L
  OBVIOUS
<1>2. h[k] = After(g[k + 1], j[k + 1].inverse) /\ h[k + 1] = g[k + 1]
  BY <1>1
<1>3. \A n \in (k + 1) .. L : n \in k .. L /\ n # k
  OBVIOUS
<1>4. \A n \in (k + 1) .. L : h[n] = g[n]
  BY <1>3
<1> HIDE DEF h
<1>5. ASSUME NEW n \in k .. L
      PROVE  h[n] = IF n = L THEN {m} ELSE After(h[n + 1], j[n + 1].inverse)
  <2>1. CASE n = k
    BY <1>1, <1>2, <2>1
  <2>2. CASE n # k
    <3>1. n \in (k + 1) .. L
      BY <2>2
    <3>2. n # L => n + 1 \in (k + 1) .. L
      BY <3>1
    <3>3. g[n] = IF n = L THEN {m} ELSE After(g[n + 1], j[n + 1].inverse)
      BY <3>1 DEF Solves
    <3> QED BY <1>4, <3>1, <3>2, <3>3
  <2> QED BY <2>1, <2>2
<1> QED BY <1>5 DEF Solves

LEMMA Solvable ==
    ASSUME NEW j, NEW m, NEW L \in Nat, Len(j) = L
    PROVE  \E h : Solves(h, j, m, 0)
<1> DEFINE S == {d \in Nat : d <= L => \E h : Solves(h, j, m, L - d)}
<1>1. 0 \in S
  <2>1. Solves([n \in L .. L |-> {m}], j, m, L)
    BY DEF Solves
  <2>2. L - 0 = L
    OBVIOUS
  <2> QED BY <2>1, <2>2
<1>2. ASSUME NEW d \in Nat, d \in S PROVE d + 1 \in S
  <2>1. ASSUME d + 1 <= L PROVE \E h : Solves(h, j, m, L - (d + 1))
    <3>1. /\ L - (d + 1) \in Nat /\ L - (d + 1) < L /\ d <= L
          /\ (L - (d + 1)) + 1 = L - d
      BY <2>1
    <3>2. PICK g : Solves(g, j, m, L - d)
      BY <1>2, <3>1
    <3>3. Solves(g, j, m, (L - (d + 1)) + 1)
      BY <3>1, <3>2
    <3> QED BY <3>1, <3>3, OneMore
  <2> QED BY <2>1
<1>3. L \in S
  <2> HIDE DEF S
  <2>1. \A n \in Nat : n \in S
    BY <1>1, <1>2, AllNaturals
  <2> QED BY <2>1
<1>4. L - L = 0
  OBVIOUS
<1> QED BY <1>3, <1>4

LEMMA UndoingSays ==
    ASSUME NEW j, NEW m, NEW L \in Nat, Len(j) = L
    PROVE  Solves(Undoing(j, m), j, m, 0)
<1>1. PICK h : Solves(h, j, m, 0)
  BY Solvable
<1> DEFINE u == [n \in 0 .. L |-> h[n]]
           F(v) == [n \in 0 .. L |->
                       IF n = L THEN {m} ELSE After(v[n + 1], j[n + 1].inverse)]
<1>2. ASSUME NEW n \in 0 .. L
      PROVE  h[n] = IF n = L THEN {m} ELSE After(u[n + 1], j[n + 1].inverse)
  <2>1. n # L => n + 1 \in 0 .. L
    OBVIOUS
  <2>2. n # L => u[n + 1] = h[n + 1]
    BY <2>1
  <2> QED BY <1>1, <2>2 DEF Solves
<1>3. u = F(u)
  BY <1>2
<1>4. Undoing(j, m) = CHOOSE v : v = F(v)
  BY DEF Undoing
<1>5. Undoing(j, m) = F(Undoing(j, m))
  BY <1>3, <1>4
<1> QED BY <1>5 DEF Solves

LEMMA UndoneNothing ==
    ASSUME NEW j, Len(j) = 0, NEW m
    PROVE  Undone(j, m) = {m}
<1>1. Solves(Undoing(j, m), j, m, 0)
  BY UndoingSays
<1> QED BY <1>1 DEF Undone, Solves

LEMMA UndoneLast ==
    ASSUME NEW j \in Journals, NEW e \in Entries, NEW m
    PROVE  Undone(Append(j, e), m) =
              IF Accepts(m, e.inverse) THEN Undone(j, Run(m, e.inverse)) ELSE {}
<1>1. PICK L \in Nat : L = Len(j)
  BY LenProperties DEF Journals
<1>2. PICK i : i = Append(j, e)
  OBVIOUS
<1>3. Len(i) = L + 1 /\ i[L + 1] = e /\ \A n \in 1 .. L : i[n] = j[n]
  BY <1>1, <1>2, AppendProperties DEF Journals
<1>4. PICK u : u = Undoing(i, m)
  OBVIOUS
<1>5. PICK v : v = Undoing(j, Run(m, e.inverse))
  OBVIOUS
<1>6. Solves(u, i, m, 0) /\ Solves(v, j, Run(m, e.inverse), 0)
  BY <1>1, <1>3, <1>4, <1>5, UndoingSays
<1> DEFINE then(n) == IF Accepts(m, e.inverse) THEN v[n] ELSE {}
           S == {d \in Nat : d <= L => u[L - d] = then(L - d)}
<1>7. 0 \in S
  <2>1. L + 1 \in 0 .. L + 1 /\ L \in 0 .. L + 1 /\ L # L + 1 /\ L \in 0 .. L
    OBVIOUS
  <2>2. u[L + 1] = {m} /\ u[L] = After(u[L + 1], e.inverse)
    BY <1>3, <1>6, <2>1 DEF Solves
  <2>3. u[L] = IF Accepts(m, e.inverse) THEN {Run(m, e.inverse)} ELSE {}
    BY <2>2 DEF After
  <2>4. v[L] = {Run(m, e.inverse)}
    BY <1>1, <1>6, <2>1 DEF Solves
  <2>5. L - 0 = L /\ u[L] = then(L)
    BY <2>3, <2>4
  <2> QED BY <2>5
<1>8. ASSUME NEW d \in Nat, d \in S PROVE d + 1 \in S
  <2>1. ASSUME d + 1 <= L PROVE u[L - (d + 1)] = then(L - (d + 1))
    <3>1. PICK n \in Nat : n = L - (d + 1)
      BY <2>1
    <3>2. /\ n + 1 = L - d /\ n \in 0 .. L /\ n # L /\ n \in 0 .. L + 1 /\ n # L + 1
          /\ n + 1 \in 1 .. L /\ d <= L
      BY <2>1, <3>1
    <3>3. u[n + 1] = then(n + 1)
      BY <1>8, <3>2
    <3>4. u[n] = After(u[n + 1], j[n + 1].inverse)
      BY <1>3, <1>6, <3>2 DEF Solves
    <3>5. v[n] = After(v[n + 1], j[n + 1].inverse)
      BY <1>1, <1>6, <3>2 DEF Solves
    <3>6. After({}, j[n + 1].inverse) = {}
      BY DEF After
    <3>7. u[n] = then(n)
      BY <3>3, <3>4, <3>5, <3>6
    <3> QED BY <3>1, <3>7
  <2> QED BY <2>1
<1>9. L \in S
  <2> HIDE DEF S
  <2>1. \A n \in Nat : n \in S
    BY <1>7, <1>8, AllNaturals
  <2> QED BY <2>1
<1>10. L - L = 0 /\ L <= L
  OBVIOUS
<1>11. u[0] = then(0)
  BY <1>9, <1>10
<1> QED BY <1>2, <1>4, <1>5, <1>11 DEF Undone

-----------------------------------------------------------------------------
(* Menus that differ in the .id of rows and in secrets.  A deleted row comes  *)
(* back under a new .id, so what a rollback makes of the rows is compared      *)
(* row by row, along a pairing p of the one menu's rows with the other's.      *)

\* The same but for the secret fields.
Alike(secrets, r, s) == \A f \in Fields \ secrets : r[f] = s[f]

Pairs(p, r, s, secrets) ==
    /\ p \in [DOMAIN r -> DOMAIN s]
    /\ \A i, k \in DOMAIN r : p[i] = p[k] => i = k
    /\ \A k \in DOMAIN s : \E i \in DOMAIN r : p[i] = k
    /\ \A i \in DOMAIN r : Alike(secrets, r[i], s[p[i]])

Like(r, s, secrets) == \E p : Pairs(p, r, s, secrets)

\* Where inverses still to run name a row, n has it only if m has it as its pair.
Matches(p, m, n, targets) ==
    /\ Pairs(p, m.rows, n.rows, m.secrets)
    /\ m.secrets = n.secrets /\ m.next <= n.next
    /\ \A t \in targets : t \in DOMAIN n.rows => t \in DOMAIN m.rows /\ p[t] = t

LEMMA LikeItself == ASSUME NEW r, NEW S PROVE Like(r, r, S)
<1> DEFINE p == [i \in DOMAIN r |-> i]
<1>1. Pairs(p, r, r, S)
  BY DEF Pairs, Alike
<1> HIDE DEF p
<1> QED BY <1>1 DEF Like

LEMMA LikeLike ==
    ASSUME NEW r, NEW s, NEW t, NEW S, Like(r, s, S), Like(s, t, S)
    PROVE  Like(r, t, S)
<1>1. PICK p : Pairs(p, r, s, S)
  BY DEF Like
<1>2. PICK q : Pairs(q, s, t, S)
  BY DEF Like
<1> DEFINE pq == [i \in DOMAIN r |-> q[p[i]]]
<1>3. \A i \in DOMAIN r : p[i] \in DOMAIN s /\ pq[i] = q[p[i]]
  BY <1>1 DEF Pairs
<1>4. pq \in [DOMAIN r -> DOMAIN t]
  BY <1>2, <1>3 DEF Pairs
<1> HIDE DEF pq
<1>5. \A i, k \in DOMAIN r : pq[i] = pq[k] => i = k
  BY <1>1, <1>2, <1>3 DEF Pairs
<1>6. \A k \in DOMAIN t : \E i \in DOMAIN r : pq[i] = k
  BY <1>1, <1>2, <1>3 DEF Pairs
<1>7. \A i \in DOMAIN r : Alike(S, r[i], t[pq[i]])
  BY <1>1, <1>2, <1>3 DEF Pairs, Alike
<1> QED BY <1>4, <1>5, <1>6, <1>7 DEF Pairs, Like

LEMMA MatchesAdd ==
    ASSUME NEW m \in Menus, NEW n \in Menus, NEW T, NEW p, Matches(p, m, n, T),
           \A t \in T : t \in Nat /\ t < m.next,
           NEW c \in Commands, c.verb = "add", Accepts(n, c)
    PROVE  Accepts(m, c) /\ \E q : Matches(q, Run(m, c), Run(n, c), T)
<1>1. m.next \in Nat /\ n.next \in Nat /\ m.next <= n.next /\ FullAt \in Nat
  BY SafeAssumption DEF Menus, Matches, SafeAssumption
<1>2. Accepts(m, c)
  BY <1>1 DEF Accepts
<1>3. PICK x : x = Run(m, c)
  OBVIOUS
<1>4. PICK y : y = Run(n, c)
  OBVIOUS
<1>5. /\ x.secrets = m.secrets /\ x.next = m.next + 1
      /\ DOMAIN x.rows = DOMAIN m.rows \cup {m.next}
      /\ x.rows[m.next] = Over(c.words, NewRow)
      /\ \A i \in DOMAIN m.rows : x.rows[i] = m.rows[i]
  BY <1>2, <1>3, RunSays
<1>6. /\ y.secrets = n.secrets /\ y.next = n.next + 1
      /\ DOMAIN y.rows = DOMAIN n.rows \cup {n.next}
      /\ y.rows[n.next] = Over(c.words, NewRow)
      /\ \A i \in DOMAIN n.rows : y.rows[i] = n.rows[i]
  BY <1>4, RunSays
<1>7. m.next \notin DOMAIN m.rows /\ n.next \notin DOMAIN n.rows
  BY <1>1 DEF Menus
<1> DEFINE q == [i \in DOMAIN x.rows |-> IF i = m.next THEN n.next ELSE p[i]]
<1>8. Pairs(p, m.rows, n.rows, m.secrets)
  BY DEF Matches
<1>9. q[m.next] = n.next /\ \A i \in DOMAIN m.rows : q[i] = p[i] /\ p[i] \in DOMAIN n.rows
  BY <1>5, <1>7, <1>8 DEF Pairs
<1>10. q \in [DOMAIN x.rows -> DOMAIN y.rows]
  BY <1>5, <1>6, <1>8 DEF Pairs
<1> HIDE DEF q
<1>11. \A i, k \in DOMAIN x.rows : q[i] = q[k] => i = k
  BY <1>5, <1>7, <1>8, <1>9 DEF Pairs
<1>12. \A k \in DOMAIN y.rows : \E i \in DOMAIN x.rows : q[i] = k
  BY <1>5, <1>6, <1>8, <1>9 DEF Pairs
<1>13. \A i \in DOMAIN x.rows : Alike(x.secrets, x.rows[i], y.rows[q[i]])
  <2>1. Alike(x.secrets, x.rows[m.next], y.rows[q[m.next]])
    BY <1>5, <1>6, <1>9 DEF Alike
  <2>2. \A i \in DOMAIN m.rows : Alike(x.secrets, x.rows[i], y.rows[q[i]])
    BY <1>5, <1>6, <1>8, <1>9 DEF Pairs
  <2> QED BY <1>5, <2>1, <2>2
<1>14. Pairs(q, x.rows, y.rows, x.secrets)
  BY <1>10, <1>11, <1>12, <1>13 DEF Pairs
<1>15. x.secrets = y.secrets /\ x.next <= y.next
  BY <1>1, <1>5, <1>6 DEF Matches
<1>16. \A t \in T : t \in DOMAIN y.rows => t \in DOMAIN x.rows /\ q[t] = t
  <2>1. \A t \in T : t # n.next
    BY <1>1
  <2> QED BY <1>5, <1>6, <1>9, <2>1 DEF Matches
<1> QED BY <1>2, <1>3, <1>4, <1>14, <1>15, <1>16 DEF Matches

LEMMA MatchesRemove ==
    ASSUME NEW m \in Menus, NEW n \in Menus, NEW T, NEW p, Matches(p, m, n, T),
           NEW c \in Commands, c.verb = "remove", c.id \in T, Accepts(n, c)
    PROVE  Accepts(m, c) /\ \E q : Matches(q, Run(m, c), Run(n, c), T)
<1>1. c.id \in DOMAIN n.rows /\ c.id \in DOMAIN m.rows /\ p[c.id] = c.id
  BY DEF Accepts, Matches
<1>2. Accepts(m, c)
  BY <1>1 DEF Accepts
<1>3. PICK x : x = Run(m, c)
  OBVIOUS
<1>4. PICK y : y = Run(n, c)
  OBVIOUS
<1>5. /\ x.secrets = m.secrets /\ x.next = m.next
      /\ DOMAIN x.rows = DOMAIN m.rows \ {c.id}
      /\ \A i \in DOMAIN m.rows \ {c.id} : x.rows[i] = m.rows[i]
  BY <1>2, <1>3, RunSays
<1>6. /\ y.secrets = n.secrets /\ y.next = n.next
      /\ DOMAIN y.rows = DOMAIN n.rows \ {c.id}
      /\ \A i \in DOMAIN n.rows \ {c.id} : y.rows[i] = n.rows[i]
  BY <1>4, RunSays
<1> DEFINE q == [i \in DOMAIN x.rows |-> p[i]]
<1>8. Pairs(p, m.rows, n.rows, m.secrets)
  BY DEF Matches
<1>9. \A i \in DOMAIN x.rows : q[i] = p[i] /\ p[i] \in DOMAIN y.rows
  BY <1>1, <1>5, <1>6, <1>8 DEF Pairs
<1>10. q \in [DOMAIN x.rows -> DOMAIN y.rows]
  BY <1>9
<1> HIDE DEF q
<1>11. \A i, k \in DOMAIN x.rows : q[i] = q[k] => i = k
  BY <1>5, <1>8, <1>9 DEF Pairs
<1>12. \A k \in DOMAIN y.rows : \E i \in DOMAIN x.rows : q[i] = k
  BY <1>1, <1>5, <1>6, <1>8, <1>9 DEF Pairs
<1>13. \A i \in DOMAIN x.rows : Alike(x.secrets, x.rows[i], y.rows[q[i]])
  BY <1>5, <1>6, <1>8, <1>9 DEF Pairs
<1>14. Pairs(q, x.rows, y.rows, x.secrets)
  BY <1>10, <1>11, <1>12, <1>13 DEF Pairs
<1>15. x.secrets = y.secrets /\ x.next <= y.next
  BY <1>5, <1>6 DEF Matches
<1>16. \A t \in T : t \in DOMAIN y.rows => t \in DOMAIN x.rows /\ q[t] = t
  BY <1>5, <1>6, <1>9 DEF Matches
<1> QED BY <1>2, <1>3, <1>4, <1>14, <1>15, <1>16 DEF Matches

LEMMA MatchesChange ==
    ASSUME NEW m \in Menus, NEW n \in Menus, NEW T, NEW p, Matches(p, m, n, T),
           NEW c \in Commands, c.verb \in Changing, c.id \in T, Accepts(n, c)
    PROVE  Accepts(m, c) /\ \E q : Matches(q, Run(m, c), Run(n, c), T)
<1>0. c.verb # "add"
  BY DEF Changing
<1>1. c.id \in DOMAIN n.rows /\ c.id \in DOMAIN m.rows /\ p[c.id] = c.id
  BY <1>0 DEF Accepts, Matches
<1>2. Accepts(m, c)
  BY <1>0, <1>1 DEF Accepts
<1>3. PICK x : x = Run(m, c)
  OBVIOUS
<1>4. PICK y : y = Run(n, c)
  OBVIOUS
<1>5. /\ x.secrets = m.secrets /\ x.next = m.next /\ DOMAIN x.rows = DOMAIN m.rows
      /\ IsWords(Puts(c)) /\ x.rows[c.id] = Over(Puts(c), m.rows[c.id])
      /\ \A i \in DOMAIN m.rows \ {c.id} : x.rows[i] = m.rows[i]
  BY <1>0, <1>2, <1>3, RunSays
<1>6. /\ y.secrets = n.secrets /\ y.next = n.next /\ DOMAIN y.rows = DOMAIN n.rows
      /\ y.rows[c.id] = Over(Puts(c), n.rows[c.id])
      /\ \A i \in DOMAIN n.rows \ {c.id} : y.rows[i] = n.rows[i]
  BY <1>0, <1>4, RunSays
<1>7. Pairs(p, m.rows, n.rows, m.secrets)
  BY DEF Matches
<1>8. \A i \in DOMAIN m.rows : p[i] \in DOMAIN n.rows /\ (p[i] = c.id => i = c.id)
  BY <1>1, <1>7 DEF Pairs
<1>9. Alike(x.secrets, x.rows[c.id], y.rows[c.id])
  <2>1. m.rows[c.id] \in Row /\ n.rows[c.id] \in Row
    BY <1>1, MenuRows
  <2>2. Alike(m.secrets, m.rows[c.id], n.rows[c.id])
    BY <1>1, <1>7 DEF Pairs
  <2>3. \A f \in Fields : /\ x.rows[c.id][f] = IF f \in DOMAIN Puts(c) THEN Puts(c)[f]
                                               ELSE m.rows[c.id][f]
                          /\ y.rows[c.id][f] = IF f \in DOMAIN Puts(c) THEN Puts(c)[f]
                                               ELSE n.rows[c.id][f]
    BY <1>5, <1>6, <2>1, OverRow
  <2> QED BY <1>5, <2>2, <2>3 DEF Alike
<1>10. \A i \in DOMAIN x.rows : Alike(x.secrets, x.rows[i], y.rows[p[i]])
  <2> TAKE i \in DOMAIN x.rows
  <2>1. CASE i = c.id
    BY <1>1, <1>9, <2>1
  <2>2. CASE i # c.id
    BY <1>5, <1>6, <1>7, <1>8, <2>2 DEF Pairs
  <2> QED BY <2>1, <2>2
<1>11. Pairs(p, x.rows, y.rows, x.secrets)
  BY <1>5, <1>6, <1>7, <1>10 DEF Pairs
<1>12. Matches(p, x, y, T)
  BY <1>5, <1>6, <1>11 DEF Matches
<1> QED BY <1>2, <1>3, <1>4, <1>12

LEMMA MatchesRun ==
    ASSUME NEW m \in Menus, NEW n \in Menus, NEW T, NEW p, Matches(p, m, n, T),
           \A t \in T : t \in Nat /\ t < m.next,
           NEW c \in Commands, c.verb # "add" => c.id \in T, Accepts(n, c)
    PROVE  Accepts(m, c) /\ \E q : Matches(q, Run(m, c), Run(n, c), T)
<1>1. c.verb \in Verbs
  BY DEF Commands
<1> QED BY <1>1, MatchesAdd, MatchesRemove, MatchesChange DEF Verbs, Changing

Targets(j) == {j[k].target : k \in 1 .. Len(j)}

\* So a rollback of one makes the same of it as of the other.
LEMMA MatchesUndone ==
    \A j \in Journals : \A m, n \in Menus : \A T, p, y :
        /\ Matches(p, m, n, T) /\ (\A t \in T : t \in Nat /\ t < m.next)
        /\ Targets(j) \subseteq T
        /\ y \in Undone(j, n)
        => \E x \in Undone(j, m) : Like(x.rows, y.rows, m.secrets)
<1> DEFINE Holds(j) == \A m, n \in Menus : \A T, p, y :
              /\ Matches(p, m, n, T) /\ (\A t \in T : t \in Nat /\ t < m.next)
              /\ Targets(j) \subseteq T
              /\ y \in Undone(j, n)
              => \E x \in Undone(j, m) : Like(x.rows, y.rows, m.secrets)
           S == {d \in Nat : \A j \in Journals : Len(j) = d => Holds(j)}
<1>1. 0 \in S
  <2> SUFFICES ASSUME NEW j \in Journals, Len(j) = 0, NEW m \in Menus, NEW n \in Menus,
                      NEW T, NEW p, NEW y, Matches(p, m, n, T), y \in Undone(j, n)
               PROVE  \E x \in Undone(j, m) : Like(x.rows, y.rows, m.secrets)
    OBVIOUS
  <2>1. y = n /\ m \in Undone(j, m)
    BY UndoneNothing
  <2>2. Like(m.rows, y.rows, m.secrets)
    BY <2>1 DEF Matches, Like
  <2> QED BY <2>1, <2>2
<1>2. ASSUME NEW d \in Nat, d \in S PROVE d + 1 \in S
  <2> SUFFICES ASSUME NEW j \in Journals, Len(j) = d + 1, NEW m \in Menus, NEW n \in Menus,
                      NEW T, NEW p, NEW y, Matches(p, m, n, T),
                      \A t \in T : t \in Nat /\ t < m.next,
                      Targets(j) \subseteq T, y \in Undone(j, n)
               PROVE  \E x \in Undone(j, m) : Like(x.rows, y.rows, m.secrets)
    OBVIOUS
  <2>1. j # <<>>
    <3>1. Len(j) # 0
      OBVIOUS
    <3> QED BY <3>1, EmptySeq
  <2>2. PICK i \in Journals, e \in Entries : j = Append(i, e)
    BY <2>1, SequenceEmptyOrAppend DEF Journals
  <2>3. Len(i) = d /\ j[d + 1] = e /\ \A k \in 1 .. d : j[k] = i[k]
    <3>1. Len(j) = Len(i) + 1 /\ Len(i) \in Nat
      BY <2>2, AppendProperties, LenProperties DEF Journals
    <3>2. Len(i) = d
      BY <3>1
    <3> QED BY <2>2, <3>2, AppendProperties DEF Journals
  <2>4. Holds(i)
    BY <1>2, <2>2, <2>3
  <2>5. Targets(i) \subseteq T /\ e.target \in T
    BY <2>3 DEF Targets
  <2>6. PICK c : c = e.inverse
    OBVIOUS
  <2>7. c \in Commands /\ (c.verb # "add" => c.id \in T)
    BY <2>5, <2>6 DEF Entries
  <2>8. Accepts(n, c) /\ y \in Undone(i, Run(n, c))
    BY <2>2, <2>6, UndoneLast
  <2>9. Accepts(m, c) /\ \E q : Matches(q, Run(m, c), Run(n, c), T)
    BY <2>7, <2>8, MatchesRun
  <2>10. PICK q : Matches(q, Run(m, c), Run(n, c), T)
    BY <2>9
  <2>11. PICK a \in Menus, b \in Menus : a = Run(m, c) /\ b = Run(n, c)
    BY <2>7, <2>8, <2>9, RunSays
  <2>12. a.secrets = m.secrets /\ m.next <= a.next /\ m.next \in Nat /\ a.next \in Nat
    BY <2>7, <2>9, <2>11, RunSays DEF Menus
  <2>13. \A t \in T : t \in Nat /\ t < a.next
    BY <2>12
  <2>14. PICK x \in Undone(i, a) : Like(x.rows, y.rows, a.secrets)
    BY <2>4, <2>5, <2>8, <2>10, <2>11, <2>13
  <2>15. x \in Undone(j, m)
    BY <2>2, <2>6, <2>9, <2>11, <2>14, UndoneLast
  <2> QED BY <2>12, <2>14, <2>15
<1> HIDE DEF S
<1>3. \A d \in Nat : d \in S
  BY <1>1, <1>2, AllNaturals
<1>4. \A j \in Journals : Len(j) \in Nat
  BY LenProperties DEF Journals
<1> QED BY <1>3, <1>4 DEF S

-----------------------------------------------------------------------------
(* Running an inverse twice.  A rollback that was cut short starts again at    *)
(* the last entry: if all inverses only set fields, what it has done already   *)
(* makes no difference, because the earliest entry of a field has the last     *)
(* word on it.                                                              *)

AllChange(j) == \A k \in 1 .. Len(j) : j[k].inverse.verb \in Changing

\* Menus that differ in some fields of one row at most.
Apart(m, n, row, fields) ==
    /\ m.next = n.next /\ m.secrets = n.secrets /\ DOMAIN m.rows = DOMAIN n.rows
    /\ \A i \in DOMAIN m.rows : \A f \in Fields :
          ~(i = row /\ f \in fields) => m.rows[i][f] = n.rows[i][f]

LEMMA NotApart ==
    ASSUME NEW m \in Menus, NEW n \in Menus, NEW i, Apart(m, n, i, {})
    PROVE  m = n
<1>1. PICK D \in SUBSET Nat : m.rows \in [D -> Row]
  BY DEF Menus
<1>2. PICK E \in SUBSET Nat : n.rows \in [E -> Row]
  BY DEF Menus
<1>3. D = E
  BY <1>1, <1>2 DEF Apart
<1>4. \A k \in D : m.rows[k] = n.rows[k]
  <2> TAKE k \in D
  <2>1. m.rows[k] \in Row /\ n.rows[k] \in Row
    BY <1>1, <1>2, <1>3
  <2>2. \A f \in Fields : m.rows[k][f] = n.rows[k][f]
    BY <1>1 DEF Apart
  <2> QED BY <2>1, <2>2, SameRow
<1>5. m.rows = n.rows
  BY <1>1, <1>2, <1>3, <1>4
<1>6. /\ m = [rows |-> m.rows, next |-> m.next, secrets |-> m.secrets]
      /\ n = [rows |-> n.rows, next |-> n.next, secrets |-> n.secrets]
  BY DEF Menus
<1> QED BY <1>5, <1>6 DEF Apart

LEMMA ApartRun ==
    ASSUME NEW m \in Menus, NEW n \in Menus, NEW row, NEW fields, Apart(m, n, row, fields),
           NEW c \in Commands, c.verb \in Changing, Accepts(n, c)
    PROVE  /\ Accepts(m, c) /\ Run(m, c) \in Menus /\ Run(n, c) \in Menus
           /\ Apart(Run(m, c), Run(n, c), row, fields)
           /\ c.id = row /\ fields \subseteq DOMAIN Puts(c) => Run(m, c) = Run(n, c)
<1>0. c.verb # "add"
  BY DEF Changing
<1>1. c.id \in DOMAIN n.rows /\ c.id \in DOMAIN m.rows
  BY <1>0 DEF Accepts, Apart
<1>2. Accepts(m, c)
  BY <1>0, <1>1 DEF Accepts
<1>3. PICK x : x = Run(m, c)
  OBVIOUS
<1>4. PICK y : y = Run(n, c)
  OBVIOUS
<1>5. /\ x \in Menus /\ x.secrets = m.secrets /\ x.next = m.next /\ DOMAIN x.rows = DOMAIN m.rows
      /\ IsWords(Puts(c)) /\ x.rows[c.id] = Over(Puts(c), m.rows[c.id])
      /\ \A i \in DOMAIN m.rows \ {c.id} : x.rows[i] = m.rows[i]
  BY <1>0, <1>2, <1>3, RunSays
<1>6. /\ y \in Menus /\ y.secrets = n.secrets /\ y.next = n.next /\ DOMAIN y.rows = DOMAIN n.rows
      /\ y.rows[c.id] = Over(Puts(c), n.rows[c.id])
      /\ \A i \in DOMAIN n.rows \ {c.id} : y.rows[i] = n.rows[i]
  BY <1>0, <1>4, RunSays
<1>7. m.rows[c.id] \in Row /\ n.rows[c.id] \in Row
  BY <1>1, MenuRows
<1>8. \A f \in Fields : /\ x.rows[c.id][f] = IF f \in DOMAIN Puts(c) THEN Puts(c)[f]
                                             ELSE m.rows[c.id][f]
                        /\ y.rows[c.id][f] = IF f \in DOMAIN Puts(c) THEN Puts(c)[f]
                                             ELSE n.rows[c.id][f]
  BY <1>5, <1>6, <1>7, OverRow
<1>9. ASSUME NEW i \in DOMAIN x.rows, NEW f \in Fields
      PROVE  /\ ~(i = row /\ f \in fields) => x.rows[i][f] = y.rows[i][f]
             /\ i = c.id /\ f \in DOMAIN Puts(c) => x.rows[i][f] = y.rows[i][f]
  <2>1. CASE i = c.id
    BY <1>1, <1>8, <2>1 DEF Apart
  <2>2. CASE i # c.id
    BY <1>5, <1>6, <2>2 DEF Apart
  <2> QED BY <2>1, <2>2
<1>10. Apart(x, y, row, fields)
  BY <1>5, <1>6, <1>9 DEF Apart
<1>11. ASSUME c.id = row, fields \subseteq DOMAIN Puts(c) PROVE x = y
  <2>1. Apart(x, y, row, {})
    BY <1>5, <1>6, <1>9, <1>11 DEF Apart
  <2> QED BY <1>5, <1>6, <2>1, NotApart
<1> QED BY <1>2, <1>3, <1>4, <1>5, <1>6, <1>10, <1>11

LEMMA ApartUndone ==
    \A j \in Journals : \A m, n \in Menus : \A k \in 1 .. Len(j) :
        /\ AllChange(j)
        /\ Apart(m, n, j[k].inverse.id, DOMAIN Puts(j[k].inverse))
        => Undone(j, n) \subseteq Undone(j, m)
<1> DEFINE Holds(j) == \A m, n \in Menus : \A k \in 1 .. Len(j) :
              /\ AllChange(j)
              /\ Apart(m, n, j[k].inverse.id, DOMAIN Puts(j[k].inverse))
              => Undone(j, n) \subseteq Undone(j, m)
           S == {d \in Nat : \A j \in Journals : Len(j) = d => Holds(j)}
<1>1. 0 \in S
  OBVIOUS
<1>2. ASSUME NEW d \in Nat, d \in S PROVE d + 1 \in S
  <2> SUFFICES ASSUME NEW j \in Journals, Len(j) = d + 1, NEW m \in Menus, NEW n \in Menus,
                      NEW k \in 1 .. Len(j), AllChange(j),
                      Apart(m, n, j[k].inverse.id, DOMAIN Puts(j[k].inverse)),
                      NEW y \in Undone(j, n)
               PROVE  y \in Undone(j, m)
    OBVIOUS
  <2>1. j # <<>>
    <3>1. Len(j) # 0
      OBVIOUS
    <3> QED BY <3>1, EmptySeq
  <2>2. PICK i \in Journals, e \in Entries : j = Append(i, e)
    BY <2>1, SequenceEmptyOrAppend DEF Journals
  <2>3. Len(i) = d /\ j[d + 1] = e /\ \A l \in 1 .. d : j[l] = i[l]
    <3>1. Len(j) = Len(i) + 1 /\ Len(i) \in Nat
      BY <2>2, AppendProperties, LenProperties DEF Journals
    <3>2. Len(i) = d
      BY <3>1
    <3> QED BY <2>2, <3>2, AppendProperties DEF Journals
  <2>4. Holds(i) /\ AllChange(i)
    <3>1. Holds(i)
      BY <1>2, <2>2, <2>3
    <3>2. \A l \in 1 .. d : l \in 1 .. Len(j)
      OBVIOUS
    <3>3. AllChange(i)
      BY <2>3, <3>2 DEF AllChange
    <3> QED BY <3>1, <3>3
  <2>5. PICK c : c = e.inverse
    OBVIOUS
  <2>6. c \in Commands /\ c.verb \in Changing
    <3>1. d + 1 \in 1 .. Len(j)
      OBVIOUS
    <3> QED BY <2>3, <2>5, <3>1 DEF Entries, AllChange
  <2>7. Accepts(n, c) /\ y \in Undone(i, Run(n, c))
    BY <2>2, <2>5, UndoneLast
  <2>8. PICK id, F : id = j[k].inverse.id /\ F = DOMAIN Puts(j[k].inverse)
    OBVIOUS
  <2>9. /\ Accepts(m, c) /\ Run(m, c) \in Menus /\ Run(n, c) \in Menus
        /\ Apart(Run(m, c), Run(n, c), id, F)
        /\ c.id = id /\ F \subseteq DOMAIN Puts(c) => Run(m, c) = Run(n, c)
    BY <2>6, <2>7, <2>8, ApartRun
  <2>10. y \in Undone(i, Run(m, c))
    <3>1. CASE k = d + 1
      BY <2>3, <2>5, <2>7, <2>8, <2>9, <3>1
    <3>2. CASE k # d + 1
      <4>1. k \in 1 .. Len(i) /\ j[k] = i[k]
        BY <2>3, <3>2
      <4> QED BY <2>4, <2>7, <2>8, <2>9, <4>1
    <3> QED BY <3>1, <3>2
  <2> QED BY <2>2, <2>5, <2>9, <2>10, UndoneLast
<1> HIDE DEF S
<1>3. \A d \in Nat : d \in S
  BY <1>1, <1>2, AllNaturals
<1>4. \A j \in Journals : Len(j) \in Nat
  BY LenProperties DEF Journals
<1> QED BY <1>3, <1>4 DEF S

\* An inverse of the journal, run beforehand, makes no difference.
LEMMA Absorbed ==
    ASSUME NEW j \in Journals, AllChange(j), NEW k \in 1 .. Len(j),
           NEW m \in Menus, Accepts(m, j[k].inverse)
    PROVE  Undone(j, Run(m, j[k].inverse)) \subseteq Undone(j, m)
<1>1. PICK c : c = j[k].inverse
  OBVIOUS
<1>2. c \in Commands /\ c.verb \in Changing
  BY <1>1, ElementOfSeq DEF Journals, Entries, AllChange
<1>3. PICK n : n = Run(m, c)
  OBVIOUS
<1>4. /\ n \in Menus /\ n.secrets = m.secrets /\ n.next = m.next /\ DOMAIN n.rows = DOMAIN m.rows
      /\ IsWords(Puts(c)) /\ n.rows[c.id] = Over(Puts(c), m.rows[c.id])
      /\ c.id \in DOMAIN m.rows
      /\ \A i \in DOMAIN m.rows \ {c.id} : n.rows[i] = m.rows[i]
  BY <1>1, <1>2, <1>3, RunSays DEF Changing
<1>5. m.rows[c.id] \in Row
  BY <1>4, MenuRows
<1>6. \A f \in Fields : f \notin DOMAIN Puts(c) => n.rows[c.id][f] = m.rows[c.id][f]
  BY <1>4, <1>5, OverRow
<1>7. Apart(m, n, c.id, DOMAIN Puts(c))
  BY <1>4, <1>6 DEF Apart
<1> QED BY <1>1, <1>3, <1>4, <1>7, ApartUndone

-----------------------------------------------------------------------------
(* Rows that pair off are the same rows, each as often.                     *)

LEMMA LikeSame ==
    ASSUME NEW r, NEW s, IsFiniteSet(DOMAIN r), Like(r, s, menu.secrets),
           \A i \in DOMAIN r : r[i] \in Row, \A k \in DOMAIN s : s[k] \in Row
    PROVE  SameRows(s, r)
<1>1. PICK p : Pairs(p, r, s, menu.secrets)
  BY DEF Like
<1>2. PICK a : a = Open(r)
  OBVIOUS
<1>3. PICK b : b = Open(s)
  OBVIOUS
<1>4. DOMAIN a = DOMAIN r /\ DOMAIN b = DOMAIN s
  BY <1>2, <1>3 DEF Open
<1>5. ASSUME NEW i \in DOMAIN r PROVE a[i] = b[p[i]]
  <2>1. p[i] \in DOMAIN s
    BY <1>1 DEF Pairs
  <2>2. DOMAIN r[i] = Fields /\ DOMAIN s[p[i]] = Fields
    BY <2>1, RowFields
  <2>3. /\ a[i] = [f \in Fields |-> IF f \in menu.secrets THEN Unset ELSE r[i][f]]
        /\ b[p[i]] = [f \in Fields |-> IF f \in menu.secrets THEN Unset ELSE s[p[i]][f]]
    BY <1>2, <1>3, <2>1, <2>2 DEF Open
  <2>4. \A f \in Fields : f \notin menu.secrets => r[i][f] = s[p[i]][f]
    BY <1>1 DEF Pairs, Alike
  <2> QED BY <2>3, <2>4
<1>6. ASSUME NEW row
      PROVE  Cardinality({k \in DOMAIN b : b[k] = row}) = Cardinality({i \in DOMAIN a : a[i] = row})
  <2> DEFINE A == {i \in DOMAIN a : a[i] = row}
             B == {k \in DOMAIN b : b[k] = row}
             q == [i \in A |-> p[i]]
  <2>1. A \subseteq DOMAIN r /\ IsFiniteSet(A)
    BY <1>4, FS_Subset
  <2>2. \A i \in A : p[i] \in B
    BY <1>1, <1>4, <1>5 DEF Pairs
  <2>3. q \in [A -> B] /\ \A i \in A : q[i] = p[i]
    BY <2>2
  <2>4. \A i, k \in A : q[i] = q[k] => i = k
    BY <1>1, <2>1, <2>3 DEF Pairs
  <2>5. \A k \in B : \E i \in A : q[i] = k
    <3> TAKE k \in B
    <3>1. PICK i \in DOMAIN r : p[i] = k
      BY <1>1, <1>4 DEF Pairs
    <3>2. i \in A
      BY <1>4, <1>5, <3>1
    <3> QED BY <2>3, <3>1, <3>2
  <2> HIDE DEF A, B, q
  <2>6. q \in Bijection(A, B)
    BY <2>3, <2>4, <2>5 DEF Bijection, Injection, Surjection, IsInjective
  <2>7. ExistsBijection(A, B)
    BY <2>6 DEF ExistsBijection
  <2>8. Cardinality(B) = Cardinality(A)
    BY <2>1, <2>7, FS_Bijection
  <2> QED BY <2>8 DEF A, B
<1> QED BY <1>2, <1>3, <1>6 DEF SameRows

-----------------------------------------------------------------------------
(* Each write and its inverse.                                              *)

\* The entries of a write from menu to n undo it, for the older inverses.
Undoes(n, entries, targets) ==
    IF entries = <<>> THEN \E p : Matches(p, menu, n, targets)
    ELSE Accepts(n, entries[1].inverse) =>
            \E p : Matches(p, menu, Run(n, entries[1].inverse), targets)

Below(targets, next) == \A t \in targets : t \in Nat /\ t < next

LEMMA NoWordsAreWords == NoWords \in WordSets /\ IsWords(NoWords) /\ DOMAIN NoWords = {}
<1>1. DOMAIN NoWords = {}
  BY DEF NoWords
<1>2. NoWords \in [{} -> Names \cup Comments \cup {Unset} \cup Bool]
  BY DEF NoWords
<1>3. {} \in SUBSET Fields
  OBVIOUS
<1>4. NoWords \in WordSets
  BY <1>2, <1>3 DEF WordSets
<1>5. IsWords(NoWords)
  BY <1>1 DEF IsWords
<1> QED BY <1>1, <1>4, <1>5

LEMMA SetWordsAreWords ==
    ASSUME NEW w \in SetWords
    PROVE  /\ w \in WordSets /\ IsWords(w)
           /\ w \in NewWords => "name" \in DOMAIN w
<1>1. CASE w \in [name : Names]
  <2>1. w \in [{"name"} -> Names \cup Comments \cup {Unset} \cup Bool]
    BY <1>1
  <2>2. {"name"} \in SUBSET Fields /\ DOMAIN w = {"name"} /\ w["name"] \in Names
    BY <1>1 DEF Fields
  <2> QED BY <2>1, <2>2 DEF WordSets, IsWords, Fields
<1>2. CASE w \in [name : Names, comment : Comments]
  <2>1. w \in [{"name", "comment"} -> Names \cup Comments \cup {Unset} \cup Bool]
    BY <1>2
  <2>2. /\ {"name", "comment"} \in SUBSET Fields /\ DOMAIN w = {"name", "comment"}
        /\ w["name"] \in Names /\ w["comment"] \in Comments
    BY <1>2 DEF Fields
  <2> QED BY <2>1, <2>2 DEF WordSets, IsWords, Fields
<1>3. CASE w \in [comment : Comments \cup {Unset}]
  <2>1. w \in [{"comment"} -> Names \cup Comments \cup {Unset} \cup Bool]
    BY <1>3
  <2>2. {"comment"} \in SUBSET Fields /\ DOMAIN w = {"comment"} /\ w["comment"] \in Comments \cup {Unset}
    BY <1>3 DEF Fields
  <2>3. w \notin NewWords
    BY <2>2 DEF NewWords
  <2> QED BY <2>1, <2>2, <2>3 DEF WordSets, IsWords, Fields
<1> QED BY <1>1, <1>2, <1>3 DEF SetWords, NewWords

LEMMA CommandTyped ==
    ASSUME NEW verb \in Verbs, NEW id \in Nat \cup {None}, NEW w \in WordSets, IsWords(w),
           verb = "add" => "name" \in DOMAIN w, verb # "add" => id \in Nat
    PROVE  /\ Command(verb, id, w) \in Commands
           /\ Command(verb, id, w).verb = verb /\ Command(verb, id, w).id = id
           /\ Command(verb, id, w).words = w
BY DEF Command, Commands

\* What is left of an inverse in the journal.
LEMMA SanitizedTyped ==
    ASSUME menu \in Menus, NEW c \in Commands
    PROVE  LET d == Sanitized(c)
           IN  /\ d \in Commands /\ d.verb = c.verb /\ d.id = c.id
               /\ DOMAIN d.words = DOMAIN c.words \ menu.secrets
               /\ \A f \in DOMAIN d.words : d.words[f] = c.words[f]
<1> DEFINE F == DOMAIN c.words \ menu.secrets
           w == [f \in F |-> c.words[f]]
           V == Names \cup Comments \cup {Unset} \cup Bool
<1>1. PICK E \in SUBSET Fields : c.words \in [E -> V]
  BY DEF Commands, WordSets
<1>2. F \in SUBSET Fields /\ w \in [F -> V] /\ DOMAIN w = F
  BY <1>1
<1>3. "name" \notin menu.secrets
  BY SafeAssumption DEF Menus, SafeAssumption
<1>4. w \in WordSets
  BY <1>2 DEF WordSets
<1>5. IsWords(w) /\ (c.verb = "add" => "name" \in DOMAIN w)
  BY <1>2, <1>3 DEF Commands, IsWords
<1>6. Sanitized(c) = [verb |-> c.verb, id |-> c.id, words |-> w]
  BY DEF Sanitized, Commands
<1>7. c.verb \in Verbs /\ c.id \in Nat \cup {None} /\ (c.verb # "add" => c.id \in Nat)
  BY DEF Commands
<1> HIDE DEF F, w
<1>8. Sanitized(c) \in Commands
  BY <1>4, <1>5, <1>6, <1>7 DEF Commands
<1>9. DOMAIN w = F /\ \A f \in F : w[f] = c.words[f]
  BY DEF w
<1> QED BY <1>6, <1>8, <1>9 DEF F

LEMMA EntryTyped ==
    ASSUME menu \in Menus, NEW c \in Commands, NEW id \in Nat, c.verb # "add" => c.id = id
    PROVE  /\ Entry(id, c) \in Entries
           /\ Entry(id, c).target = id /\ Entry(id, c).inverse = Sanitized(c)
<1>1. Entry(id, c) = [target |-> id, inverse |-> Sanitized(c)]
  BY DEF Entry
<1>2. Sanitized(c) \in Commands /\ Sanitized(c).verb = c.verb /\ Sanitized(c).id = c.id
  BY SanitizedTyped
<1> QED BY <1>1, <1>2 DEF Entries

\* create, and exec of an add: the inverse removes the row.
LEMMA AddUndone ==
    ASSUME menu \in Menus, NEW c \in Commands, c.verb = "add", Accepts(menu, c),
           NEW T, Below(T, menu.next)
    PROVE  LET e == Entry(menu.next, PlainInverse("add", menu.next))
           IN  e \in Entries /\ e.target = menu.next /\ Undoes(Run(menu, c), <<e>>, T)
<1>1. menu.next \in Nat
  BY DEF Menus
<1>2. PICK b : b = PlainInverse("add", menu.next)
  OBVIOUS
<1>3. b \in Commands /\ b.verb = "remove" /\ b.id = menu.next
  BY <1>1, <1>2, NoWordsAreWords, CommandTyped DEF PlainInverse, Opposite, Verbs
<1>4. PICK e : e = Entry(menu.next, b)
  OBVIOUS
<1>5. e \in Entries /\ e.target = menu.next /\ e.inverse = Sanitized(b)
  BY <1>1, <1>3, <1>4, EntryTyped
<1>6. PICK d : d = e.inverse
  OBVIOUS
<1>7. d \in Commands /\ d.verb = "remove" /\ d.id = menu.next
  BY <1>3, <1>5, <1>6, SanitizedTyped
<1>8. PICK n \in Menus : n = Run(menu, c)
  BY RunSays
<1>9. ASSUME Accepts(n, d) PROVE \E p : Matches(p, menu, Run(n, d), T)
  <2>1. PICK x : x = Run(n, d)
    OBVIOUS
  <2>2. /\ n.secrets = menu.secrets /\ n.next = menu.next + 1
        /\ DOMAIN n.rows = DOMAIN menu.rows \cup {menu.next}
        /\ \A i \in DOMAIN menu.rows : n.rows[i] = menu.rows[i]
    BY <1>8, RunSays
  <2>3. /\ x.secrets = n.secrets /\ x.next = n.next
        /\ DOMAIN x.rows = DOMAIN n.rows \ {menu.next}
        /\ \A i \in DOMAIN n.rows \ {menu.next} : x.rows[i] = n.rows[i]
    BY <1>7, <1>9, <2>1, RunSays
  <2>4. menu.next \notin DOMAIN menu.rows
    BY MenuRows
  <2>5. DOMAIN x.rows = DOMAIN menu.rows /\ \A i \in DOMAIN menu.rows : x.rows[i] = menu.rows[i]
    BY <2>2, <2>3, <2>4
  <2> DEFINE p == [i \in DOMAIN menu.rows |-> i]
  <2>6. Matches(p, menu, x, T)
    BY <1>1, <2>2, <2>3, <2>5 DEF Matches, Pairs, Alike
  <2> HIDE DEF p
  <2> QED BY <2>1, <2>6
<1>10. <<e>> # <<>> /\ <<e>>[1] = e
  OBVIOUS
<1>11. Undoes(n, <<e>>, T)
  BY <1>6, <1>9, <1>10 DEF Undoes
<1> QED BY <1>2, <1>4, <1>5, <1>8, <1>11

\* delete: the inverse adds the row again, without its secrets.
LEMMA RemoveUndone ==
    ASSUME menu \in Menus, NEW id \in DOMAIN menu.rows, NEW T, Below(T, menu.next)
    PROVE  LET c == Command("remove", id, NoWords)
               e == Entry(id, RemoveInverse(menu.rows[id]))
           IN  /\ c \in Commands /\ Accepts(menu, c)
               /\ e \in Entries /\ e.target = id /\ Undoes(Run(menu, c), <<e>>, T)
<1>1. /\ menu.rows[id] \in Row /\ id \in Nat /\ menu.next \in Nat /\ id < menu.next
      /\ Unset \notin Names \cup Bool /\ "name" \notin menu.secrets /\ "disabled" \notin menu.secrets
  BY MenuRows, SafeAssumption DEF Menus, SafeAssumption
<1>2. PICK r : r = menu.rows[id]
  OBVIOUS
<1>3. /\ DOMAIN r = Fields /\ r["name"] \in Names /\ r["comment"] \in Comments \cup {Unset}
      /\ r["disabled"] \in Bool
  BY <1>1, <1>2, RowFields
<1>4. PICK c : c = Command("remove", id, NoWords)
  OBVIOUS
<1>5. c \in Commands /\ c.verb = "remove" /\ c.id = id /\ Accepts(menu, c)
  BY <1>1, <1>4, NoWordsAreWords, CommandTyped DEF Verbs, Accepts
<1> DEFINE F == {f \in Fields : r[f] # Unset}
           w == [f \in F |-> r[f]]
<1>6. w \in WordSets /\ IsWords(w) /\ "name" \in DOMAIN w /\ "disabled" \in DOMAIN w
  <2>1. DOMAIN w = F /\ F \in SUBSET Fields /\ \A f \in F : w[f] = r[f]
    OBVIOUS
  <2>2. "name" \in F /\ "disabled" \in F
    BY <1>1, <1>3 DEF Fields
  <2>3. w \in [F -> Names \cup Comments \cup {Unset} \cup Bool]
    BY <1>3 DEF Fields
  <2>4. w \in WordSets
    BY <2>1, <2>3 DEF WordSets
  <2> HIDE DEF w, F
  <2>5. IsWords(w)
    BY <1>3, <2>1 DEF IsWords
  <2> QED BY <2>1, <2>2, <2>4, <2>5
<1>7. PICK b : b = RemoveInverse(r)
  OBVIOUS
<1>8. b \in Commands /\ b.verb = "add" /\ b.words = w
  <2>1. b = Command("add", None, w)
    BY <1>3, <1>7 DEF RemoveInverse
  <2> HIDE DEF w
  <2> QED BY <1>6, <2>1, CommandTyped DEF Verbs
<1>9. PICK e : e = Entry(id, b)
  OBVIOUS
<1>10. e \in Entries /\ e.target = id /\ e.inverse = Sanitized(b)
  BY <1>1, <1>8, <1>9, EntryTyped
<1>11. PICK d : d = e.inverse
  OBVIOUS
<1>12. /\ d \in Commands /\ d.verb = "add" /\ DOMAIN d.words = DOMAIN w \ menu.secrets
       /\ \A f \in DOMAIN d.words : d.words[f] = w[f]
  BY <1>8, <1>10, <1>11, SanitizedTyped
<1>13. PICK n \in Menus : n = Run(menu, c)
  BY <1>5, RunSays
<1>14. ASSUME Accepts(n, d) PROVE \E p : Matches(p, menu, Run(n, d), T)
  <2>1. PICK x : x = Run(n, d)
    OBVIOUS
  <2>2. /\ n.secrets = menu.secrets /\ n.next = menu.next
        /\ DOMAIN n.rows = DOMAIN menu.rows \ {id}
        /\ \A i \in DOMAIN menu.rows \ {id} : n.rows[i] = menu.rows[i]
    BY <1>5, <1>13, RunSays
  <2>3. /\ x.secrets = n.secrets /\ x.next = n.next + 1
        /\ DOMAIN x.rows = DOMAIN n.rows \cup {n.next}
        /\ x.rows[n.next] = Over(d.words, NewRow)
        /\ \A i \in DOMAIN n.rows : x.rows[i] = n.rows[i]
    BY <1>12, <1>14, <2>1, RunSays
  <2>4. menu.next \notin DOMAIN menu.rows
    BY MenuRows
  <2>5. Alike(menu.secrets, r, x.rows[menu.next])
    <3>1. IsWords(d.words) /\ "name" \in DOMAIN d.words
      BY <1>12 DEF Commands
    <3>2. \A f \in Fields : x.rows[menu.next][f] =
             IF f \in DOMAIN d.words THEN d.words[f] ELSE IF f = "comment" THEN Unset ELSE "false"
      BY <2>2, <2>3, <3>1, OverNewRow
    <3>3. \A f \in Fields \ menu.secrets : r[f] # Unset => f \in DOMAIN d.words /\ d.words[f] = r[f]
      BY <1>12
    <3>4. \A f \in Fields \ menu.secrets : r[f] = Unset => f = "comment" /\ f \notin DOMAIN d.words
      BY <1>1, <1>3, <1>12 DEF Fields
    <3> HIDE DEF w, F
    <3> QED BY <3>2, <3>3, <3>4 DEF Alike
  <2> DEFINE p == [i \in DOMAIN menu.rows |-> IF i = id THEN menu.next ELSE i]
  <2>6. /\ p[id] = menu.next
        /\ \A i \in DOMAIN menu.rows \ {id} : p[i] = i /\ x.rows[i] = menu.rows[i]
        /\ DOMAIN x.rows = (DOMAIN menu.rows \ {id}) \cup {menu.next}
        /\ p \in [DOMAIN menu.rows -> DOMAIN x.rows]
    BY <2>2, <2>3
  <2> HIDE DEF p
  <2>7. Pairs(p, menu.rows, x.rows, menu.secrets)
    <3>1. \A i, k \in DOMAIN menu.rows : p[i] = p[k] => i = k
      BY <2>4, <2>6
    <3>2. \A k \in DOMAIN x.rows : \E i \in DOMAIN menu.rows : p[i] = k
      BY <2>6
    <3>3. \A i \in DOMAIN menu.rows : Alike(menu.secrets, menu.rows[i], x.rows[p[i]])
      <4> TAKE i \in DOMAIN menu.rows
      <4>1. CASE i = id
        BY <1>2, <2>5, <2>6, <4>1
      <4>2. CASE i # id
        BY <2>6, <4>2 DEF Alike
      <4> QED BY <4>1, <4>2
    <3> QED BY <2>6, <3>1, <3>2, <3>3 DEF Pairs
  <2>8. \A t \in T : t \in DOMAIN x.rows => t \in DOMAIN menu.rows /\ p[t] = t
    BY <1>1, <2>6 DEF Below
  <2>9. menu.secrets = x.secrets /\ menu.next <= x.next
    BY <1>1, <2>2, <2>3
  <2>10. Matches(p, menu, x, T)
    BY <2>7, <2>8, <2>9 DEF Matches
  <2> QED BY <2>1, <2>10
<1>15. <<e>> # <<>> /\ <<e>>[1] = e
  OBVIOUS
<1>16. Undoes(n, <<e>>, T)
  BY <1>11, <1>14, <1>15 DEF Undoes
<1> QED BY <1>2, <1>4, <1>5, <1>7, <1>9, <1>10, <1>13, <1>16

\* What set journals.
LEMMA SetEntry ==
    ASSUME menu \in Menus, NEW id \in DOMAIN menu.rows, NEW w \in WordSets, IsWords(w)
    PROVE  LET r == menu.rows[id]
               b == SetInverse(id, r, w)
               e == Entry(id, b)
               F == {f \in DOMAIN w : r[f] # Unset}
           IN  /\ b.words = [f \in F |-> r[f]]
               /\ e \in Entries /\ e.target = id
               /\ e.inverse \in Commands /\ e.inverse.verb = "set" /\ e.inverse.id = id
               /\ DOMAIN e.inverse.words = F \ menu.secrets
               /\ \A f \in F \ menu.secrets : e.inverse.words[f] = r[f]
<1>1. menu.rows[id] \in Row /\ id \in Nat
  BY MenuRows
<1>2. PICK r \in Row : r = menu.rows[id]
  BY <1>1
<1>3. DOMAIN r = Fields
  BY RowFields
<1> DEFINE F == {f \in DOMAIN w : r[f] # Unset}
           v == [f \in F |-> r[f]]
<1>4. /\ v \in WordSets /\ IsWords(v) /\ DOMAIN v = F
      /\ \A f \in F : v[f] = r[f]
  <2>1. DOMAIN v = F /\ F \in SUBSET Fields /\ \A f \in F : v[f] = r[f]
    BY DEF IsWords
  <2>2. /\ r["name"] \in Names /\ r["comment"] \in Comments \cup {Unset}
        /\ r["disabled"] \in Bool
    BY RowFields
  <2>3. v \in [F -> Names \cup Comments \cup {Unset} \cup Bool]
    BY <2>1, <2>2 DEF Fields
  <2>4. v \in WordSets
    BY <2>1, <2>3 DEF WordSets
  <2> HIDE DEF v, F
  <2>5. IsWords(v)
    BY <2>1, <2>2 DEF IsWords
  <2> QED BY <2>1, <2>4, <2>5
<1>5. PICK b : b = SetInverse(id, r, w)
  OBVIOUS
<1>6. b \in Commands /\ b.verb = "set" /\ b.id = id /\ b.words = v
  <2>1. b = Command("set", id, v)
    BY <1>5 DEF SetInverse
  <2> HIDE DEF v
  <2> QED BY <1>1, <1>4, <2>1, CommandTyped DEF Verbs
<1>7. PICK e : e = Entry(id, b)
  OBVIOUS
<1>8. e \in Entries /\ e.target = id /\ e.inverse = Sanitized(b)
  BY <1>1, <1>6, <1>7, EntryTyped
<1>9. PICK d : d = e.inverse
  OBVIOUS
<1>10. /\ d \in Commands /\ d.verb = "set" /\ d.id = id /\ DOMAIN d.words = F \ menu.secrets
       /\ \A f \in DOMAIN d.words : d.words[f] = r[f]
  BY <1>4, <1>6, <1>8, <1>9, SanitizedTyped
<1> QED BY <1>2, <1>5, <1>6, <1>7, <1>8, <1>9, <1>10

\* set: what the row printed is put back, but for secrets.  A field that was unset and
\* has a value now is not.
LEMMA SetUndone ==
    ASSUME menu \in Menus, NEW id \in DOMAIN menu.rows, NEW w \in WordSets, IsWords(w),
           NEW T, Below(T, menu.next),
           \A f \in DOMAIN w \ menu.secrets :
              menu.rows[id][f] = Unset => w[f] = Unset
    PROVE  LET c == Command("set", id, w)
               b == SetInverse(id, menu.rows[id], w)
               e == Entry(id, b)
           IN  /\ c \in Commands /\ Accepts(menu, c)
               /\ e \in Entries /\ e.target = id
               /\ b.words # NoWords => Undoes(Run(menu, c), <<e>>, T)
               /\ b.words = NoWords => Undoes(Run(menu, c), <<>>, T)
<1>1. menu.rows[id] \in Row /\ id \in Nat /\ menu.next \in Nat /\ id < menu.next
  BY MenuRows
<1>2. PICK r \in Row : r = menu.rows[id]
  BY <1>1
<1>3. DOMAIN r = Fields
  BY RowFields
<1>4. PICK c : c = Command("set", id, w)
  OBVIOUS
<1>5. c \in Commands /\ c.verb = "set" /\ c.id = id /\ c.words = w /\ Accepts(menu, c)
  BY <1>1, <1>4, CommandTyped DEF Verbs, Accepts
<1> DEFINE F == {f \in DOMAIN w : r[f] # Unset}
           v == [f \in F |-> r[f]]
<1>6. PICK b : b = SetInverse(id, r, w)
  OBVIOUS
<1>7. PICK e : e = Entry(id, b)
  OBVIOUS
<1>8. PICK d : d = e.inverse
  OBVIOUS
<1>9. /\ b.words = v /\ e \in Entries /\ e.target = id
       /\ d \in Commands /\ d.verb = "set" /\ d.id = id /\ DOMAIN d.words = F \ menu.secrets
       /\ \A f \in DOMAIN d.words : d.words[f] = r[f]
  BY <1>2, <1>6, <1>7, <1>8, SetEntry
<1>10. b.words = v => (b.words = NoWords <=> v = NoWords)
  OBVIOUS
<1>11. PICK n \in Menus : n = Run(menu, c)
  BY <1>5, RunSays
<1>12. /\ n.secrets = menu.secrets /\ n.next = menu.next /\ DOMAIN n.rows = DOMAIN menu.rows
       /\ n.rows[id] = Over(w, r)
       /\ \A i \in DOMAIN menu.rows \ {id} : n.rows[i] = menu.rows[i]
  BY <1>2, <1>5, <1>11, RunSays DEF Changing, Puts
<1>13. Over(w, r) \in Row /\ \A f \in Fields : Over(w, r)[f] = IF f \in DOMAIN w THEN w[f] ELSE r[f]
  BY OverRow
<1>14. \A f \in Fields \ menu.secrets : f \notin F => Over(w, r)[f] = r[f]
  BY <1>2, <1>13
<1>15. \A f \in F : f \in Fields
  BY DEF IsWords
<1> HIDE DEF v, F
<1> DEFINE p == [i \in DOMAIN menu.rows |-> i]
<1>16. ASSUME NEW x, x.secrets = menu.secrets, x.next = menu.next,
              DOMAIN x.rows = DOMAIN menu.rows, Alike(menu.secrets, r, x.rows[id]),
              \A i \in DOMAIN menu.rows \ {id} : x.rows[i] = menu.rows[i]
       PROVE  Matches(p, menu, x, T)
  <2>1. \A i \in DOMAIN menu.rows : Alike(menu.secrets, menu.rows[i], x.rows[i])
    BY <1>2, <1>16 DEF Alike
  <2>2. Pairs(p, menu.rows, x.rows, menu.secrets)
    BY <1>16, <2>1 DEF Pairs
  <2> QED BY <1>1, <1>16, <2>2 DEF Matches
<1> HIDE DEF p
<1>17. ASSUME Accepts(n, d) PROVE \E q : Matches(q, menu, Run(n, d), T)
  <2>1. PICK x : x = Run(n, d)
    OBVIOUS
  <2>2. /\ x.secrets = n.secrets /\ x.next = n.next /\ DOMAIN x.rows = DOMAIN n.rows
        /\ IsWords(d.words)
        /\ x.rows[id] = Over(d.words, n.rows[id])
        /\ \A i \in DOMAIN n.rows \ {id} : x.rows[i] = n.rows[i]
    BY <1>9, <1>17, <2>1, RunSays DEF Changing, Puts
  <2>3. \A f \in Fields : x.rows[id][f] =
           IF f \in DOMAIN d.words THEN d.words[f] ELSE Over(w, r)[f]
    BY <1>12, <1>13, <2>2, OverRow
  <2>4. Alike(menu.secrets, r, x.rows[id])
    BY <1>9, <1>14, <2>3 DEF Alike
  <2>5. Matches(p, menu, x, T)
    BY <1>12, <1>16, <2>2, <2>4
  <2> QED BY <2>1, <2>5
<1>18. ASSUME v = NoWords PROVE \E q : Matches(q, menu, n, T)
  <2>1. F = {}
    <3>1. DOMAIN v = F
      BY DEF v
    <3> QED BY <1>18, <3>1, NoWordsAreWords
  <2>2. Alike(menu.secrets, r, n.rows[id])
    BY <1>12, <1>14, <2>1 DEF Alike
  <2>3. Matches(p, menu, n, T)
    BY <1>12, <1>16, <2>2
  <2> QED BY <2>3
<1>19. <<e>> # <<>> /\ <<e>>[1] = e
  OBVIOUS
<1>20. Undoes(n, <<e>>, T)
  BY <1>8, <1>17, <1>19 DEF Undoes
<1>21. v = NoWords => Undoes(n, <<>>, T)
  BY <1>18 DEF Undoes
<1> QED BY <1>2, <1>4, <1>5, <1>6, <1>10, <1>7, <1>9, <1>11, <1>20, <1>21

\* enable and disable of a row that was not so.
LEMMA ToggleUndone ==
    ASSUME menu \in Menus, NEW id \in DOMAIN menu.rows, NEW verb \in {"enable", "disable"},
           NEW T, Below(T, menu.next)
    PROVE  LET c == Command(verb, id, NoWords)
               e == Entry(id, PlainInverse(verb, id))
           IN  /\ c \in Commands /\ Accepts(menu, c)
               /\ e \in Entries /\ e.target = id
               /\ ~IsSo(id, verb) => Undoes(Run(menu, c), <<e>>, T)
<1>1. menu.rows[id] \in Row /\ id \in Nat /\ menu.next \in Nat /\ id < menu.next
  BY MenuRows
<1>2. PICK r \in Row : r = menu.rows[id]
  BY <1>1
<1>3. PICK c : c = Command(verb, id, NoWords)
  OBVIOUS
<1>4. c \in Commands /\ c.verb = verb /\ c.id = id /\ Accepts(menu, c)
  BY <1>1, <1>3, NoWordsAreWords, CommandTyped DEF Verbs, Accepts
<1>5. PICK b : b = PlainInverse(verb, id)
  OBVIOUS
<1>6. Opposite(verb) \in {"enable", "disable"} /\ Opposite(verb) # verb
  BY DEF Opposite
<1>7. b \in Commands /\ b.verb = Opposite(verb) /\ b.id = id
  BY <1>1, <1>5, <1>6, NoWordsAreWords, CommandTyped DEF Verbs, PlainInverse
<1>8. PICK e : e = Entry(id, b)
  OBVIOUS
<1>9. e \in Entries /\ e.target = id /\ e.inverse = Sanitized(b)
  BY <1>1, <1>7, <1>8, EntryTyped
<1>10. PICK d : d = e.inverse
  OBVIOUS
<1>11. d \in Commands /\ d.verb = Opposite(verb) /\ d.id = id
  BY <1>7, <1>9, <1>10, SanitizedTyped
<1>12. PICK n \in Menus : n = Run(menu, c)
  BY <1>4, RunSays
<1>13. ASSUME ~IsSo(id, verb), Accepts(n, d) PROVE \E p : Matches(p, menu, Run(n, d), T)
  <2>1. PICK x : x = Run(n, d)
    OBVIOUS
  <2>2. /\ n.secrets = menu.secrets /\ n.next = menu.next /\ DOMAIN n.rows = DOMAIN menu.rows
        /\ IsWords(Puts(c)) /\ n.rows[id] = Over(Puts(c), r)
        /\ \A i \in DOMAIN menu.rows \ {id} : n.rows[i] = menu.rows[i]
    BY <1>2, <1>4, <1>12, RunSays DEF Changing
  <2>3. /\ x.secrets = n.secrets /\ x.next = n.next /\ DOMAIN x.rows = DOMAIN n.rows
        /\ IsWords(Puts(d)) /\ x.rows[id] = Over(Puts(d), n.rows[id])
        /\ \A i \in DOMAIN n.rows \ {id} : x.rows[i] = n.rows[i]
    BY <1>6, <1>11, <1>13, <2>1, RunSays DEF Changing
  <2>4. /\ DOMAIN Puts(c) = {"disabled"} /\ DOMAIN Puts(d) = {"disabled"}
        /\ Puts(d)["disabled"] = IF verb = "enable" THEN "true" ELSE "false"
    BY <1>4, <1>6, <1>11 DEF Puts, Opposite
  <2>5. r["disabled"] = IF verb = "enable" THEN "true" ELSE "false"
    <3>1. r["disabled"] \in Bool
      BY RowFields
    <3> QED BY <1>2, <1>13, <3>1 DEF IsSo, Bool
  <2>6. Over(Puts(c), r) \in Row
        /\ \A f \in Fields : Over(Puts(c), r)[f] = IF f = "disabled" THEN Puts(c)[f] ELSE r[f]
    BY <2>2, <2>4, OverRow
  <2>7. \A f \in Fields : x.rows[id][f] = IF f = "disabled" THEN Puts(d)[f] ELSE Over(Puts(c), r)[f]
    BY <2>2, <2>3, <2>4, <2>6, OverRow
  <2>8. Alike(menu.secrets, r, x.rows[id])
    BY <2>4, <2>5, <2>6, <2>7 DEF Alike
  <2> DEFINE p == [i \in DOMAIN menu.rows |-> i]
  <2>9. \A i \in DOMAIN menu.rows : Alike(menu.secrets, menu.rows[i], x.rows[i])
    BY <1>2, <2>2, <2>3, <2>8 DEF Alike
  <2>10. Pairs(p, menu.rows, x.rows, menu.secrets)
    BY <2>2, <2>3, <2>9 DEF Pairs
  <2>11. Matches(p, menu, x, T)
    BY <1>1, <2>2, <2>3, <2>10 DEF Matches
  <2> HIDE DEF p
  <2> QED BY <2>1, <2>11
<1>14. <<e>> # <<>> /\ <<e>>[1] = e
  OBVIOUS
<1>15. ~IsSo(id, verb) => Undoes(n, <<e>>, T)
  BY <1>10, <1>13, <1>14 DEF Undoes
<1> QED BY <1>3, <1>4, <1>5, <1>8, <1>9, <1>12, <1>15

-----------------------------------------------------------------------------
(* Journals that grow by a write and shrink by an inverse.                  *)

LEMMA Grown ==
    ASSUME NEW j \in Journals
    PROVE  /\ j \o <<>> = j
           /\ \A e \in Entries : /\ j \o <<e>> = Append(j, e) /\ j \o <<e>> \in Journals
                                 /\ Len(j \o <<e>>) = Len(j) + 1
                                 /\ \A k \in 1 .. Len(j) : (j \o <<e>>)[k] = j[k]
                                 /\ (j \o <<e>>)[Len(j) + 1] = e
                                 /\ Targets(j \o <<e>>) = Targets(j) \cup {e.target}
<1>1. j \o <<>> = j
  BY ConcatEmptySeq DEF Journals
<1>2. ASSUME NEW e \in Entries
      PROVE  /\ j \o <<e>> = Append(j, e) /\ j \o <<e>> \in Journals
             /\ Len(j \o <<e>>) = Len(j) + 1
             /\ \A k \in 1 .. Len(j) : (j \o <<e>>)[k] = j[k]
             /\ (j \o <<e>>)[Len(j) + 1] = e
             /\ Targets(j \o <<e>>) = Targets(j) \cup {e.target}
  <2>1. PICK i : i = j \o <<e>>
    OBVIOUS
  <2>2. i = Append(j, e)
    BY <2>1, AppendIsConcat DEF Journals
  <2>3. /\ i \in Journals /\ Len(i) = Len(j) + 1 /\ i[Len(j) + 1] = e
        /\ \A k \in 1 .. Len(j) : i[k] = j[k]
    BY <2>2, AppendProperties DEF Journals
  <2>4. PICK L \in Nat : L = Len(j)
    BY LenProperties DEF Journals
  <2>5. \A k : k \in 1 .. L + 1 <=> k \in 1 .. L \/ k = L + 1
    BY <2>4
  <2>6. Targets(i) = Targets(j) \cup {e.target}
    <3>1. \A k \in 1 .. L : i[k].target = j[k].target
      BY <2>3, <2>4
    <3>2. i[L + 1].target = e.target
      BY <2>3, <2>4
    <3>3. Targets(i) = {i[k].target : k \in 1 .. L + 1}
      BY <2>3, <2>4 DEF Targets
    <3>4. Targets(j) = {j[k].target : k \in 1 .. L}
      BY <2>4 DEF Targets
    <3> QED BY <2>5, <3>1, <3>2, <3>3, <3>4
  <2> QED BY <2>1, <2>2, <2>3, <2>6
<1> QED BY <1>1, <1>2

LEMMA Left ==
    ASSUME NEW j \in Journals
    PROVE  /\ SubSeq(j, 1, Len(j)) = j
           /\ Len(SubSeq(j, 1, 0)) = 0
           /\ \A k \in 0 .. Len(j) : SubSeq(j, 1, k) \in Journals
           /\ \A k \in 1 .. Len(j) :
                 SubSeq(j, 1, k) = Append(SubSeq(j, 1, k - 1), j[k])
<1>1. PICK L \in Nat : L = Len(j)
  BY LenProperties DEF Journals
<1>2. ASSUME NEW k \in 0 .. L
      PROVE  /\ SubSeq(j, 1, k) \in Journals /\ Len(SubSeq(j, 1, k)) = k
             /\ \A n \in 1 .. k : SubSeq(j, 1, k)[n] = j[n]
  <2>1. \A n \in 1 .. k : n \in 1 .. L
    OBVIOUS
  <2>2. \A n \in 1 .. k : j[n] \in Entries
    BY <1>1, <2>1, ElementOfSeq DEF Journals
  <2>3. SubSeq(j, 1, k) = [n \in 1 .. k |-> j[n]]
    BY <1>1 DEF Journals
  <2>4. [n \in 1 .. k |-> j[n]] \in Seq(Entries)
    BY <2>2, IsASeq
  <2> QED BY <2>3, <2>4 DEF Journals
<1>3. SubSeq(j, 1, L) = j
  <2>1. L \in 0 .. L
    OBVIOUS
  <2> QED BY <1>1, <1>2, <2>1, SeqEqual DEF Journals
<1>4. ASSUME NEW k \in 1 .. L
      PROVE  SubSeq(j, 1, k) = Append(SubSeq(j, 1, k - 1), j[k])
  <2>1. k \in 0 .. L /\ k - 1 \in 0 .. L /\ (k - 1) + 1 = k
    OBVIOUS
  <2>2. PICK a \in Journals : a = SubSeq(j, 1, k)
    BY <1>2, <2>1
  <2>3. PICK b \in Journals : b = SubSeq(j, 1, k - 1)
    BY <1>2, <2>1
  <2>4. Len(a) = k /\ \A n \in 1 .. k : a[n] = j[n]
    BY <1>2, <2>1, <2>2
  <2>5. Len(b) = k - 1 /\ \A n \in 1 .. k - 1 : b[n] = j[n]
    BY <1>2, <2>1, <2>3
  <2>6. j[k] \in Entries
    BY <1>1, ElementOfSeq DEF Journals
  <2>7. PICK d : d = Append(b, j[k])
    OBVIOUS
  <2>8. d \in Journals /\ Len(d) = k /\ d[k] = j[k] /\ \A n \in 1 .. k - 1 : d[n] = b[n]
    BY <2>1, <2>5, <2>6, <2>7, AppendProperties DEF Journals
  <2>9. \A n \in 1 .. k : n \in 1 .. k - 1 \/ n = k
    OBVIOUS
  <2>10. \A n \in 1 .. k : a[n] = d[n]
    BY <2>4, <2>5, <2>8, <2>9
  <2>11. a = d
    BY <2>4, <2>8, <2>10, SeqEqual DEF Journals
  <2> QED BY <2>2, <2>3, <2>7, <2>11
<1> QED BY <1>1, <1>2, <1>3, <1>4

-----------------------------------------------------------------------------
(* The invariant.                                                           *)

Statuses == {"active", "rolling", "committed", "rolled_back"}

Gaps == {"unset", "noop", "unjournaled", "lost"}

Typed ==
    /\ menu \in Menus
    /\ session \in [status : Statuses, journal : Journals, pos : Nat]
    /\ session.pos \in 0 .. Len(session.journal)
    /\ Below(Targets(session.journal), menu.next)
    /\ base \in Seq(Row)
    /\ gaps \subseteq Gaps
    /\ writes \in 0 .. MaxWrites /\ rollbacks \in 0 .. MaxRollbacks
    /\ partial \in BOOLEAN

\* A rollback of j from the menu m, if it comes to its end, leaves the first rows.
Undoable(j, m) == \A x \in Undone(j, m) : Like(base, x.rows, m.secrets)

Kept ==
    gaps = {} /\ session.status # "committed" /\ (partial => Repeatable)
    => Undoable(ToUndo, menu)

\* What a rollback has done so far does not matter to one that starts again.
Again ==
    session.status = "rolling" /\ Repeatable
    => Undone(session.journal, menu) \subseteq Undone(ToUndo, menu)

SafeInv == Typed /\ Kept /\ Again

\* The entries of a write to the menu n: none, or one for a row there may have been.
Journaled(entries, n) ==
    \/ entries = <<>>
    \/ \E e \in Entries : entries = <<e>> /\ e.target < n.next

LEMMA EntriesUndone ==
    ASSUME menu \in Menus, NEW n \in Menus, NEW j \in Journals, Below(Targets(j), menu.next),
           NEW entries, Journaled(entries, n), Undoes(n, entries, Targets(j)),
           n.secrets = menu.secrets, Undoable(j, menu)
    PROVE  Undoable(j \o entries, n)
<1> SUFFICES ASSUME NEW y \in Undone(j \o entries, n)
             PROVE  Like(base, y.rows, n.secrets)
  BY DEF Undoable
<1>1. \A t \in Targets(j) : t \in Nat /\ t < menu.next
  BY DEF Below
<1>2. SUFFICES \E x \in Undone(j, menu) : Like(x.rows, y.rows, menu.secrets)
  BY LikeLike DEF Undoable
<1>3. CASE entries = <<>>
  <2>1. PICK p : Matches(p, menu, n, Targets(j))
    BY <1>3 DEF Undoes
  <2>2. y \in Undone(j, n)
    BY <1>3, Grown
  <2> QED BY <1>1, <2>1, <2>2, MatchesUndone
<1>4. ASSUME NEW e \in Entries, entries = <<e>>
      PROVE  \E x \in Undone(j, menu) : Like(x.rows, y.rows, menu.secrets)
  <2>1. entries # <<>> /\ entries[1] = e
    BY <1>4
  <2>2. y \in Undone(Append(j, e), n)
    BY <1>4, Grown
  <2>3. Accepts(n, e.inverse) /\ y \in Undone(j, Run(n, e.inverse))
    BY <2>2, UndoneLast
  <2>4. PICK p : Matches(p, menu, Run(n, e.inverse), Targets(j))
    BY <2>1, <2>3 DEF Undoes
  <2>5. Run(n, e.inverse) \in Menus
    BY <2>3, RunSays DEF Entries
  <2> QED BY <1>1, <2>3, <2>4, <2>5, MatchesUndone
<1> QED BY <1>3, <1>4 DEF Journaled

LEMMA WriteTyped ==
    ASSUME Typed, NEW c \in Commands, Accepts(menu, c), NEW entries,
           Journaled(entries, Run(menu, c)), NEW gap \in SUBSET Gaps, Write(c, entries, gap)
    PROVE  Typed'
<1>1. PICK n \in Menus : n = Run(menu, c)
  BY RunSays DEF Typed
<1>2. n.secrets = menu.secrets /\ menu.next <= n.next /\ menu.next \in Nat /\ n.next \in Nat
  BY <1>1, RunSays DEF Menus, Typed
<1>3. menu' = n /\ gaps' = gaps \cup gap /\ writes' = writes + 1 /\ writes < MaxWrites
      /\ base' = base /\ rollbacks' = rollbacks /\ partial' = partial
  BY <1>1 DEF Write
<1>4. PICK j \in Journals : j = session.journal
  BY DEF Typed
<1>5. /\ session \in [status : Statuses, journal : Journals, pos : Nat]
      /\ session' = [session EXCEPT !.journal = j \o entries]
  BY <1>4 DEF Write, Typed
<1>6. /\ j \o entries \in Journals /\ Len(j) \in Nat /\ Len(j \o entries) \in Nat
      /\ Len(j) <= Len(j \o entries)
      /\ Below(Targets(j \o entries), n.next)
  <2>1. \A i \in Journals : Len(i) \in Nat
    BY LenProperties DEF Journals
  <2>2. Below(Targets(j), n.next)
    BY <1>2, <1>4 DEF Typed, Below
  <2>3. CASE entries = <<>>
    BY <2>1, <2>2, <2>3, Grown
  <2>4. ASSUME NEW e \in Entries, entries = <<e>>, e.target < n.next
        PROVE  /\ j \o entries \in Journals /\ Len(j) <= Len(j \o entries)
               /\ Below(Targets(j \o entries), n.next)
    <3>1. e.target \in Nat
      BY DEF Entries
    <3>2. /\ j \o entries \in Journals /\ Len(j \o entries) = Len(j) + 1
          /\ Targets(j \o entries) = Targets(j) \cup {e.target}
      BY <2>4, Grown
    <3> QED BY <2>1, <2>2, <2>4, <3>1, <3>2 DEF Below
  <2> QED BY <1>1, <2>1, <2>3, <2>4 DEF Journaled
<1>7. /\ session' \in [status : Statuses, journal : Journals, pos : Nat]
      /\ session'.journal = j \o entries /\ session'.pos = session.pos
  BY <1>5, <1>6
<1>8. session'.pos \in 0 .. Len(session'.journal)
  BY <1>4, <1>6, <1>7 DEF Typed
<1>9. writes' \in 0 .. MaxWrites
  BY <1>3, SafeAssumption DEF Typed, SafeAssumption
<1>10. gaps' \subseteq Gaps
  BY <1>3 DEF Typed
<1> QED BY <1>3, <1>6, <1>7, <1>8, <1>9, <1>10 DEF Typed

\* A write keeps the invariant, if its entries undo it or it is noted as a gap.
LEMMA WriteSafe ==
    ASSUME SafeInv, NEW c \in Commands, Accepts(menu, c), NEW entries,
           Journaled(entries, Run(menu, c)), NEW gap \in SUBSET Gaps, Write(c, entries, gap),
           gap = {} => Undoes(Run(menu, c), entries, Targets(session.journal))
    PROVE  SafeInv'
<1>1. Typed /\ Typed'
  BY WriteTyped DEF SafeInv
<1>2. PICK n \in Menus : n = Run(menu, c)
  BY <1>1, RunSays DEF Typed
<1>3. n.secrets = menu.secrets /\ menu' = n /\ gaps' = gaps \cup gap
      /\ base' = base /\ partial' = partial
  BY <1>1, <1>2, RunSays DEF Write, Typed
<1>4. PICK j \in Journals : j = session.journal
  BY <1>1 DEF Typed
<1>5. /\ session.status = "active" /\ session'.status = "active"
      /\ session'.journal = j \o entries
  BY <1>1, <1>4 DEF Write, Typed
<1>6. Again'
  BY <1>5 DEF Again
<1>7. ASSUME gaps' = {}, partial' => Repeatable' PROVE Undoable(ToUndo, menu)'
  <2>1. gaps = {} /\ gap = {}
    BY <1>3, <1>7
  <2>2. partial => Repeatable
    <3> SUFFICES ASSUME partial PROVE Repeatable
      OBVIOUS
    <3>1. \A k \in 1 .. Len(j \o entries) : (j \o entries)[k].inverse.verb \in Changing
      BY <1>3, <1>5, <1>7 DEF Repeatable, Changing
    <3>2. \A k \in 1 .. Len(j) : k \in 1 .. Len(j \o entries) /\ (j \o entries)[k] = j[k]
      <4>1. Len(j) \in Nat
        BY LenProperties DEF Journals
      <4> QED BY <4>1, Grown DEF Journaled
    <3> QED BY <1>4, <3>1, <3>2 DEF Repeatable, Changing
  <2>3. ToUndo = j /\ ToUndo' = j \o entries
    BY <1>4, <1>5 DEF ToUndo
  <2>4. Undoable(j, menu)
    BY <1>5, <2>1, <2>2, <2>3 DEF SafeInv, Kept
  <2>5. Below(Targets(j), menu.next) /\ menu \in Menus
    BY <1>1, <1>4 DEF Typed
  <2>6. Undoable(j \o entries, n)
    BY <1>2, <1>3, <1>4, <2>1, <2>4, <2>5, EntriesUndone
  <2> QED BY <1>3, <2>3, <2>6 DEF Undoable
<1> QED BY <1>1, <1>6, <1>7 DEF SafeInv, Kept

\* What the entries of a command say of the row it is about.
Told(c, entries) ==
    \/ entries = <<>> /\ c.verb = "set"
    \/ \E e \in Entries :
          /\ entries = <<e>>
          /\ \/ c.verb = "add" /\ e.inverse.verb = "remove" /\ e.target = menu.next
             \/ c.verb \in Changing /\ e.inverse.verb \in Changing /\ e.target \in Present
             \/ c.verb = "remove" /\ e.inverse.verb = "add" /\ e.target = c.id

-----------------------------------------------------------------------------
(* The operations.                                                          *)

\* A write that is journaled as it should be, or noted as a gap.
Faithful ==
    \E c \in Commands, entries \in Seq(Entries), gap \in SUBSET Gaps :
        /\ Accepts(menu, c) /\ Journaled(entries, Run(menu, c)) /\ Write(c, entries, gap)
        /\ gap = {} => Undoes(Run(menu, c), entries, Targets(session.journal))
        /\ gap \subseteq {"unset", "noop"} => Told(c, entries)

LEMMA NoOrOne ==
    /\ <<>> \in Seq(Entries)
    /\ \A e \in Entries : <<e>> \in Seq(Entries)
BY EmptySeq

\* A write of a row there is, with no entry and a gap.
LEMMA GapFaithful ==
    ASSUME NEW c \in Commands, Accepts(menu, c), Unjournaled(c) \/ AmbiguousWrite(c)
    PROVE  Faithful
<1>1. PICK gap \in {{"unjournaled"}, {"lost"}} : Write(c, <<>>, gap)
  BY DEF Unjournaled, AmbiguousWrite
<1>2. gap \in SUBSET Gaps /\ gap # {} /\ ~(gap \subseteq {"unset", "noop"})
  BY DEF Gaps
<1>3. Journaled(<<>>, Run(menu, c)) /\ <<>> \in Seq(Entries)
  BY NoOrOne DEF Journaled
<1> QED BY <1>1, <1>2, <1>3 DEF Faithful

LEMMA AddFaithful ==
    ASSUME Typed, NEW w \in WordSets, IsWords(w), "name" \in DOMAIN w,
           Create(w) \/ ExecAdd(w) \/ AmbiguousWrite(Command("add", None, w))
    PROVE  Faithful
<1>1. PICK c : c = Command("add", None, w)
  OBVIOUS
<1>2. c \in Commands /\ c.verb = "add"
  <2>1. "add" \in Verbs /\ None \in Nat \cup {None}
    BY DEF Verbs
  <2>2. /\ c = [verb |-> "add", id |-> None, words |-> w]
        /\ c \in [verb : Verbs, id : Nat \cup {None}, words : WordSets]
    BY <1>1, <2>1 DEF Command
  <2>3. c.verb = "add" /\ c.words = w
    BY <2>2
  <2> QED BY <2>2, <2>3 DEF Commands
<1>3. menu \in Menus /\ Below(Targets(session.journal), menu.next) /\ menu.next \in Nat
  BY DEF Typed, Menus
<1>4. PICK b : b = PlainInverse("add", menu.next)
  OBVIOUS
<1>5. PICK e : e = Entry(menu.next, b)
  OBVIOUS
<1>6. Write(c, <<e>>, {}) \/ AmbiguousWrite(c)
  BY <1>1, <1>4, <1>5 DEF Create, ExecAdd
<1>7. menu.next <= MaxId
  BY <1>2, <1>6 DEF Write, AmbiguousWrite
<1>8. Accepts(menu, c)
  BY <1>2, <1>3, <1>7, SafeAssumption DEF Accepts, SafeAssumption
<1>9. /\ e \in Entries /\ e.target = menu.next
      /\ Undoes(Run(menu, c), <<e>>, Targets(session.journal))
  BY <1>2, <1>3, <1>4, <1>5, <1>8, AddUndone
<1>10. e.inverse.verb = "remove"
  <2>1. b \in Commands /\ b.verb = "remove" /\ b.id = menu.next
    BY <1>3, <1>4, NoWordsAreWords, CommandTyped DEF PlainInverse, Opposite, Verbs
  <2> QED BY <1>3, <1>5, <2>1, EntryTyped, SanitizedTyped
<1>11. Run(menu, c).next = menu.next + 1
  BY <1>2, <1>3, <1>8, RunSays
<1>12. Journaled(<<e>>, Run(menu, c)) /\ <<e>> \in Seq(Entries)
  BY <1>3, <1>9, <1>11, NoOrOne DEF Journaled
<1>13. Told(c, <<e>>) /\ {} \in SUBSET Gaps
  BY <1>2, <1>9, <1>10 DEF Told
<1>14. CASE Write(c, <<e>>, {})
  BY <1>2, <1>8, <1>9, <1>12, <1>13, <1>14 DEF Faithful
<1> QED BY <1>2, <1>6, <1>8, <1>14, GapFaithful

LEMMA SetFaithful ==
    ASSUME Typed, NEW id \in Present, NEW w \in WordSets, IsWords(w),
           \/ Set(id, w)
           \/ Unjournaled(Command("set", id, w))
           \/ AmbiguousWrite(Command("set", id, w))
    PROVE  Faithful
<1>1. menu \in Menus /\ Below(Targets(session.journal), menu.next) /\ id \in DOMAIN menu.rows
  BY DEF Typed, Present
<1>2. id \in Nat /\ menu.next \in Nat /\ id < menu.next
  BY <1>1, MenuRows
<1>3. PICK c : c = Command("set", id, w)
  OBVIOUS
<1>4. c \in Commands /\ c.verb = "set" /\ c.id = id /\ Accepts(menu, c)
  BY <1>1, <1>2, <1>3, CommandTyped DEF Verbs, Accepts
<1>5. CASE Unjournaled(c) \/ AmbiguousWrite(c)
  BY <1>4, <1>5, GapFaithful
<1>6. CASE Set(id, w)
  <2>1. PICK b : b = SetInverse(id, menu.rows[id], w)
    OBVIOUS
  <2>2. PICK e : e = Entry(id, b)
    OBVIOUS
  <2>3. PICK entries : entries = IF b.words = NoWords THEN <<>> ELSE <<e>>
    OBVIOUS
  <2>4. PICK gap : gap = IF \E f \in DOMAIN w \ menu.secrets :
                               menu.rows[id][f] = Unset /\ w[f] # Unset
                         THEN {"unset"} ELSE {}
    OBVIOUS
  <2>5. Write(c, entries, gap)
    BY <1>3, <1>6, <2>1, <2>2, <2>3, <2>4 DEF Set
  <2>6. e \in Entries /\ e.target = id
    BY <1>1, <2>1, <2>2, SetEntry
  <2>7. e.inverse.verb = "set"
    <3>1. b.verb = "set" /\ b = [verb |-> b.verb, id |-> b.id, words |-> b.words]
      BY <2>1 DEF SetInverse, Command
    <3>2. e.inverse = [b EXCEPT !.words = [f \in DOMAIN b.words \ menu.secrets |-> b.words[f]]]
      BY <2>2 DEF Entry, Sanitized
    <3> QED BY <3>1, <3>2
  <2>8. gap = {} => Undoes(Run(menu, c), entries, Targets(session.journal))
    <3> SUFFICES ASSUME gap = {} PROVE Undoes(Run(menu, c), entries, Targets(session.journal))
      OBVIOUS
    <3>1. \A f \in DOMAIN w \ menu.secrets : menu.rows[id][f] = Unset => w[f] = Unset
      BY <2>4
    <3>2. /\ b.words # NoWords => Undoes(Run(menu, c), <<e>>, Targets(session.journal))
          /\ b.words = NoWords => Undoes(Run(menu, c), <<>>, Targets(session.journal))
      BY <1>1, <1>3, <2>1, <2>2, <3>1, SetUndone
    <3> QED BY <2>3, <3>2
  <2>9. menu.next <= Run(menu, c).next /\ Run(menu, c).next \in Nat
    BY <1>1, <1>4, RunSays DEF Menus
  <2>10. Journaled(entries, Run(menu, c)) /\ entries \in Seq(Entries)
    BY <1>2, <2>3, <2>6, <2>9, NoOrOne DEF Journaled
  <2>11. Told(c, entries)
    BY <1>1, <1>4, <2>3, <2>6, <2>7 DEF Told, Changing, Present
  <2>12. gap \in SUBSET Gaps
    BY <2>4 DEF Gaps
  <2> QED BY <1>4, <2>5, <2>8, <2>10, <2>11, <2>12 DEF Faithful
<1> QED BY <1>3, <1>5, <1>6

LEMMA DeleteFaithful ==
    ASSUME Typed, NEW id \in Present,
           \/ Delete(id)
           \/ Unjournaled(Command("remove", id, NoWords))
           \/ AmbiguousWrite(Command("remove", id, NoWords))
    PROVE  Faithful
<1>1. menu \in Menus /\ Below(Targets(session.journal), menu.next) /\ id \in DOMAIN menu.rows
  BY DEF Typed, Present
<1>2. id \in Nat /\ menu.next \in Nat /\ id < menu.next
  BY <1>1, MenuRows
<1>3. PICK c : c = Command("remove", id, NoWords)
  OBVIOUS
<1>4. PICK b : b = RemoveInverse(menu.rows[id])
  OBVIOUS
<1>5. PICK e : e = Entry(id, b)
  OBVIOUS
<1>6. c.verb = "remove" /\ c.id = id
  BY <1>3 DEF Command
<1>7. /\ c \in Commands /\ Accepts(menu, c) /\ e \in Entries /\ e.target = id
      /\ Undoes(Run(menu, c), <<e>>, Targets(session.journal))
  BY <1>1, <1>3, <1>4, <1>5, RemoveUndone
<1>8. e.inverse.verb = "add"
  <2>1. b.verb = "add" /\ b = [verb |-> b.verb, id |-> b.id, words |-> b.words]
    BY <1>4 DEF RemoveInverse, Command
  <2>2. e.inverse = [b EXCEPT !.words = [f \in DOMAIN b.words \ menu.secrets |-> b.words[f]]]
    BY <1>5 DEF Entry, Sanitized
  <2> QED BY <2>1, <2>2
<1>9. menu.next <= Run(menu, c).next /\ Run(menu, c).next \in Nat
  BY <1>1, <1>7, RunSays DEF Menus
<1>10. Journaled(<<e>>, Run(menu, c)) /\ <<e>> \in Seq(Entries)
  BY <1>2, <1>7, <1>9, NoOrOne DEF Journaled
<1>11. Told(c, <<e>>) /\ {} \in SUBSET Gaps
  BY <1>6, <1>7, <1>8 DEF Told
<1>12. CASE Delete(id)
  <2>1. Write(c, <<e>>, {})
    BY <1>3, <1>4, <1>5, <1>12 DEF Delete
  <2> QED BY <1>7, <1>10, <1>11, <2>1 DEF Faithful
<1> QED BY <1>3, <1>7, <1>12, GapFaithful

LEMMA ToggleFaithful ==
    ASSUME Typed, NEW id \in Present, NEW verb \in {"enable", "disable"},
           \/ Toggle(id, verb) \/ ToggleUnseen(id, verb)
           \/ AmbiguousWrite(Command(verb, id, NoWords))
    PROVE  Faithful
<1>1. menu \in Menus /\ Below(Targets(session.journal), menu.next) /\ id \in DOMAIN menu.rows
  BY DEF Typed, Present
<1>2. id \in Nat /\ menu.next \in Nat /\ id < menu.next
  BY <1>1, MenuRows
<1>3. PICK c : c = Command(verb, id, NoWords)
  OBVIOUS
<1>4. PICK b : b = PlainInverse(verb, id)
  OBVIOUS
<1>5. PICK e : e = Entry(id, b)
  OBVIOUS
<1>6. c.verb = verb /\ c.id = id
  BY <1>3 DEF Command
<1>7. /\ c \in Commands /\ Accepts(menu, c) /\ e \in Entries /\ e.target = id
      /\ ~IsSo(id, verb) => Undoes(Run(menu, c), <<e>>, Targets(session.journal))
  BY <1>1, <1>3, <1>4, <1>5, ToggleUndone
<1>8. e.inverse.verb \in {"enable", "disable"}
  <2>1. b.verb \in {"enable", "disable"} /\ b = [verb |-> b.verb, id |-> b.id, words |-> b.words]
    BY <1>4 DEF PlainInverse, Opposite, Command
  <2>2. e.inverse = [b EXCEPT !.words = [f \in DOMAIN b.words \ menu.secrets |-> b.words[f]]]
    BY <1>5 DEF Entry, Sanitized
  <2> QED BY <2>1, <2>2
<1>9. menu.next <= Run(menu, c).next /\ Run(menu, c).next \in Nat
  BY <1>1, <1>7, RunSays DEF Menus
<1>10. Journaled(<<e>>, Run(menu, c)) /\ <<e>> \in Seq(Entries)
  BY <1>2, <1>7, <1>9, NoOrOne DEF Journaled
<1>11. Told(c, <<e>>)
  BY <1>1, <1>6, <1>7, <1>8 DEF Told, Changing, Present
<1>12. CASE Toggle(id, verb) \/ ToggleUnseen(id, verb)
  <2>1. PICK gap \in {{}, {"noop"}} :
            Write(c, <<e>>, gap) /\ (gap = {} => ~IsSo(id, verb))
    BY <1>3, <1>4, <1>5, <1>12 DEF Toggle, ToggleUnseen, ToggleEntry
  <2>2. gap \in SUBSET Gaps
    BY DEF Gaps
  <2> QED BY <1>7, <1>10, <1>11, <2>1, <2>2 DEF Faithful
<1> QED BY <1>3, <1>7, <1>12, GapFaithful

Ending == StartRollback \/ Undo \/ UndoRefused \/ Interrupted \/ MarkRolledBack \/ Commit

LEMMA NextIs == Typed /\ Next => Faithful \/ Ending
<1> SUFFICES ASSUME Typed, Next PROVE Faithful \/ Ending
  OBVIOUS
<1>1. ASSUME NEW w \in NewWords,
             Create(w) \/ ExecAdd(w) \/ AmbiguousWrite(Command("add", None, w))
      PROVE  Faithful
  <2>1. w \in SetWords
    BY DEF SetWords
  <2> QED BY <1>1, <2>1, SetWordsAreWords, AddFaithful
<1>2. ASSUME NEW id \in Present, NEW w \in SetWords,
             \/ Set(id, w) \/ Unjournaled(Command("set", id, w))
             \/ AmbiguousWrite(Command("set", id, w))
      PROVE  Faithful
  BY <1>2, SetWordsAreWords, SetFaithful
<1>3. ASSUME NEW id \in Present,
             \/ Delete(id) \/ Unjournaled(Command("remove", id, NoWords))
             \/ AmbiguousWrite(Command("remove", id, NoWords))
      PROVE  Faithful
  BY <1>3, DeleteFaithful
<1>4. ASSUME NEW id \in Present, NEW verb \in {"enable", "disable"},
             \/ Toggle(id, verb) \/ ToggleUnseen(id, verb)
             \/ AmbiguousWrite(Command(verb, id, NoWords))
      PROVE  Faithful
  BY <1>4, ToggleFaithful
<1> QED BY <1>1, <1>2, <1>3, <1>4 DEF Next, Ending

LEMMA RunTyped ==
    ASSUME Typed, NEW c \in Commands, Accepts(menu, c), menu' = Run(menu, c)
    PROVE  menu' \in Menus /\ Below(Targets(session.journal), menu'.next)
<1>1. /\ menu' \in Menus /\ menu.next <= menu'.next
  BY RunSays DEF Typed
<1> QED BY <1>1 DEF Typed, Menus, Below

LEMMA CommitSafe ==
    ASSUME SafeInv, Commit
    PROVE  SafeInv'
<1>1. Typed'
  BY DEF SafeInv, Typed, Commit, Statuses
<1>2. session'.status = "committed"
  BY DEF SafeInv, Typed, Commit
<1> QED BY <1>1, <1>2 DEF SafeInv, Kept, Again

LEMMA StartRollbackSafe ==
    ASSUME SafeInv, StartRollback
    PROVE  SafeInv'
<1>1. PICK j \in Journals : j = session.journal
  BY DEF SafeInv, Typed
<1>2. Len(j) \in Nat
  BY LenProperties DEF Journals
<1>3. /\ session' = [status |-> "rolling", journal |-> j, pos |-> Len(j)]
      /\ session.status = "active" /\ rollbacks < MaxRollbacks /\ rollbacks' = rollbacks + 1
      /\ UNCHANGED <<menu, base, gaps, writes, partial>>
  BY <1>1 DEF SafeInv, Typed, StartRollback
<1>4. Typed'
  BY <1>1, <1>2, <1>3, SafeAssumption DEF SafeInv, Typed, Statuses, SafeAssumption
<1>5. ToUndo = j /\ ToUndo' = j
  BY <1>1, <1>3, Left DEF ToUndo
<1>6. Repeatable' <=> Repeatable
  BY <1>1, <1>3 DEF Repeatable
<1>7. Kept'
  BY <1>3, <1>5, <1>6 DEF SafeInv, Kept, Undoable
<1>8. Again'
  BY <1>3, <1>5 DEF Again
<1> QED BY <1>4, <1>7, <1>8 DEF SafeInv

\* One inverse of a rollback, of the entry k: what is left of the rollback makes the
\* same of the menu, and so does a rollback that starts again, if it did before.
LEMMA UndoStep ==
    ASSUME menu \in Menus, NEW j \in Journals, NEW k \in 1 .. Len(j),
           Accepts(menu, j[k].inverse), NEW n, n = Run(menu, j[k].inverse)
    PROVE  /\ n \in Menus /\ n.secrets = menu.secrets /\ menu.next <= n.next
           /\ Undone(SubSeq(j, 1, k), menu) = Undone(SubSeq(j, 1, k - 1), n)
           /\ AllChange(j) /\ Undone(j, menu) \subseteq Undone(SubSeq(j, 1, k), menu)
                 => Undone(j, n) \subseteq Undone(SubSeq(j, 1, k - 1), n)
<1>1. j[k] \in Entries /\ j[k].inverse \in Commands
  BY ElementOfSeq DEF Journals, Entries
<1>2. n \in Menus /\ n.secrets = menu.secrets /\ menu.next <= n.next
  BY <1>1, RunSays
<1>3. PICK i \in Journals : i = SubSeq(j, 1, k - 1)
  <2>1. k - 1 \in 0 .. Len(j)
    BY LenProperties DEF Journals
  <2> QED BY <2>1, Left
<1>4. SubSeq(j, 1, k) = Append(i, j[k])
  BY <1>3, Left
<1>5. Undone(SubSeq(j, 1, k), menu) = Undone(i, n)
  BY <1>1, <1>4, UndoneLast
<1>6. AllChange(j) => Undone(j, n) \subseteq Undone(j, menu)
  BY Absorbed
<1> QED BY <1>2, <1>3, <1>5, <1>6

LEMMA UndoSafe ==
    ASSUME SafeInv, Undo
    PROVE  SafeInv'
<1>1. PICK j \in Journals : j = session.journal
  BY DEF SafeInv, Typed
<1>2. PICK k \in 1 .. Len(j) : k = session.pos
  BY <1>1 DEF SafeInv, Typed, Undo
<1>3. PICK c : c = j[k].inverse
  OBVIOUS
<1>4. j[k] \in Entries /\ c \in Commands
  BY <1>3, ElementOfSeq DEF Journals, Entries
<1>5. /\ session.status = "rolling" /\ Accepts(menu, c) /\ menu' = Run(menu, c)
      /\ session' = [status |-> "rolling", journal |-> j, pos |-> k - 1]
      /\ UNCHANGED <<base, gaps, writes, rollbacks, partial>>
  BY <1>1, <1>2, <1>3 DEF SafeInv, Typed, Undo
<1>6. Typed'
  <2>1. menu' \in Menus /\ Below(Targets(j), menu'.next)
    BY <1>1, <1>4, <1>5, RunTyped DEF SafeInv
  <2>2. k - 1 \in 0 .. Len(j) /\ k - 1 \in Nat
    OBVIOUS
  <2> QED BY <1>1, <1>5, <2>1, <2>2 DEF SafeInv, Typed
<1>7. ToUndo = SubSeq(j, 1, k) /\ ToUndo' = SubSeq(j, 1, k - 1)
  BY <1>1, <1>2, <1>5 DEF ToUndo
<1>8. Undone(ToUndo, menu) = Undone(ToUndo', menu') /\ menu'.secrets = menu.secrets
  BY <1>3, <1>5, <1>7, UndoStep DEF SafeInv, Typed
<1>9. Repeatable' <=> Repeatable
  BY <1>1, <1>5 DEF Repeatable
<1>10. Kept'
  BY <1>5, <1>8, <1>9 DEF SafeInv, Kept, Undoable
<1>11. ASSUME Repeatable PROVE Undone(j, menu') \subseteq Undone(ToUndo', menu')
  <2>1. AllChange(j)
    BY <1>1, <1>11 DEF AllChange, Repeatable, Changing
  <2>2. Undone(j, menu) \subseteq Undone(ToUndo, menu)
    BY <1>1, <1>5, <1>11 DEF SafeInv, Again
  <2> QED BY <1>3, <1>5, <1>7, <2>1, <2>2, UndoStep DEF SafeInv, Typed
<1>12. Again'
  BY <1>5, <1>9, <1>11 DEF Again
<1> QED BY <1>6, <1>10, <1>12 DEF SafeInv

LEMMA GiveUpSafe ==
    ASSUME SafeInv, session.status = "rolling", GiveUp
    PROVE  SafeInv'
<1>1. PICK j \in Journals : j = session.journal
  BY DEF SafeInv, Typed
<1>2. PICK k \in 0 .. Len(j) : k = session.pos
  BY <1>1 DEF SafeInv, Typed
<1>3. Len(j) \in Nat
  BY LenProperties DEF Journals
<1>4. /\ session' = [status |-> "active", journal |-> j, pos |-> 0]
      /\ partial' = (partial \/ k < Len(j))
      /\ UNCHANGED <<menu, base, gaps, writes, rollbacks>>
  BY <1>1, <1>2 DEF SafeInv, Typed, GiveUp
<1>5. partial' \in BOOLEAN
  BY <1>4 DEF SafeInv, Typed
<1>6. Typed'
  BY <1>1, <1>3, <1>4, <1>5 DEF SafeInv, Typed, Statuses
<1>7. ToUndo = SubSeq(j, 1, k) /\ ToUndo' = j
  BY <1>1, <1>2, <1>4 DEF ToUndo
<1>8. Repeatable' <=> Repeatable
  BY <1>1, <1>4 DEF Repeatable
<1>9. ASSUME gaps' = {}, partial' => Repeatable' PROVE Undoable(j, menu)
  <2>1. Undoable(ToUndo, menu)
    BY <1>4, <1>8, <1>9 DEF SafeInv, Kept
  <2>2. CASE Repeatable
    <3>1. Undone(j, menu) \subseteq Undone(ToUndo, menu)
      BY <1>1, <2>2 DEF SafeInv, Again
    <3> QED BY <2>1, <3>1 DEF Undoable
  <2>3. CASE ~Repeatable
    <3>1. ~(k < Len(j))
      BY <1>4, <1>8, <1>9, <2>3
    <3>2. k = Len(j)
      BY <1>3, <3>1
    <3>3. ToUndo = j
      BY <1>7, <3>2, Left
    <3> QED BY <2>1, <3>3
  <2> QED BY <2>2, <2>3
<1>10. Kept'
  BY <1>4, <1>7, <1>9 DEF Kept, Undoable
<1>11. Again'
  BY <1>4 DEF Again
<1> QED BY <1>6, <1>10, <1>11 DEF SafeInv

LEMMA MarkRolledBackSafe ==
    ASSUME SafeInv, MarkRolledBack
    PROVE  SafeInv'
<1>1. PICK j \in Journals : j = session.journal
  BY DEF SafeInv, Typed
<1>2. /\ session' = [status |-> "rolled_back", journal |-> j, pos |-> 0]
      /\ session.status = "rolling" /\ session.pos = 0
      /\ UNCHANGED <<menu, base, gaps, writes, rollbacks, partial>>
  BY <1>1 DEF SafeInv, Typed, MarkRolledBack
<1>3. Typed'
  BY <1>1, <1>2 DEF SafeInv, Typed, Statuses
<1>4. Len(ToUndo) = 0 /\ Len(ToUndo') = 0
  BY <1>1, <1>2, Left DEF ToUndo
<1>5. Undone(ToUndo, menu) = {menu} /\ Undone(ToUndo', menu') = {menu'}
  BY <1>4, UndoneNothing
<1>6. Repeatable' <=> Repeatable
  BY <1>1, <1>2 DEF Repeatable
<1>7. Kept'
  BY <1>2, <1>5, <1>6 DEF SafeInv, Kept, Undoable
<1>8. Again'
  BY <1>2 DEF Again
<1> QED BY <1>3, <1>7, <1>8 DEF SafeInv

LEMMA InitSafe == Init => SafeInv
<1> SUFFICES ASSUME Init PROVE SafeInv
  OBVIOUS
<1>1. PICK n \in Nat : base \in [1 .. n -> Row]
  BY SafeAssumption DEF Init, SafeAssumption
<1>2. DOMAIN base = 1 .. n /\ Cardinality(1 .. n) = n
  <2>1. Cardinality(1 .. n) = n
    <3>1. 1 \in Int /\ n \in Int /\ n - 1 + 1 = n
      OBVIOUS
    <3>2. Cardinality(1 .. n) = IF 1 > n THEN 0 ELSE n - 1 + 1
      BY <3>1, FS_Interval
    <3> QED BY <3>1, <3>2
  <2> QED BY <1>1, <2>1
<1>3. base \in Seq(Row)
  BY SafeAssumption DEF Init, SafeAssumption
<1>4. PICK secrets \in Secrecy : menu = [rows |-> base, next |-> n + 1, secrets |-> secrets]
  BY <1>2 DEF Init
<1>5. menu \in Menus
  <2>1. 1 .. n \in SUBSET Nat /\ \A i \in 1 .. n : i < n + 1
    OBVIOUS
  <2>2. menu \in [rows : UNION {[D -> Row] : D \in SUBSET Nat}, next : Nat, secrets : Secrecy]
    BY <1>1, <1>4, <2>1
  <2>3. menu.next = n + 1 /\ DOMAIN menu.rows = 1 .. n
    BY <1>2, <1>4
  <2> QED BY <2>1, <2>2, <2>3 DEF Menus
<1>6. PICK j \in Journals : j = <<>>
  BY EmptySeq DEF Journals
<1>7. /\ session = [status |-> "active", journal |-> j, pos |-> 0]
      /\ gaps = {} /\ writes = 0 /\ rollbacks = 0 /\ partial = FALSE
  BY <1>6 DEF Init
<1>8. Len(j) = 0 /\ Targets(j) = {}
  BY <1>6 DEF Targets
<1>9. Typed
  <2>1. session \in [status : Statuses, journal : Journals, pos : Nat]
    BY <1>7 DEF Statuses
  <2>2. session.pos \in 0 .. Len(session.journal) /\ Below(Targets(session.journal), menu.next)
    BY <1>7, <1>8 DEF Below
  <2>3. writes \in 0 .. MaxWrites /\ rollbacks \in 0 .. MaxRollbacks
    BY <1>7, SafeAssumption DEF SafeAssumption
  <2> QED BY <1>3, <1>5, <1>7, <2>1, <2>2, <2>3 DEF Typed
<1>10. ToUndo = j
  BY <1>7 DEF ToUndo
<1>11. Undone(j, menu) = {menu}
  BY <1>8, UndoneNothing
<1>12. Like(base, menu.rows, menu.secrets)
  BY <1>4, LikeItself
<1>13. Kept
  BY <1>10, <1>11, <1>12 DEF Kept, Undoable
<1>14. Again
  BY <1>7 DEF Again
<1> QED BY <1>9, <1>13, <1>14 DEF SafeInv

LEMMA FaithfulSafe == SafeInv /\ Faithful => SafeInv'
BY WriteSafe DEF Faithful

LEMMA NextSafe == SafeInv /\ [Next]_vars => SafeInv'
<1> SUFFICES ASSUME SafeInv, [Next]_vars PROVE SafeInv'
  OBVIOUS
<1>1. CASE Faithful
  BY <1>1, FaithfulSafe
<1>2. CASE Ending
  BY <1>2, CommitSafe, StartRollbackSafe, UndoSafe, GiveUpSafe, MarkRolledBackSafe
     DEF Ending, UndoRefused, Interrupted
<1>3. CASE UNCHANGED vars
  <2>1. /\ menu' = menu /\ session' = session /\ base' = base /\ gaps' = gaps
        /\ writes' = writes /\ rollbacks' = rollbacks /\ partial' = partial
    BY <1>3 DEF vars
  <2>2. Typed'
    BY <2>1 DEF SafeInv, Typed
  <2>3. ToUndo' = ToUndo /\ (Repeatable' <=> Repeatable)
    BY <2>1 DEF ToUndo, Repeatable
  <2> QED BY <2>1, <2>2, <2>3 DEF SafeInv, Kept, Again, Undoable
<1> QED BY <1>1, <1>2, <1>3, NextIs DEF SafeInv

-----------------------------------------------------------------------------
(* The theorems.                                                            *)

LEMMA TypedIsTypeOK == Typed => TypeOK
<1> SUFFICES ASSUME Typed PROVE TypeOK
  OBVIOUS
<1>1. menu.rows \in [Present -> Row] /\ menu.secrets \in Secrecy
      /\ \A i \in Present : i < menu.next
  BY DEF Typed, Menus, Present
<1> QED BY <1>1 DEF Typed, TypeOK, Statuses, Gaps

LEMMA UndoneTyped ==
    \A j \in Journals : \A m \in Menus : Undone(j, m) \subseteq Menus
<1> DEFINE S == {d \in Nat : \A j \in Journals : Len(j) = d =>
                    \A m \in Menus : Undone(j, m) \subseteq Menus}
<1>1. 0 \in S
  BY UndoneNothing
<1>2. ASSUME NEW d \in Nat, d \in S PROVE d + 1 \in S
  <2> SUFFICES ASSUME NEW j \in Journals, Len(j) = d + 1, NEW m \in Menus
               PROVE  Undone(j, m) \subseteq Menus
    OBVIOUS
  <2>1. j # <<>>
    <3>1. Len(j) # 0
      OBVIOUS
    <3> QED BY <3>1, EmptySeq
  <2>2. PICK i \in Journals, e \in Entries : j = Append(i, e)
    BY <2>1, SequenceEmptyOrAppend DEF Journals
  <2>3. Len(i) = d
    <3>1. Len(j) = Len(i) + 1 /\ Len(i) \in Nat
      BY <2>2, AppendProperties, LenProperties DEF Journals
    <3> QED BY <3>1
  <2>4. CASE Accepts(m, e.inverse)
    <3>1. Run(m, e.inverse) \in Menus
      BY <2>4, RunSays DEF Entries
    <3>2. Undone(i, Run(m, e.inverse)) \subseteq Menus
      BY <1>2, <2>3, <3>1
    <3> QED BY <2>2, <2>4, <3>2, UndoneLast
  <2>5. CASE ~Accepts(m, e.inverse)
    BY <2>2, <2>5, UndoneLast
  <2> QED BY <2>4, <2>5
<1> HIDE DEF S
<1>3. \A d \in Nat : d \in S
  BY <1>1, <1>2, AllNaturals
<1>4. \A j \in Journals : Len(j) \in Nat
  BY LenProperties DEF Journals
<1> QED BY <1>3, <1>4 DEF S

\* What pairs off with the first rows is the first rows, each as often.
LEMMA UndoableRestores ==
    ASSUME Typed, NEW j \in Journals, Undoable(j, menu), NEW m \in Undone(j, menu)
    PROVE  SameRows(m.rows, base)
<1>1. m \in Menus /\ \A k \in DOMAIN m.rows : m.rows[k] \in Row
  BY UndoneTyped, MenuRows DEF Typed
<1>2. Like(base, m.rows, menu.secrets)
  BY DEF Undoable
<1>3. \A i \in DOMAIN base : base[i] \in Row
  BY ElementOfSeq, LenProperties DEF Typed
<1>4. IsFiniteSet(DOMAIN base)
  <2>1. PICK n \in Nat : DOMAIN base = 1 .. n
    BY LenProperties DEF Typed
  <2>2. 1 \in Int /\ n \in Int
    OBVIOUS
  <2> QED BY <2>1, <2>2, FS_Interval
<1> QED BY <1>1, <1>2, <1>3, <1>4, LikeSame

LEMMA SafeInvRestores == SafeInv => RollbackRestores
<1> SUFFICES ASSUME SafeInv, session.status # "committed", gaps = {},
                    partial => Repeatable, NEW m \in Restored
             PROVE  SameRows(m.rows, base)
  BY DEF RollbackRestores
<1>1. Undoable(ToUndo, menu)
  BY DEF SafeInv, Kept
<1>2. ToUndo \in Journals
  <2>1. session.journal \in Journals /\ session.pos \in 0 .. Len(session.journal)
    BY DEF SafeInv, Typed
  <2>2. <<>> \in Journals
    BY EmptySeq DEF Journals
  <2> QED BY <2>1, <2>2, Left DEF ToUndo
<1> QED BY <1>1, <1>2, UndoableRestores DEF SafeInv, Restored

\* The invariant of SafeSession: what a rollback that comes to its end would leave
\* pairs off with the rows the session found, and starting it again changes nothing
\* of that if its inverses may run twice.
THEOREM SafeInvariant == Spec => []SafeInv
BY InitSafe, NextSafe, PTL DEF Spec

\* Type correctness of a safe session: the router's rows, the journal and the
\* position of the rollback in it.
THEOREM SafeTypeCorrect == Spec => []TypeOK
<1>1. SafeInv => TypeOK
  BY TypedIsTypeOK DEF SafeInv
<1> QED BY <1>1, SafeInvariant, PTL

\* A rollback that comes to its end leaves the rows the session found, whatever the
\* operator wrote, as long as each write is journaled and inverses that have run
\* before may run twice (cmd/session.go, applySessionRollback).
THEOREM RollbacksRestore == Spec => []RollbackRestores
BY SafeInvariant, SafeInvRestores, PTL

-----------------------------------------------------------------------------
(* When a rollback is refused half-way.                                     *)

\* The row of the entry n is deleted at n or later.
Gone(j, n) == \E k \in n .. Len(j) : j[k].inverse.verb = "add" /\ j[k].target = j[n].target

\* Of the entries of one row, its creation is the first and its deletion the last.
Ordered(j) ==
    \A n, k \in 1 .. Len(j) :
        n < k /\ j[n].target = j[k].target
        => j[n].inverse.verb # "add" /\ j[k].inverse.verb # "remove"

\* The rows of the first p entries are in m, but for those that are deleted.
Fits(j, p, m) == \A n \in 1 .. p : j[n].target \in DOMAIN m.rows <=> ~Gone(j, n)

Blocked(j, p) ==
    \E n \in 1 .. p, m \in 1 .. Len(j) :
        n < m /\ j[m].inverse.verb = "add" /\ j[n].target = j[m].target

LEMMA BlockedLast ==
    ASSUME NEW j \in Journals, Ordered(j), NEW d \in Nat, d + 1 <= Len(j)
    PROVE  /\ j[d + 1].inverse.verb = "add" => (Blocked(j, d + 1) <=> Blocked(j, d))
           /\ j[d + 1].inverse.verb # "add" =>
                 (Blocked(j, d + 1) <=> Blocked(j, d) \/ Gone(j, d + 1))
<1>1. PICK L \in Nat : L = Len(j)
  BY LenProperties DEF Journals
<1>2. d + 1 \in 1 .. L /\ \A n : n \in 1 .. d + 1 <=> n \in 1 .. d \/ n = d + 1
  BY <1>1
<1>3. Blocked(j, d + 1) <=>
         \/ Blocked(j, d)
         \/ \E m \in 1 .. L : /\ d + 1 < m /\ j[m].inverse.verb = "add"
                              /\ j[d + 1].target = j[m].target
  BY <1>1, <1>2 DEF Blocked
<1>4. ASSUME j[d + 1].inverse.verb = "add", NEW m \in 1 .. L, d + 1 < m,
             j[d + 1].target = j[m].target
      PROVE  FALSE
  BY <1>1, <1>2, <1>4 DEF Ordered
<1>5. ASSUME j[d + 1].inverse.verb # "add"
      PROVE  Gone(j, d + 1) <=>
                \E m \in 1 .. L : /\ d + 1 < m /\ j[m].inverse.verb = "add"
                                  /\ j[d + 1].target = j[m].target
  <2>1. \A m : m \in d + 1 .. L <=> m = d + 1 \/ (m \in 1 .. L /\ d + 1 < m)
    BY <1>2
  <2> QED BY <1>1, <1>5, <2>1 DEF Gone
<1> QED BY <1>3, <1>4, <1>5

\* Exactly the rows that are deleted after a change of them stand in the way.
LEMMA BlockedUndone ==
    \A j \in Journals : \A p \in 0 .. Len(j) : \A m \in Menus :
        /\ Ordered(j) /\ Fits(j, p, m) /\ Below(Targets(j), m.next)
        /\ m.next + p <= FullAt + 1
        => (Undone(SubSeq(j, 1, p), m) = {} <=> Blocked(j, p))
<1> SUFFICES ASSUME NEW j \in Journals, Ordered(j)
             PROVE  \A p \in 0 .. Len(j) : \A m \in Menus :
                       /\ Fits(j, p, m) /\ Below(Targets(j), m.next)
                       /\ m.next + p <= FullAt + 1
                       => (Undone(SubSeq(j, 1, p), m) = {} <=> Blocked(j, p))
  OBVIOUS
<1>1. PICK L \in Nat : L = Len(j)
  BY LenProperties DEF Journals
<1> DEFINE Holds(p) == \A m \in Menus :
               /\ Fits(j, p, m) /\ Below(Targets(j), m.next)
               /\ m.next + p <= FullAt + 1
               => (Undone(SubSeq(j, 1, p), m) = {} <=> Blocked(j, p))
           S == {p \in Nat : p <= L => Holds(p)}
<1>2. 0 \in S
  <2>1. \A m : Undone(SubSeq(j, 1, 0), m) = {m}
    BY Left, UndoneNothing
  <2>2. ~Blocked(j, 0)
    BY DEF Blocked
  <2> QED BY <2>1, <2>2
<1>3. ASSUME NEW d \in Nat, d \in S PROVE d + 1 \in S
  <2> SUFFICES ASSUME d + 1 <= L, NEW m \in Menus, Fits(j, d + 1, m),
                      Below(Targets(j), m.next), m.next + (d + 1) <= FullAt + 1
               PROVE  Undone(SubSeq(j, 1, d + 1), m) = {} <=> Blocked(j, d + 1)
    OBVIOUS
  <2>1. d + 1 \in 1 .. L /\ (d + 1) - 1 = d /\ d \in 0 .. L /\ d <= L
    BY <1>1
  <2>2. Holds(d)
    BY <1>3, <2>1
  <2>3. PICK i \in Journals : i = SubSeq(j, 1, d) /\ SubSeq(j, 1, d + 1) = Append(i, j[d + 1])
    BY <1>1, <2>1, Left
  <2>4. PICK e \in Entries : e = j[d + 1]
    BY <1>1, <2>1, ElementOfSeq DEF Journals
  <2>5. PICK c \in Commands : c = e.inverse
    BY DEF Entries
  <2>6. Undone(SubSeq(j, 1, d + 1), m) = IF Accepts(m, c) THEN Undone(i, Run(m, c)) ELSE {}
    BY <2>3, <2>4, <2>5, UndoneLast
  <2>7. m.next \in Nat /\ FullAt \in Nat
    BY SafeAssumption DEF Menus, SafeAssumption
  <2>8. ASSUME Accepts(m, c), NEW n \in Menus, n = Run(m, c),
               n.next + d <= FullAt + 1, m.next <= n.next, Fits(j, d, n)
        PROVE  Undone(SubSeq(j, 1, d + 1), m) = {} <=> Blocked(j, d)
    <3>1. n.next \in Nat
      BY DEF Menus
    <3>2. Below(Targets(j), n.next)
      BY <2>7, <2>8, <3>1 DEF Below
    <3>3. Undone(SubSeq(j, 1, d), n) = {} <=> Blocked(j, d)
      BY <2>2, <2>8, <3>2
    <3> QED BY <2>3, <2>6, <2>8, <3>3
  <2>9. \A k \in 1 .. d : k \in 1 .. d + 1 /\ k \in 1 .. L /\ j[k].target \in Targets(j)
    BY <1>1, <2>1 DEF Targets
  <2>10. CASE c.verb = "add"
    <3>1. Accepts(m, c)
      BY <2>7, <2>10 DEF Accepts
    <3>2. PICK n \in Menus : n = Run(m, c)
      BY <3>1, RunSays
    <3>3. n.next = m.next + 1 /\ DOMAIN n.rows = DOMAIN m.rows \cup {m.next}
      BY <2>10, <3>1, <3>2, RunSays
    <3>4. \A k \in 1 .. d : j[k].target # m.next
      BY <2>7, <2>9 DEF Below
    <3>5. Fits(j, d, n)
      BY <2>9, <3>3, <3>4 DEF Fits
    <3>6. n.next + d <= FullAt + 1 /\ m.next <= n.next
      BY <2>7, <3>3
    <3>7. Undone(SubSeq(j, 1, d + 1), m) = {} <=> Blocked(j, d)
      BY <2>8, <3>1, <3>2, <3>5, <3>6
    <3> QED BY <1>1, <2>4, <2>5, <2>10, <3>7, BlockedLast
  <2>11. CASE c.verb # "add"
    <3>1. c.id = e.target
      BY <2>5, <2>11 DEF Entries
    <3>2. Accepts(m, c) <=> ~Gone(j, d + 1)
      <4>1. d + 1 \in 1 .. d + 1
        OBVIOUS
      <4> QED BY <2>4, <2>11, <3>1, <4>1 DEF Accepts, Fits
    <3>3. CASE Gone(j, d + 1)
      BY <1>1, <2>4, <2>5, <2>6, <2>11, <3>2, <3>3, BlockedLast
    <3>4. CASE ~Gone(j, d + 1)
      <4>1. Accepts(m, c)
        BY <3>2, <3>4
      <4>2. PICK n \in Menus : n = Run(m, c)
        BY <4>1, RunSays
      <4>3. n.next = m.next
        BY <2>11, <4>1, <4>2, RunSays
      <4>4. Fits(j, d, n)
        <5>1. CASE c.verb = "remove"
          <6>1. DOMAIN n.rows = DOMAIN m.rows \ {c.id}
            BY <4>1, <4>2, <5>1, RunSays
          <6>2. \A k \in 1 .. d : k < d + 1
            OBVIOUS
          <6>3. \A k \in 1 .. d : j[k].target # c.id
            BY <1>1, <2>1, <2>4, <2>5, <2>9, <3>1, <5>1, <6>2 DEF Ordered
          <6> QED BY <2>9, <6>1, <6>3 DEF Fits
        <5>2. CASE c.verb \in Changing
          <6>1. DOMAIN n.rows = DOMAIN m.rows
            BY <4>1, <4>2, <5>2, RunSays
          <6> QED BY <2>9, <6>1 DEF Fits
        <5> QED BY <2>11, <5>1, <5>2 DEF Commands, Verbs, Changing
      <4>5. n.next + d <= FullAt + 1 /\ m.next <= n.next
        BY <2>7, <4>3
      <4>6. Undone(SubSeq(j, 1, d + 1), m) = {} <=> Blocked(j, d)
        BY <2>8, <4>1, <4>2, <4>4, <4>5
      <4> QED BY <1>1, <2>4, <2>5, <2>11, <3>4, <4>6, BlockedLast
    <3> QED BY <3>3, <3>4
  <2> QED BY <2>10, <2>11
<1> HIDE DEF S
<1>4. \A p \in Nat : p \in S
  BY <1>2, <1>3, AllNaturals
<1>5. \A p \in 0 .. L : p \in Nat /\ p <= L
  OBVIOUS
<1> QED BY <1>1, <1>4, <1>5 DEF S

\* The router has room for every row a rollback may add again.
RoomToUndo ==
    /\ MaxId + MaxChanges <= FullAt
    /\ \A rows \in Tables : Len(rows) + MaxChanges <= FullAt

\* The entries a rollback that runs, or would start now, has yet to undo.
StillTo == IF session.status = "rolling" THEN session.pos ELSE Len(session.journal)

Known ==
    session.status \in {"active", "rolling"} /\ gaps \subseteq {"unset", "noop"} /\ ~partial

BlockInv ==
    /\ Len(session.journal) <= MaxChanges
    /\ Known =>
          /\ Ordered(session.journal)
          /\ Fits(session.journal, StillTo, menu)
          /\ menu.next + MaxChanges + StillTo <= FullAt + 1 + Len(session.journal)

LEMMA ToldFits ==
    ASSUME menu \in Menus, NEW j \in Journals, Below(Targets(j), menu.next),
           Ordered(j), Fits(j, Len(j), menu),
           NEW c \in Commands, Accepts(menu, c), NEW entries, Told(c, entries)
    PROVE  /\ Ordered(j \o entries)
           /\ Fits(j \o entries, Len(j \o entries), Run(menu, c))
<1>1. PICK L \in Nat : L = Len(j)
  BY LenProperties DEF Journals
<1>2. PICK n \in Menus : n = Run(menu, c)
  BY RunSays
<1>3. /\ c.verb = "add" => DOMAIN n.rows = DOMAIN menu.rows \cup {menu.next}
      /\ c.verb = "remove" => DOMAIN n.rows = DOMAIN menu.rows \ {c.id} /\ c.id \in DOMAIN menu.rows
      /\ c.verb \in Changing => DOMAIN n.rows = DOMAIN menu.rows
  BY <1>2, RunSays
<1>4. \A k \in 1 .. L : j[k].target \in Nat /\ j[k].target < menu.next /\ menu.next \in Nat
  BY <1>1 DEF Below, Targets, Menus
<1>5. CASE entries = <<>> /\ c.verb = "set"
  <2>1. j \o entries = j
    BY <1>5, Grown
  <2>2. DOMAIN n.rows = DOMAIN menu.rows
    BY <1>3, <1>5 DEF Changing
  <2> QED BY <1>2, <2>1, <2>2 DEF Fits
<1>6. ASSUME NEW e \in Entries, entries = <<e>>,
             \/ c.verb = "add" /\ e.inverse.verb = "remove" /\ e.target = menu.next
             \/ c.verb \in Changing /\ e.inverse.verb \in Changing /\ e.target \in Present
             \/ c.verb = "remove" /\ e.inverse.verb = "add" /\ e.target = c.id
      PROVE  /\ Ordered(j \o entries)
             /\ Fits(j \o entries, Len(j \o entries), n)
  <2>1. PICK i \in Journals : i = j \o entries
    BY <1>6, Grown
  <2>2. Len(i) = L + 1 /\ i[L + 1] = e /\ \A k \in 1 .. L : i[k] = j[k]
    BY <1>1, <1>6, <2>1, Grown
  <2>3. \A k : k \in 1 .. L + 1 <=> k \in 1 .. L \/ k = L + 1
    OBVIOUS
  <2>4. /\ \A k \in 1 .. L : k < L + 1 /\ ~(L + 1 < k)
        /\ \A k \in 1 .. L : \A l \in k .. L + 1 : l \in k .. L \/ l = L + 1
        /\ \A k \in 1 .. L : L + 1 \in k .. L + 1 /\ \A l \in k .. L : l \in k .. L + 1 /\ l \in 1 .. L
        /\ ~(L + 1 < L + 1) /\ L + 1 \in L + 1 .. L + 1
        /\ \A l \in L + 1 .. L + 1 : l = L + 1
    BY <1>1
  <2>5. \A k \in 1 .. L : Gone(i, k) <=>
           Gone(j, k) \/ (e.inverse.verb = "add" /\ e.target = j[k].target)
    BY <1>1, <2>2, <2>4 DEF Gone
  <2>6. Gone(i, L + 1) <=> e.inverse.verb = "add"
    BY <2>2, <2>4 DEF Gone
  <2>7. ASSUME NEW k \in 1 .. L, j[k].target = e.target
        PROVE  j[k].inverse.verb # "add" /\ e.inverse.verb # "remove"
    <3>1. j[k].target # menu.next
      BY <1>4
    <3>2. e.target \in DOMAIN menu.rows /\ e.inverse.verb # "remove"
      BY <1>3, <1>6, <2>7, <3>1 DEF Present, Changing
    <3>3. ~Gone(j, k)
      BY <1>1, <2>7, <3>2 DEF Fits
    <3>4. k \in k .. L
      OBVIOUS
    <3> QED BY <1>1, <3>2, <3>3, <3>4 DEF Gone
  <2>8. Ordered(i)
    BY <1>1, <2>2, <2>3, <2>4, <2>7 DEF Ordered
  <2>9. ASSUME NEW k \in 1 .. L PROVE i[k].target \in DOMAIN n.rows <=> ~Gone(i, k)
    <3>1. j[k].target \in DOMAIN menu.rows <=> ~Gone(j, k)
      BY <1>1 DEF Fits
    <3>2. j[k].target # menu.next
      BY <1>4
    <3> QED BY <1>3, <1>6, <2>2, <2>5, <3>1, <3>2 DEF Changing
  <2>10. e.target \in DOMAIN n.rows <=> e.inverse.verb # "add"
    BY <1>3, <1>6 DEF Changing, Present
  <2>11. Fits(i, L + 1, n)
    BY <2>2, <2>3, <2>6, <2>9, <2>10 DEF Fits
  <2> QED BY <2>1, <2>2, <2>8, <2>11
<1> QED BY <1>2, <1>5, <1>6 DEF Told

LEMMA WriteBlocks ==
    ASSUME RoomToUndo, Typed, BlockInv, NEW c \in Commands, Accepts(menu, c), NEW entries,
           Journaled(entries, Run(menu, c)), NEW gap, Write(c, entries, gap),
           gap \subseteq {"unset", "noop"} => Told(c, entries)
    PROVE  BlockInv'
<1>1. PICK j \in Journals : j = session.journal
  BY DEF Typed
<1>2. /\ session.status = "active" /\ session'.status = "active" /\ Len(j) < MaxChanges
      /\ session'.journal = j \o entries /\ menu' = Run(menu, c) /\ gaps' = gaps \cup gap
      /\ partial' = partial /\ (c.verb = "add" => menu.next <= MaxId)
  BY <1>1 DEF Write, Typed
<1>3. /\ menu.next \in Nat /\ MaxId \in Nat /\ MaxChanges \in Nat /\ FullAt \in Nat
  BY SafeAssumption DEF Typed, Menus, SafeAssumption
<1>4. Len(j) \in Nat /\ Len(j \o entries) \in Nat /\ Len(j \o entries) <= MaxChanges
  <2>1. Len(j) \in Nat
    BY LenProperties DEF Journals
  <2>2. ASSUME NEW e \in Entries, entries = <<e>>
        PROVE  Len(j \o entries) = Len(j) + 1
    BY <2>2, Grown
  <2>3. entries = <<>> => j \o entries = j
    BY Grown
  <2>4. Len(j \o entries) = Len(j) \/ Len(j \o entries) = Len(j) + 1
    BY <2>2, <2>3 DEF Journaled
  <2> QED BY <1>2, <1>3, <2>1, <2>4
<1>5. ASSUME Known'
      PROVE  /\ Ordered(j \o entries) /\ Fits(j \o entries, Len(j \o entries), menu')
             /\ menu'.next + MaxChanges <= FullAt + 1
  <2>1. Known /\ gap \subseteq {"unset", "noop"}
    BY <1>2, <1>5 DEF Known
  <2>2. StillTo = Len(j)
    BY <1>1, <1>2 DEF StillTo
  <2>3. /\ Ordered(j) /\ Fits(j, Len(j), menu)
        /\ menu.next + MaxChanges + Len(j) <= FullAt + 1 + Len(j)
    BY <1>1, <2>1, <2>2 DEF BlockInv
  <2>4. Ordered(j \o entries) /\ Fits(j \o entries, Len(j \o entries), menu')
    BY <1>1, <1>2, <2>1, <2>3, ToldFits DEF Typed
  <2>5. menu'.next + MaxChanges <= FullAt + 1
    <3>1. CASE c.verb = "add"
      <4>1. menu'.next = menu.next + 1
        BY <1>2, <3>1, RunSays DEF Typed
      <4> QED BY <1>2, <1>3, <3>1, <4>1 DEF RoomToUndo
    <3>2. CASE c.verb # "add"
      <4>1. menu'.next = menu.next
        BY <1>2, <3>2, RunSays DEF Typed
      <4> QED BY <1>3, <1>4, <2>3, <4>1
    <3> QED BY <3>1, <3>2
  <2> QED BY <2>4, <2>5
<1>6. StillTo' = Len(j \o entries)
  BY <1>2 DEF StillTo
<1>7. menu'.next \in Nat
  BY <1>2, RunSays DEF Typed, Menus
<1>8. Known' => menu'.next + MaxChanges + StillTo' <= FullAt + 1 + Len(j \o entries)
  BY <1>3, <1>4, <1>5, <1>6, <1>7
<1> QED BY <1>2, <1>4, <1>5, <1>6, <1>8 DEF BlockInv

LEMMA EndingBlocks ==
    ASSUME SafeInv, BlockInv, Ending
    PROVE  BlockInv'
<1>1. PICK j \in Journals : j = session.journal
  BY DEF SafeInv, Typed
<1>2. /\ Typed /\ menu \in Menus /\ Len(j) \in Nat /\ session.pos \in 0 .. Len(j)
      /\ Len(j) <= MaxChanges /\ menu.next \in Nat /\ MaxChanges \in Nat /\ FullAt \in Nat
  BY <1>1, LenProperties, SafeAssumption
     DEF SafeInv, BlockInv, Typed, Menus, SafeAssumption, Journals
<1>3. CASE StartRollback
  <2>1. /\ session' = [session EXCEPT !.status = "rolling", !.pos = Len(j)]
        /\ session.status = "active" /\ UNCHANGED <<menu, gaps, partial>>
    BY <1>1, <1>3 DEF StartRollback
  <2>2. session'.journal = j /\ session'.status = "rolling" /\ session'.pos = Len(j)
    BY <1>1, <1>2, <2>1 DEF Typed
  <2>3. StillTo = Len(j) /\ StillTo' = Len(j)
    BY <1>1, <2>1, <2>2 DEF StillTo
  <2>4. Known' => Known
    BY <2>1, <2>2 DEF Known
  <2> QED BY <1>1, <1>2, <2>1, <2>2, <2>3, <2>4 DEF BlockInv
<1>4. CASE Undo
  <2>1. PICK k \in 1 .. Len(j) : k = session.pos
    BY <1>2, <1>4 DEF Undo
  <2>2. PICK e \in Entries : e = j[k]
    BY ElementOfSeq DEF Journals
  <2>3. PICK c \in Commands : c = e.inverse
    BY DEF Entries
  <2>4. /\ session.status = "rolling" /\ Accepts(menu, c) /\ menu' = Run(menu, c)
        /\ session'.status = "rolling" /\ session'.journal = j /\ session'.pos = k - 1
        /\ UNCHANGED <<gaps, partial>>
    BY <1>1, <1>2, <1>4, <2>1, <2>2, <2>3 DEF Undo, Typed
  <2>5. StillTo = k /\ StillTo' = k - 1
    BY <2>1, <2>4 DEF StillTo
  <2>6. PICK n \in Menus : n = menu'
    BY <1>2, <2>4, RunSays
  <2>7. ASSUME Known'
        PROVE  /\ Ordered(j) /\ Fits(j, k - 1, n)
               /\ n.next + MaxChanges + (k - 1) <= FullAt + 1 + Len(j)
    <3>1. Known
      BY <2>4, <2>7 DEF Known
    <3>2. /\ Ordered(j) /\ Fits(j, k, menu)
          /\ menu.next + MaxChanges + k <= FullAt + 1 + Len(j)
      BY <1>1, <2>5, <3>1 DEF BlockInv
    <3>3. \A l \in 1 .. k - 1 : /\ l \in 1 .. k /\ l \in 1 .. Len(j) /\ l < k
                                /\ j[l].target \in Targets(j)
      BY <1>2 DEF Targets
    <3>4. n.next \in Nat
      BY DEF Menus
    <3>5. CASE c.verb = "add"
      <4>1. n.next = menu.next + 1 /\ DOMAIN n.rows = DOMAIN menu.rows \cup {menu.next}
        BY <1>2, <2>4, <2>6, <3>5, RunSays
      <4>2. \A l \in 1 .. k - 1 : j[l].target # menu.next
        BY <1>1, <1>2, <3>3 DEF Typed, Below
      <4>3. Fits(j, k - 1, n)
        BY <3>2, <3>3, <4>1, <4>2 DEF Fits
      <4>4. n.next + MaxChanges + (k - 1) <= FullAt + 1 + Len(j)
        BY <1>2, <3>2, <4>1
      <4> QED BY <3>2, <4>3, <4>4
    <3>6. CASE c.verb = "remove"
      <4>1. n.next = menu.next /\ DOMAIN n.rows = DOMAIN menu.rows \ {c.id}
        BY <1>2, <2>4, <2>6, <3>6, RunSays
      <4>2. c.id = e.target
        BY <2>3, <3>6 DEF Entries
      <4>3. \A l \in 1 .. k - 1 : j[l].target # c.id
        BY <2>2, <2>3, <3>2, <3>3, <3>6, <4>2 DEF Ordered
      <4>4. Fits(j, k - 1, n)
        BY <3>2, <3>3, <4>1, <4>3 DEF Fits
      <4>5. n.next + MaxChanges + (k - 1) <= FullAt + 1 + Len(j)
        BY <1>2, <3>2, <4>1
      <4> QED BY <3>2, <4>4, <4>5
    <3>7. CASE c.verb \in Changing
      <4>1. n.next = menu.next /\ DOMAIN n.rows = DOMAIN menu.rows
        BY <1>2, <2>4, <2>6, <3>7, RunSays DEF Changing
      <4>2. Fits(j, k - 1, n)
        BY <3>2, <3>3, <4>1 DEF Fits
      <4>3. n.next + MaxChanges + (k - 1) <= FullAt + 1 + Len(j)
        BY <1>2, <3>2, <4>1
      <4> QED BY <3>2, <4>2, <4>3
    <3> QED BY <3>5, <3>6, <3>7 DEF Commands, Verbs, Changing
  <2> QED BY <1>2, <2>4, <2>5, <2>6, <2>7 DEF BlockInv
<1>5. CASE UndoRefused \/ Interrupted
  <2>1. /\ session.status = "rolling" /\ session'.status = "active" /\ session'.journal = j
        /\ partial' = (partial \/ session.pos < Len(j)) /\ UNCHANGED <<menu, gaps>>
    BY <1>1, <1>2, <1>5 DEF UndoRefused, Interrupted, GiveUp, Typed
  <2>2. ASSUME Known' PROVE Known /\ session.pos = Len(j)
    <3>1. ~partial /\ ~(session.pos < Len(j))
      BY <2>1, <2>2 DEF Known
    <3>2. session.pos = Len(j)
      BY <1>2, <3>1
    <3> QED BY <2>1, <2>2, <3>1, <3>2 DEF Known
  <2>3. StillTo = session.pos /\ StillTo' = Len(j)
    BY <2>1 DEF StillTo
  <2> QED BY <1>1, <1>2, <2>1, <2>2, <2>3 DEF BlockInv
<1>6. CASE MarkRolledBack \/ Commit
  <2>1. session'.journal = j /\ session'.status \in {"rolled_back", "committed"}
    BY <1>1, <1>2, <1>6 DEF MarkRolledBack, Commit, Typed
  <2>2. ~Known'
    BY <2>1 DEF Known
  <2> QED BY <1>2, <2>1, <2>2 DEF BlockInv
<1> QED BY <1>3, <1>4, <1>5, <1>6 DEF Ending

LEMMA InitBlocks == RoomToUndo /\ Init => BlockInv
<1> SUFFICES ASSUME RoomToUndo, Init PROVE BlockInv
  OBVIOUS
<1>1. PICK n \in Nat : base \in [1 .. n -> Row] /\ Len(base) = n
  BY SafeAssumption, LenProperties DEF Init, SafeAssumption
<1>2. DOMAIN base = 1 .. n /\ Cardinality(1 .. n) = n
  <2>1. 1 \in Int /\ n \in Int /\ n - 1 + 1 = n
    OBVIOUS
  <2>2. Cardinality(1 .. n) = IF 1 > n THEN 0 ELSE n - 1 + 1
    BY <2>1, FS_Interval
  <2> QED BY <1>1, <2>1, <2>2
<1>3. menu.next = n + 1
  BY <1>2 DEF Init
<1>4. PICK j : j = <<>> /\ Len(j) = 0
  OBVIOUS
<1>5. session = [status |-> "active", journal |-> j, pos |-> 0]
  BY <1>4 DEF Init
<1>6. session.journal = j /\ StillTo = 0
  BY <1>4, <1>5 DEF StillTo
<1>7. Ordered(j) /\ Fits(j, 0, menu)
  BY <1>4 DEF Ordered, Fits
<1>8. n + MaxChanges <= FullAt /\ MaxChanges \in Nat /\ FullAt \in Nat
  BY <1>1, SafeAssumption DEF RoomToUndo, Init, SafeAssumption
<1>9. menu.next + MaxChanges + 0 <= FullAt + 1 + 0 /\ 0 <= MaxChanges
  BY <1>3, <1>8
<1> QED BY <1>4, <1>6, <1>7, <1>9 DEF BlockInv

LEMMA FaithfulBlocks == RoomToUndo /\ SafeInv /\ BlockInv /\ Faithful => BlockInv'
BY WriteBlocks DEF Faithful, SafeInv

LEMMA NextBlocks == RoomToUndo /\ SafeInv /\ BlockInv /\ [Next]_vars => BlockInv'
<1> SUFFICES ASSUME RoomToUndo, SafeInv, BlockInv, [Next]_vars PROVE BlockInv'
  OBVIOUS
<1>1. CASE UNCHANGED vars
  <2>1. menu' = menu /\ session' = session /\ gaps' = gaps /\ partial' = partial
    BY <1>1 DEF vars
  <2> QED BY <2>1 DEF BlockInv, Known, StillTo, Fits
<1> QED BY <1>1, NextIs, FaithfulBlocks, EndingBlocks DEF SafeInv

LEMMA BlockInvBlocks == SafeInv /\ BlockInv => ReplacedRowsBlock
<1> SUFFICES ASSUME SafeInv, BlockInv, Known
             PROVE  Restored = {} <=>
                       \E n \in 1 .. Len(ToUndo), m \in 1 .. Len(session.journal) :
                          /\ n < m /\ session.journal[m].inverse.verb = "add"
                          /\ session.journal[n].target = session.journal[m].target
  BY DEF ReplacedRowsBlock, Known
<1>1. PICK j \in Journals : j = session.journal
  BY DEF SafeInv, Typed
<1>2. /\ menu \in Menus /\ Len(j) \in Nat /\ menu.next \in Nat
      /\ MaxChanges \in Nat /\ FullAt \in Nat /\ Len(j) <= MaxChanges
      /\ Below(Targets(j), menu.next) /\ session.pos \in 0 .. Len(j)
  BY <1>1, LenProperties, SafeAssumption
     DEF SafeInv, BlockInv, Typed, Menus, SafeAssumption, Journals
<1>3. PICK p \in 0 .. Len(j) : p = StillTo
  BY <1>1, <1>2 DEF StillTo
<1>4. ToUndo = SubSeq(j, 1, p) /\ Len(ToUndo) = p
  <2>1. ToUndo = SubSeq(j, 1, p)
    BY <1>1, <1>3, Left DEF ToUndo, StillTo, Known
  <2>2. Len(SubSeq(j, 1, p)) = p
    BY <1>2 DEF Journals
  <2> QED BY <2>1, <2>2
<1>5. /\ Ordered(j) /\ Fits(j, p, menu)
      /\ menu.next + MaxChanges + p <= FullAt + 1 + Len(j)
  BY <1>1, <1>3 DEF BlockInv
<1>6. menu.next + p <= FullAt + 1
  BY <1>2, <1>5
<1>7. Undone(SubSeq(j, 1, p), menu) = {} <=> Blocked(j, p)
  BY <1>2, <1>5, <1>6, BlockedUndone
<1> QED BY <1>1, <1>4, <1>7 DEF Restored, Blocked

\* A rollback is refused half-way exactly when a row was changed and then deleted in
\* the session: the row comes back under a new .id, and the inverse of the change
\* names the old one.  The router must have room for what comes back.
THEOREM RowsBlock ==
    ASSUME RoomToUndo
    PROVE  Spec => []ReplacedRowsBlock
<1>1. Init => BlockInv
  BY InitBlocks
<1>2. SafeInv /\ BlockInv /\ [Next]_vars => BlockInv'
  BY NextBlocks
<1> QED BY <1>1, <1>2, BlockInvBlocks, SafeInvariant, PTL DEF Spec
=============================================================================

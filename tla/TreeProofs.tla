------------------------------ MODULE TreeProofs ------------------------------
(***************************************************************************)
(* Proofs about Trees, for any directory, any file system to restore into  *)
(* and any number of calls that raise and of chunks that are lost.         *)
(***************************************************************************)
EXTENDS Trees, FiniteSetTheorems, SequenceTheorems, WellFoundedInduction, TLAPS

-----------------------------------------------------------------------------
(* Numbers and sequences. *)

(* The least of a set of numbers.                                          *)
LEMMA LeastOf ==
  ASSUME NEW S \in SUBSET Nat, S # {}
  PROVE  /\ Min(S) \in S
         /\ \A k \in S : Min(S) <= k
<1> DEFINE R == {ss \in Nat \X Nat : ss[1] < ss[2]}
<1>1. IsWellFoundedOn(R, Nat)
  BY NatLessThanWellFounded DEF OpToRel
<1>2. PICK x \in S : \A y \in S : ~ (<<y, x>> \in R)
  <2> HIDE DEF R
  <2> QED BY <1>1, WFMin
<1>3. ASSUME NEW y \in S, y < x PROVE FALSE
  <2>1. <<y, x>> \in R
    BY <1>3
  <2> QED BY <1>2, <2>1
<1>4. \A k \in S : k \in Nat /\ x \in Nat
  OBVIOUS
<1>5. \E m \in S : \A k \in S : m <= k
  BY <1>3, <1>4
<1> QED BY <1>5 DEF Min

IsSeq(s) == \E X : s \in Seq(X)

LEMMA SeqLength ==
  ASSUME NEW s, IsSeq(s)
  PROVE  Len(s) \in Nat /\ (s # <<>> <=> Len(s) > 0)
<1>1. PICK X : s \in Seq(X)
  BY DEF IsSeq
<1> QED  BY <1>1

LEMMA FrontFacts ==
  ASSUME NEW s, IsSeq(s), Len(s) > 0
  PROVE  /\ IsSeq(Front(s)) /\ Len(Front(s)) = Len(s) - 1
         /\ \A i \in 1 .. Len(s) - 1 : Front(s)[i] = s[i]
<1>1. PICK X : s \in Seq(X)
  BY DEF IsSeq
<1>2. Front(s) \in Seq(X) /\ Len(Front(s)) = Len(s) - 1
  <2> DEFINE m == Len(s) - 1
  <2>1. m \in Nat /\ m <= Len(s) /\ Front(s) = SubSeq(s, 1, m)
    BY <1>1 DEF Front
  <2> HIDE DEF m
  <2>2. Front(s) \in Seq(X)
    BY <1>1, <2>1
  <2>3. Len(Front(s)) = m
    BY <1>1, <2>1
  <2> QED  BY <2>2, <2>3 DEF m
<1>3. \A i \in 1 .. Len(s) - 1 : Front(s)[i] = s[i]
  BY <1>1 DEF Front
<1> QED  BY <1>2, <1>3 DEF IsSeq

LEMMA AppendFacts ==
  ASSUME NEW s, IsSeq(s), NEW f
  PROVE  /\ IsSeq(Append(s, f)) /\ Len(Append(s, f)) = Len(s) + 1
         /\ \A i \in 1 .. Len(s) : Append(s, f)[i] = s[i]
         /\ Append(s, f)[Len(s) + 1] = f /\ Last(Append(s, f)) = f
         /\ Front(Append(s, f)) = s
<1>1. PICK X : s \in Seq(X)
  BY DEF IsSeq
<1> DEFINE Y == X \cup {f}
<1>2. s \in Seq(Y) /\ f \in Y /\ Len(s) \in Nat
  BY <1>1
<1> HIDE DEF Y
<1>3. /\ Append(s, f) \in Seq(Y) /\ Len(Append(s, f)) = Len(s) + 1
      /\ \A i \in 1 .. Len(s) : Append(s, f)[i] = s[i]
      /\ Append(s, f)[Len(s) + 1] = f
  BY <1>2
<1>4. Front(Append(s, f)) = s
  <2>1. /\ Front(Append(s, f)) \in Seq(Y) /\ Len(Front(Append(s, f))) = Len(s)
        /\ \A i \in 1 .. Len(s) : Front(Append(s, f))[i] = s[i]
    BY <1>2, <1>3 DEF Front
  <2> QED  BY <1>2, <2>1, SeqEqual
<1> QED  BY <1>2, <1>3, <1>4 DEF IsSeq, Last

(* The last element replaced.                                              *)
LEMMA ReplacedFacts ==
  ASSUME NEW s, IsSeq(s), Len(s) > 0, NEW f
  PROVE  LET t == Front(s) \o <<f>> IN
         /\ IsSeq(t) /\ Len(t) = Len(s) /\ t[Len(s)] = f /\ Last(t) = f
         /\ \A i \in 1 .. Len(s) - 1 : t[i] = s[i]
         /\ Front(t) = Front(s)
<1>1. Front(s) \o <<f>> = Append(Front(s), f)
  <2>1. PICK X : Front(s) \in Seq(X)
    BY FrontFacts DEF IsSeq
  <2> DEFINE Y == X \cup {f}
  <2>2. Front(s) \in Seq(Y) /\ f \in Y
    BY <2>1
  <2> HIDE DEF Y
  <2> QED  BY <2>2, AppendIsConcat
<1>2. Len(s) \in Nat
  BY SeqLength
<1> DEFINE t == Append(Front(s), f)
<1>3. IsSeq(Front(s)) /\ Len(Front(s)) = Len(s) - 1 /\ \A i \in 1 .. Len(s) - 1 : Front(s)[i] = s[i]
  BY FrontFacts
<1>4. /\ IsSeq(t) /\ Len(t) = Len(Front(s)) + 1
      /\ \A i \in 1 .. Len(Front(s)) : t[i] = Front(s)[i]
      /\ t[Len(Front(s)) + 1] = f /\ Last(t) = f /\ Front(t) = Front(s)
  BY <1>3, AppendFacts
<1>5. Len(t) = Len(s) /\ t[Len(s)] = f
  <2> HIDE DEF t
  <2> QED  BY <1>2, <1>3, <1>4
<1>6. \A i \in 1 .. Len(s) - 1 : t[i] = s[i]
  <2> HIDE DEF t
  <2> QED  BY <1>3, <1>4
<1> HIDE DEF t
<1>7. Front(s) \o <<f>> = t
  BY <1>1 DEF t
<1> QED  BY <1>4, <1>5, <1>6, <1>7

(* One more element of a sequence.                                         *)
LEMMA PrefixGrows ==
  ASSUME NEW s, NEW t, IsSeq(s), IsSeq(t), IsPrefix(s, t), Len(s) < Len(t)
  PROVE  LET u == Append(s, t[Len(s) + 1]) IN IsSeq(u) /\ IsPrefix(u, t)
<1>1. PICK X : s \in Seq(X)
  BY DEF IsSeq
<1>2. PICK Y : t \in Seq(Y)
  BY DEF IsSeq
<1> DEFINE S == X \cup Y
           n == Len(s)
           u == Append(s, t[n + 1])
<1>3. s \in Seq(S) /\ t \in Seq(S) /\ n \in Nat /\ Len(t) \in Nat
  BY <1>1, <1>2
<1>4. SubSeq(s, 1, n) = SubSeq(t, 1, n) /\ n < Len(t)
  BY DEF IsPrefix
<1> HIDE DEF S, n
<1>5. t[n + 1] \in S
  BY <1>3, <1>4
<1>6. u \in Seq(S) /\ Len(u) = n + 1 /\ u[n + 1] = t[n + 1] /\ \A i \in 1 .. n : u[i] = s[i]
  BY <1>3, <1>5 DEF n
<1> HIDE DEF u
<1>7. ASSUME NEW i \in 1 .. n + 1
      PROVE  u[i] = t[i]
  <2>1. CASE i = n + 1
    BY <1>6, <2>1
  <2>2. CASE i # n + 1
    <3>1. i \in 1 .. n
      BY <1>3, <2>2
    <3>2. SubSeq(s, 1, n)[i] = s[i] /\ SubSeq(t, 1, n)[i] = t[i]
      BY <1>3, <1>4, <3>1 DEF n
    <3> QED  BY <1>4, <1>6, <3>1, <3>2
  <2> QED  BY <2>1, <2>2
<1>8. /\ SubSeq(u, 1, n + 1) \in Seq(S) /\ Len(SubSeq(u, 1, n + 1)) = n + 1
      /\ \A i \in 1 .. n + 1 : SubSeq(u, 1, n + 1)[i] = u[i]
  BY <1>3, <1>6
<1>9. /\ SubSeq(t, 1, n + 1) \in Seq(S) /\ Len(SubSeq(t, 1, n + 1)) = n + 1
      /\ \A i \in 1 .. n + 1 : SubSeq(t, 1, n + 1)[i] = t[i]
  BY <1>3, <1>4
<1>10. SubSeq(u, 1, n + 1) = SubSeq(t, 1, n + 1)
  BY <1>7, <1>8, <1>9, SeqEqual
<1>11. IsPrefix(u, t)
  BY <1>3, <1>4, <1>6, <1>10 DEF IsPrefix
<1> QED  BY <1>6, <1>11 DEF IsSeq, u, n

LEMMA FrontLast ==
  ASSUME NEW path \in Seq(Nat), path # <<>>
  PROVE  /\ Front(path) \in Seq(Nat) /\ Last(path) \in Nat
         /\ path = Append(Front(path), Last(path))
<1>1. Len(path) \in Nat /\ Len(path) > 0 /\ IsSeq(path)
  BY DEF IsSeq
<1>2. Last(path) = path[Len(path)] /\ Last(path) \in Nat
  BY <1>1 DEF Last
<1>3. Front(path) \in Seq(Nat) /\ Len(Front(path)) = Len(path) - 1
      /\ \A i \in 1 .. Len(path) - 1 : Front(path)[i] = path[i]
  BY <1>1, FrontFacts DEF Front
<1> DEFINE t == Append(Front(path), Last(path))
<1>4. t \in Seq(Nat) /\ Len(t) = Len(path) /\ t[Len(path)] = Last(path)
      /\ \A i \in 1 .. Len(path) - 1 : t[i] = Front(path)[i]
  BY <1>1, <1>2, <1>3
<1> HIDE DEF t
<1>5. \A i \in 1 .. Len(path) : t[i] = path[i]
  <2> SUFFICES ASSUME NEW i \in 1 .. Len(path) PROVE t[i] = path[i]
    OBVIOUS
  <2>1. CASE i = Len(path)
    BY <1>2, <1>4, <2>1
  <2>2. CASE i # Len(path)
    <3>1. i \in 1 .. Len(path) - 1
      BY <1>1, <2>2
    <3> QED  BY <1>3, <1>4, <3>1
  <2> QED  BY <2>1, <2>2
<1>6. t = path
  BY <1>4, <1>5, SeqEqual
<1> QED  BY <1>2, <1>3, <1>6 DEF t

-----------------------------------------------------------------------------
(* Nodes along a path. *)

Into(nodes, x) ==
  {Subnode(e) : e \in {f \in UNION {Entries(n) : n \in nodes} : IsDirEntry(f) /\ f.name = x}}

Leads(at, n, node, path) ==
  at = [k \in 0 .. n |-> IF k = 0 THEN {node} ELSE Into(at[k - 1], path[k])]

LEMMA LeadsFacts ==
  ASSUME NEW at, NEW n \in Nat, NEW node, NEW path, Leads(at, n, node, path)
  PROVE  at[0] = {node} /\ \A k \in 1 .. n : at[k] = Into(at[k - 1], path[k])
<1> DEFINE E(f) == [k \in 0 .. n |-> IF k = 0 THEN {node} ELSE Into(f[k - 1], path[k])]
<1>1. at = E(at)
  BY DEF Leads
<1>2. E(at)[0] = {node} /\ \A k \in 1 .. n : E(at)[k] = Into(at[k - 1], path[k])
  OBVIOUS
<1> HIDE DEF E
<1> QED  BY <1>1, <1>2

(* The recursion of NodesAt is well-founded.                               *)
LEMMA LeadsExists ==
  ASSUME NEW node, NEW path, NEW n \in Nat
  PROVE  \E at : Leads(at, n, node, path)
<1> DEFINE P(m) == \E at : Leads(at, m, node, path)
           S == {m \in Nat : ~P(m)}
<1>1. P(0)
  <2> DEFINE at == [k \in 0 .. 0 |-> {node}]
  <2>1. Leads(at, 0, node, path)
    BY DEF Leads
  <2> QED  BY <2>1
<1>2. ASSUME NEW m \in Nat \ {0}, P(m - 1)
      PROVE  P(m)
  <2>1. PICK f : Leads(f, m - 1, node, path)
    BY <1>2
  <2> DEFINE g == [k \in 0 .. m |-> IF k = m THEN Into(f[m - 1], path[m]) ELSE f[k]]
             E(h) == [k \in 0 .. m |-> IF k = 0 THEN {node} ELSE Into(h[k - 1], path[k])]
  <2>2. f[0] = {node} /\ \A k \in 1 .. m - 1 : f[k] = Into(f[k - 1], path[k])
    <3>1. m - 1 \in Nat
      OBVIOUS
    <3> QED  BY <2>1, <3>1, LeadsFacts
  <2>3. ASSUME NEW k \in 0 .. m
        PROVE  g[k] = E(g)[k]
    <3>1. CASE k = 0
      BY <2>2, <3>1
    <3>2. CASE k # 0 /\ k = m
      <4>1. g[k] = Into(f[k - 1], path[k])
        BY <3>2
      <4>2. g[k - 1] = f[k - 1]
        BY <3>2
      <4>3. E(g)[k] = Into(g[k - 1], path[k])
        BY <3>2
      <4> HIDE DEF g, E
      <4> QED  BY <4>1, <4>2, <4>3
    <3>3. CASE k # 0 /\ k # m
      <4>1. g[k] = f[k] /\ g[k - 1] = f[k - 1] /\ k \in 1 .. m - 1
        BY <3>3
      <4>2. E(g)[k] = Into(g[k - 1], path[k])
        BY <3>3
      <4> HIDE DEF g, E
      <4> QED  BY <2>2, <4>1, <4>2
    <3> QED  BY <3>1, <3>2, <3>3
  <2>4. g = E(g)
    BY <2>3
  <2>5. Leads(g, m, node, path)
    <3> HIDE DEF g
    <3> QED  BY <2>4 DEF Leads
  <2> QED  BY <2>5
<1>3. S = {}
  <2> HIDE DEF P
  <2> SUFFICES ASSUME S # {} PROVE FALSE
    OBVIOUS
  <2>1. PICK m \in S : \A k \in S : m <= k
    <3>1. S \in SUBSET Nat
      OBVIOUS
    <3> HIDE DEF S
    <3> QED  BY <3>1, LeastOf
  <2>2. m # 0
    BY <1>1
  <2>3. m \in Nat \ {0} /\ m - 1 \in Nat /\ m - 1 \notin S
    BY <2>1, <2>2
  <2>4. P(m - 1)
    BY <2>3
  <2> QED  BY <1>2, <2>3, <2>4
<1>4. P(n)
  <2> HIDE DEF P
  <2> QED  BY <1>3
<1> QED  BY <1>4

LEMMA NodesAtChain ==
  ASSUME NEW node, NEW path, Len(path) \in Nat
  PROVE  \E at : Leads(at, Len(path), node, path) /\ NodesAt(node, path) = at[Len(path)]
<1> DEFINE at == CHOOSE at : Leads(at, Len(path), node, path)
<1>1. Leads(at, Len(path), node, path)
  BY LeadsExists
<1>2. NodesAt(node, path) = at[Len(path)]
  BY DEF NodesAt, Leads, Into
<1> QED  BY <1>1, <1>2

Agree(p, q, n) == \A i \in 1 .. n : p[i] = q[i]

(* Paths that agree lead to the same nodes.                                *)
LEMMA SameLeads ==
  ASSUME NEW node, NEW p, NEW q, NEW n \in Nat, NEW m \in Nat, n <= m,
         NEW a, Leads(a, n, node, p), NEW b, Leads(b, m, node, q),
         Agree(p, q, n)
  PROVE  \A k \in 0 .. n : a[k] = b[k]
<1>1. a[0] = {node} /\ \A k \in 1 .. n : a[k] = Into(a[k - 1], p[k])
  BY ONLY n \in Nat, Leads(a, n, node, p), LeadsFacts
<1>2. b[0] = {node} /\ \A k \in 1 .. m : b[k] = Into(b[k - 1], q[k])
  BY ONLY m \in Nat, Leads(b, m, node, q), LeadsFacts
<1> DEFINE S == {k \in 0 .. n : a[k] # b[k]}
<1> SUFFICES ASSUME S # {} PROVE FALSE
  OBVIOUS
<1>3. PICK k \in S : \A j \in S : k <= j
  <2>1. S \in SUBSET Nat
    OBVIOUS
  <2> HIDE DEF S
  <2> QED  BY <2>1, LeastOf
<1>4. k \in 1 .. n /\ k \in 1 .. m /\ k - 1 \in 0 .. n
  BY <1>1, <1>2
<1>5. k - 1 \notin S
  BY <1>3, <1>4
<1>6. a[k - 1] = b[k - 1] /\ p[k] = q[k]
  BY <1>4, <1>5 DEF Agree
<1>7. a[k] = b[k]
  BY <1>1, <1>2, <1>4, <1>6
<1> QED  BY <1>7

(* One name further: from the nodes at a path to those behind it.          *)
LEMMA NodesAtStep ==
  ASSUME NEW node, NEW path, IsSeq(path), NEW x
  PROVE  /\ NodesAt(node, <<>>) = {node}
         /\ NodesAt(node, Append(path, x)) = Into(NodesAt(node, path), x)
<1>1. NodesAt(node, <<>>) = {node}
  <2>1. Len(<<>>) = 0
    OBVIOUS
  <2>2. PICK at : Leads(at, 0, node, <<>>) /\ NodesAt(node, <<>>) = at[0]
    BY <2>1, NodesAtChain
  <2> QED  BY <2>2, LeadsFacts
<1>2. NodesAt(node, Append(path, x)) = Into(NodesAt(node, path), x)
  <2> DEFINE longer == Append(path, x)
             n == Len(path)
  <2>1. n \in Nat
    BY SeqLength
  <2>2. Len(longer) = n + 1 /\ longer[n + 1] = x /\ \A i \in 1 .. n : longer[i] = path[i]
    BY AppendFacts
  <2> HIDE DEF longer
  <2>3. PICK a : Leads(a, n, node, path) /\ NodesAt(node, path) = a[n]
    BY <2>1, NodesAtChain
  <2>4. PICK b : Leads(b, n + 1, node, longer) /\ NodesAt(node, longer) = b[n + 1]
    <3>1. Len(longer) \in Nat
      BY <2>1, <2>2
    <3> QED  BY <2>2, <3>1, NodesAtChain
  <2> HIDE DEF n
  <2>5. a[n] = b[n]
    <3>1. n + 1 \in Nat /\ n <= n + 1 /\ n \in 0 .. n
      BY <2>1
    <3>2. Agree(path, longer, n)
      BY <2>2 DEF Agree
    <3> QED  BY <2>1, <2>3, <2>4, <3>1, <3>2, SameLeads
  <2>6. b[n + 1] = Into(b[n], x)
    <3>1. n + 1 \in Nat /\ n + 1 \in 1 .. n + 1 /\ (n + 1) - 1 = n
      BY <2>1
    <3>2. \A k \in 1 .. n + 1 : b[k] = Into(b[k - 1], longer[k])
      BY <2>4, <3>1, LeadsFacts
    <3> QED  BY <2>2, <3>1, <3>2
  <2> QED  BY <2>3, <2>4, <2>5, <2>6 DEF longer
<1> QED  BY <1>1, <1>2

-----------------------------------------------------------------------------
(* The scan. *)

(* An entry, and the nodes of entries, as a scan writes them.              *)
EntrySound(e) ==
  /\ e = Entry(e.name, e.type, e.mode, e.content, e.hash)
  /\ e.name \in Nat
  /\ e.type \in {"file", "dir", "link"}
  /\ e.type = "file" => /\ IsSeq(e.hash)
                        /\ e.content = [i \in DOMAIN e.hash |-> ChunkId(e.hash[i])]
  /\ e.type = "dir" => /\ e.content = <<Subnode(e)>> /\ e.hash = <<>>
                       /\ Needs(e) = {Subnode(e)} /\ Subnode(e)[1] = "node"

NodeSound(id) == id[1] = "node" => \A e \in Entries(id) : EntrySound(e)

(* A directory being scanned: what was captured is sound and in the store. *)
FrameSound(fr, stored) ==
  /\ fr = [path |-> fr.path, todo |-> fr.todo, entries |-> fr.entries]
  /\ fr.path \in Paths /\ fr.todo \subseteq Listing(fr.path)
  /\ \A e \in fr.entries : e.name \in Listing(fr.path) \ fr.todo
  /\ \A e \in fr.entries : EntrySound(e) /\ Needs(e) \subseteq stored

(* Each but the innermost is at one of its names.                          *)
StackSound(st, stored) ==
  /\ IsSeq(st) /\ Len(st) > 0
  /\ \A i \in 1 .. Len(st) : FrameSound(st[i], stored)
  /\ \A i \in 1 .. Len(st) - 1 : st[i].todo # {}

ScanTypeOK ==
  /\ source \in Sources
  /\ scan \in {"list", "walk", "file", "done", "raised"}
  /\ \A s \in skipped : s[1] \in Paths
  /\ failures \in 0 .. MaxScanFailures

(* The chunks read of the open file are those of its data, and stored.     *)
FileSound ==
  /\ scan = "list" => Top.todo = {} /\ Top.entries = {}
  /\ scan = "file" =>
       /\ Top.todo # {} /\ file \in Seq(Range(source[Here].data))
       /\ IsPrefix(file, source[Here].data)
       /\ \A i \in DOMAIN file : ChunkId(file[i]) \in chunks

StoreSound ==
  /\ \A id \in chunks : NodeSound(id)
  /\ NodesComplete(chunks)
  /\ scan = "done" => root \in chunks /\ root[1] = "node"

ScanInv == ScanTypeOK /\ StackSound(stack, chunks) /\ FileSound /\ StoreSound

LEMMA PathFacts ==
  ASSUME source \in Sources
  PROVE  /\ <<>> \in Paths
         /\ \A p \in Paths :
              /\ p \in Seq(Nat) /\ IsSeq(p)
              /\ Listing(p) \in SUBSET Nat
              /\ source[p].data \in Seq(Range(source[p].data))
              /\ \A n \in Listing(p) : Append(p, n) \in Paths
<1>1. /\ Paths \subseteq Seq(Nat) /\ <<>> \in Paths
      /\ \A p \in Paths : source[p].data \in Seq(Range(source[p].data))
  <2>1. Paths \subseteq Seq(Nat) /\ <<>> \in Paths
    BY ScanAssumption DEF Paths
  <2>2. ASSUME NEW p \in Paths
        PROVE  source[p].data \in Seq(Range(source[p].data))
    <3>1. p \in DOMAIN source
      BY DEF Paths
    <3>2. source[p].data \in Seq(Range(source[p].data))
      BY <3>1, ScanAssumption
    <3> QED  BY <3>2
  <2> QED  BY <2>1, <2>2
<1>2. ASSUME NEW q \in Paths, q # <<>>
      PROVE  q[Len(q)] \in Nat /\ q = Append(Front(q), q[Len(q)])
  BY <1>1, <1>2, FrontLast DEF Last
<1>3. ASSUME NEW p \in Paths
      PROVE  Listing(p) \in SUBSET Nat /\ \A n \in Listing(p) : Append(p, n) \in Paths
  <2>1. ASSUME NEW n \in Listing(p)
        PROVE  n \in Nat /\ Append(p, n) \in Paths
    <3>1. PICK q \in Paths : q # <<>> /\ Front(q) = p /\ n = q[Len(q)]
      BY DEF Listing, Paths
    <3> QED  BY <1>2, <3>1
  <2> QED  BY <2>1
<1> QED  BY <1>1, <1>3 DEF IsSeq

(* One name of a directory is done, with an entry for it or without.       *)
LEMMA FramePassed ==
  ASSUME source \in Sources, NEW stored, NEW fr, FrameSound(fr, stored), fr.todo # {}
  PROVE  /\ Min(fr.todo) \in fr.todo /\ Min(fr.todo) \in Listing(fr.path)
         /\ Min(fr.todo) \in Nat /\ Append(fr.path, Min(fr.todo)) \in Paths
         /\ FrameSound([fr EXCEPT !.todo = @ \ {Min(@)}], stored)
<1>1. fr.todo \in SUBSET Nat /\ fr.todo \subseteq Listing(fr.path) /\ fr.path \in Paths
  BY PathFacts DEF FrameSound
<1>2. Min(fr.todo) \in fr.todo
  BY <1>1, LeastOf
<1>3. /\ Min(fr.todo) \in Listing(fr.path) /\ Min(fr.todo) \in Nat
      /\ Append(fr.path, Min(fr.todo)) \in Paths
  BY <1>1, <1>2, PathFacts
<1> DEFINE g == [fr EXCEPT !.todo = @ \ {Min(@)}]
<1>4. /\ g = [path |-> fr.path, todo |-> fr.todo \ {Min(fr.todo)}, entries |-> fr.entries]
  BY DEF FrameSound
<1>5. FrameSound(g, stored)
  <2>1. g.path = fr.path /\ g.todo = fr.todo \ {Min(fr.todo)} /\ g.entries = fr.entries
    BY <1>4
  <2> HIDE DEF g
  <2> QED  BY <1>4, <2>1 DEF FrameSound
<1> QED  BY <1>2, <1>3, <1>5

LEMMA FrameCaptured ==
  ASSUME source \in Sources, NEW stored, NEW fr, FrameSound(fr, stored), fr.todo # {},
         NEW e, EntrySound(e), e.name = Min(fr.todo), Needs(e) \subseteq stored
  PROVE  LET fe == [fr EXCEPT !.entries = @ \cup {e}]
         IN FrameSound([fe EXCEPT !.todo = @ \ {Min(@)}], stored)
<1> DEFINE fe == [fr EXCEPT !.entries = @ \cup {e}]
           g == [fe EXCEPT !.todo = @ \ {Min(@)}]
<1>1. fe = [path |-> fr.path, todo |-> fr.todo, entries |-> fr.entries \cup {e}]
  BY DEF FrameSound
<1>2. g = [path |-> fr.path, todo |-> fr.todo \ {Min(fr.todo)}, entries |-> fr.entries \cup {e}]
  <2> HIDE DEF fe
  <2> QED  BY <1>1
<1>3. /\ g.path = fr.path /\ g.todo = fr.todo \ {Min(fr.todo)}
      /\ g.entries = fr.entries \cup {e}
  BY <1>2
<1> HIDE DEF g
<1>4. Min(fr.todo) \in Listing(fr.path)
  BY FramePassed
<1>5. \A x \in g.entries : EntrySound(x) /\ Needs(x) \subseteq stored
  BY <1>3 DEF FrameSound
<1>6. \A x \in g.entries : x.name \in Listing(g.path) \ g.todo
  BY <1>3, <1>4 DEF FrameSound
<1>7. g.path \in Paths /\ g.todo \subseteq Listing(g.path)
  BY <1>3 DEF FrameSound
<1>8. FrameSound(g, stored)
  BY <1>2, <1>3, <1>5, <1>6, <1>7 DEF FrameSound
<1> QED  BY <1>8 DEF g

LEMMA TopReplaced ==
  ASSUME NEW stored, NEW st, StackSound(st, stored), NEW fr, FrameSound(fr, stored)
  PROVE  StackSound(Front(st) \o <<fr>>, stored)
<1> DEFINE t == Front(st) \o <<fr>>
<1>1. IsSeq(st) /\ Len(st) > 0 /\ Len(st) \in Nat
  BY SeqLength DEF StackSound
<1>2. /\ IsSeq(t) /\ Len(t) = Len(st) /\ t[Len(st)] = fr
      /\ \A i \in 1 .. Len(st) - 1 : t[i] = st[i]
  BY <1>1, ReplacedFacts
<1> HIDE DEF t
<1>3. ASSUME NEW i \in 1 .. Len(t)
      PROVE  FrameSound(t[i], stored)
  <2>1. CASE i = Len(st)
    BY <1>2, <2>1
  <2>2. CASE i # Len(st)
    <3>1. i \in 1 .. Len(st) - 1 /\ i \in 1 .. Len(st)
      BY <1>1, <1>2, <2>2
    <3> QED  BY <1>2, <3>1 DEF StackSound
  <2> QED  BY <2>1, <2>2
<1>4. \A i \in 1 .. Len(t) - 1 : t[i].todo # {}
  BY <1>2 DEF StackSound
<1>5. StackSound(t, stored)
  BY <1>1, <1>2, <1>3, <1>4 DEF StackSound
<1> QED  BY <1>5 DEF t

LEMMA TopSound ==
  ASSUME NEW stored, NEW st, StackSound(st, stored)
  PROVE  FrameSound(Last(st), stored)
<1>1. Len(st) \in 1 .. Len(st)
  BY SeqLength DEF StackSound
<1> QED  BY <1>1 DEF StackSound, Last

LEMMA StackPassed ==
  ASSUME source \in Sources, NEW stored, NEW st, StackSound(st, stored), Last(st).todo # {}
  PROVE  StackSound(Passed(st), stored)
<1>1. FrameSound([Last(st) EXCEPT !.todo = @ \ {Min(@)}], stored)
  BY TopSound, FramePassed
<1> QED  BY <1>1, TopReplaced DEF Passed

LEMMA StackCaptured ==
  ASSUME source \in Sources, NEW stored, NEW st, StackSound(st, stored), Last(st).todo # {},
         NEW e, EntrySound(e), e.name = Min(Last(st).todo), Needs(e) \subseteq stored
  PROVE  StackSound(Captured(st, e), stored)
<1> DEFINE fe == [Last(st) EXCEPT !.entries = @ \cup {e}]
           t  == Front(st) \o <<fe>>
           g  == [fe EXCEPT !.todo = @ \ {Min(@)}]
<1>1. FrameSound(g, stored)
  BY TopSound, FrameCaptured
<1>2. Last(t) = fe /\ Front(t) = Front(st)
  <2>1. IsSeq(st) /\ Len(st) > 0
    BY DEF StackSound
  <2> HIDE DEF fe
  <2> QED  BY <2>1, ReplacedFacts
<1> HIDE DEF fe, t
<1>3. Passed(t) = Front(st) \o <<g>>
  BY <1>2 DEF Passed
<1> HIDE DEF g
<1>4. Captured(st, e) = Passed(t)
  BY DEF Captured, t, fe
<1> QED  BY <1>1, <1>3, <1>4, TopReplaced

(* A directory left by an exception or with its node stored.               *)
LEMMA StackFront ==
  ASSUME NEW stored, NEW st, StackSound(st, stored), Len(st) > 1
  PROVE  /\ StackSound(Front(st), stored) /\ Last(Front(st)).todo # {}
<1>1. IsSeq(st) /\ Len(st) > 0 /\ Len(st) \in Nat
  BY SeqLength DEF StackSound
<1>2. /\ IsSeq(Front(st)) /\ Len(Front(st)) = Len(st) - 1
      /\ \A i \in 1 .. Len(st) - 1 : Front(st)[i] = st[i]
  BY <1>1, FrontFacts
<1>3. /\ Len(Front(st)) > 0 /\ Len(st) - 1 \in 1 .. Len(st) - 1
      /\ 1 .. Len(st) - 1 \subseteq 1 .. Len(st)
      /\ 1 .. (Len(st) - 1) - 1 \subseteq 1 .. Len(st) - 1
  BY <1>1, <1>2
<1>4. \A i \in 1 .. Len(Front(st)) : FrameSound(Front(st)[i], stored)
  BY <1>2, <1>3 DEF StackSound
<1>5. \A i \in 1 .. Len(Front(st)) - 1 : Front(st)[i].todo # {}
  BY <1>2, <1>3 DEF StackSound
<1>6. Last(Front(st)).todo # {}
  BY <1>2, <1>3 DEF StackSound, Last
<1> QED  BY <1>2, <1>3, <1>4, <1>5, <1>6 DEF StackSound

LEMMA StackPushed ==
  ASSUME source \in Sources, NEW stored, NEW st, StackSound(st, stored), Last(st).todo # {},
         NEW path, path \in Paths
  PROVE  StackSound(Append(st, Frame(path)), stored)
<1> DEFINE t == Append(st, Frame(path))
<1>1. IsSeq(st) /\ Len(st) > 0 /\ Len(st) \in Nat
  BY SeqLength DEF StackSound
<1>2. /\ IsSeq(t) /\ Len(t) = Len(st) + 1 /\ t[Len(st) + 1] = Frame(path)
      /\ \A i \in 1 .. Len(st) : t[i] = st[i]
  BY <1>1, AppendFacts
<1> HIDE DEF t
<1>3. FrameSound(Frame(path), stored)
  BY DEF Frame, FrameSound
<1>4. ASSUME NEW i \in 1 .. Len(t)
      PROVE  FrameSound(t[i], stored)
  <2>1. CASE i = Len(st) + 1
    BY <1>2, <1>3, <2>1
  <2>2. CASE i # Len(st) + 1
    <3>1. i \in 1 .. Len(st)
      BY <1>1, <1>2, <2>2
    <3> QED  BY <1>2, <3>1 DEF StackSound
  <2> QED  BY <2>1, <2>2
<1>5. ASSUME NEW i \in 1 .. Len(t) - 1
      PROVE  t[i].todo # {}
  <2>1. i \in 1 .. Len(st) /\ t[i] = st[i]
    BY <1>1, <1>2
  <2>2. CASE i = Len(st)
    BY <2>1, <2>2 DEF Last
  <2>3. CASE i # Len(st)
    <3>1. i \in 1 .. Len(st) - 1
      BY <1>1, <2>1, <2>3
    <3> QED  BY <2>1, <3>1 DEF StackSound
  <2> QED  BY <2>2, <2>3
<1>6. StackSound(t, stored)
  BY <1>1, <1>2, <1>4, <1>5 DEF StackSound
<1> QED  BY <1>6 DEF t

LEMMA StackGrows ==
  ASSUME NEW stored, NEW more, stored \subseteq more, NEW st, StackSound(st, stored)
  PROVE  StackSound(st, more)
BY DEF StackSound, FrameSound

LEMMA StackPrime ==
  ASSUME source' = source, StackSound(stack', chunks')
  PROVE  StackSound(stack, chunks)'
BY DEF StackSound, FrameSound, Listing, Paths

LEMMA ScanFacts ==
  ASSUME ScanInv
  PROVE  /\ source \in Sources /\ StackSound(stack, chunks) /\ IsSeq(stack) /\ Len(stack) > 0
         /\ FrameSound(Top, chunks) /\ Top.path \in Paths
         /\ Top.todo # {} => Name \in Top.todo /\ Name \in Nat /\ Here \in Paths
<1>1. source \in Sources /\ StackSound(stack, chunks) /\ IsSeq(stack) /\ Len(stack) > 0
  BY DEF ScanInv, ScanTypeOK, StackSound
<1>2. FrameSound(Top, chunks) /\ Top.path \in Paths
  <2>1. FrameSound(Top, chunks)
    BY <1>1, TopSound DEF Top
  <2> QED  BY <2>1 DEF FrameSound
<1>3. Top.todo # {} => Name \in Top.todo /\ Name \in Nat /\ Here \in Paths
  BY <1>1, <1>2, FramePassed DEF Name, Here
<1> QED  BY <1>1, <1>2, <1>3

LEMMA LinkSound ==
  ASSUME NEW n \in Nat, NEW goal
  PROVE  EntrySound(LinkEntry(n, goal)) /\ Needs(LinkEntry(n, goal)) = {}
BY DEF EntrySound, LinkEntry, Entry, Needs

LEMMA FileEntrySound ==
  ASSUME NEW n \in Nat, NEW mode, NEW data, IsSeq(data)
  PROVE  /\ EntrySound(FileEntry(n, mode, data))
         /\ Needs(FileEntry(n, mode, data)) = {ChunkId(data[i]) : i \in DOMAIN data}
<1> DEFINE e == FileEntry(n, mode, data)
<1>1. /\ e.name = n /\ e.type = "file" /\ e.hash = data
      /\ e.content = [i \in DOMAIN data |-> ChunkId(data[i])]
      /\ e = Entry(e.name, e.type, e.mode, e.content, e.hash)
  BY DEF FileEntry, Entry
<1> HIDE DEF e
<1>2. Needs(e) = {ChunkId(data[i]) : i \in DOMAIN data}
  BY <1>1 DEF Needs
<1>3. EntrySound(e)
  BY <1>1 DEF EntrySound
<1> QED  BY <1>2, <1>3 DEF e

LEMMA DirEntrySound ==
  ASSUME NEW n \in Nat, NEW mode, NEW node, node[1] = "node"
  PROVE  /\ EntrySound(DirEntry(n, mode, node)) /\ Needs(DirEntry(n, mode, node)) = {node}
         /\ DirEntry(n, mode, node).type = "dir" /\ Subnode(DirEntry(n, mode, node)) = node
<1> DEFINE e == DirEntry(n, mode, node)
<1>1. /\ e.name = n /\ e.type = "dir" /\ e.content = <<node>> /\ e.hash = <<>>
      /\ e = Entry(e.name, e.type, e.mode, e.content, e.hash)
  BY DEF DirEntry, Entry
<1> HIDE DEF e
<1>2. Subnode(e) = node /\ DOMAIN e.content = {1}
  BY <1>1 DEF Subnode
<1>3. Needs(e) = {node}
  BY <1>1, <1>2 DEF Needs, Subnode
<1>4. EntrySound(e)
  BY <1>1, <1>2, <1>3 DEF EntrySound
<1> QED  BY <1>1, <1>2, <1>3, <1>4 DEF e

(* What a put adds leaves the store complete.                              *)
LEMMA StoreGrows ==
  ASSUME NEW stored, \A id \in stored : NodeSound(id), NodesComplete(stored), NEW id,
         id[1] = "node" => \A e \in Entries(id) : EntrySound(e) /\ Needs(e) \subseteq stored
  PROVE  /\ \A x \in stored \cup {id} : NodeSound(x)
         /\ NodesComplete(stored \cup {id})
<1>1. NodeSound(id)
  BY DEF NodeSound
<1>2. NodesComplete(stored \cup {id})
  BY DEF NodesComplete
<1> QED  BY <1>1, <1>2

(* What the open file, a new directory and the store need of a step that   *)
(* touches none of them.                                                   *)
LEMMA ScanRest ==
  ASSUME ScanInv, source' = source, chunks' = chunks, root' = root,
         scan' \in {"walk", "raised"}
  PROVE  FileSound' /\ StoreSound'
<1>1. FileSound'
  BY DEF FileSound
<1>2. StoreSound'
  BY DEF ScanInv, StoreSound, NodesComplete
<1> QED  BY <1>1, <1>2

LEMMA VisitKeeps ==
  ASSUME ScanInv,
         ListDir \/ PassExcluded \/ VisitFails \/ VisitSpecial \/ VisitLink
  PROVE  ScanInv'
<1>1. /\ source \in Sources /\ StackSound(stack, chunks) /\ IsSeq(stack) /\ Len(stack) > 0
      /\ FrameSound(Top, chunks) /\ Top.path \in Paths
      /\ Top.todo # {} => Name \in Top.todo /\ Name \in Nat /\ Here \in Paths
  BY ScanFacts
<1>2. source' = source /\ chunks' = chunks /\ root' = root /\ scan' \in {"walk", "raised"}
  BY DEF ListDir, PassExcluded, VisitFails, VisitSpecial, VisitLink, SkipHere, Visiting, Reached
<1>3. FileSound' /\ StoreSound'
  BY <1>2, ScanRest
<1>4. failures' \in 0 .. MaxScanFailures
  BY ScanAssumption DEF ScanInv, ScanTypeOK, ListDir, PassExcluded, VisitFails, VisitSpecial,
        VisitLink, Raises
<1>5. \A s \in skipped' : s[1] \in Paths
  <2>1. \A s \in skipped : s[1] \in Paths
    BY DEF ScanInv, ScanTypeOK
  <2>2. CASE ListDir
    BY <1>1, <2>1, <2>2 DEF ListDir, Skip
  <2>3. CASE PassExcluded \/ VisitLink
    BY <2>1, <2>3 DEF PassExcluded, VisitLink
  <2>4. CASE VisitFails \/ VisitSpecial
    <3>1. Here \in Paths
      BY <1>1, <2>4 DEF VisitFails, VisitSpecial, Reached, Visiting
    <3> QED  BY <2>1, <2>4, <3>1 DEF VisitFails, VisitSpecial, SkipHere, Skip
  <2> QED  BY <2>2, <2>3, <2>4
<1>6. ScanTypeOK'
  BY <1>1, <1>2, <1>4, <1>5 DEF ScanTypeOK, Paths
<1>7. StackSound(stack', chunks)
  <2>1. CASE ListDir
    <3>1. CASE stack' = stack
      BY <1>1, <3>1
    <3>2. CASE stack' = Front(stack) \o <<[Top EXCEPT !.todo = Listing(Top.path)]>>
      <4> DEFINE g == [Top EXCEPT !.todo = Listing(Top.path)]
      <4>1. Top.entries = {}
        BY <2>1 DEF ScanInv, FileSound, ListDir
      <4>2. g = [path |-> Top.path, todo |-> Listing(Top.path), entries |-> {}]
        BY <1>1, <4>1 DEF FrameSound
      <4> HIDE DEF g
      <4>3. FrameSound(g, chunks)
        BY <1>1, <4>2 DEF FrameSound
      <4>4. stack' = Front(stack) \o <<g>>
        BY <3>2 DEF g
      <4> QED  BY <1>1, <4>3, <4>4, TopReplaced
    <3> QED  BY <2>1, <3>1, <3>2 DEF ListDir
  <2>2. CASE PassExcluded \/ VisitFails \/ VisitSpecial
    <3>1. stack' = Passed(stack) /\ Last(stack).todo # {}
      BY <2>2 DEF PassExcluded, VisitFails, VisitSpecial, SkipHere, Reached, Visiting, Top
    <3> QED  BY <1>1, <3>1, StackPassed
  <2>3. CASE VisitLink
    <3> DEFINE e == LinkEntry(Name, source[Here].data[1])
    <3>1. stack' = Captured(stack, e) /\ Top.todo # {}
      BY <2>3 DEF VisitLink, Reached, Visiting
    <3>2. EntrySound(e) /\ Needs(e) = {}
      BY <1>1, <3>1, LinkSound
    <3>3. e.name = Min(Last(stack).todo)
      BY DEF LinkEntry, Entry, Name, Top
    <3> HIDE DEF e
    <3>4. Last(stack).todo # {} /\ Needs(e) \subseteq chunks
      BY <3>1, <3>2 DEF Top
    <3> QED  BY <1>1, <3>1, <3>2, <3>3, <3>4, StackCaptured
  <2> QED  BY <2>1, <2>2, <2>3
<1>8. StackSound(stack, chunks)'
  BY <1>2, <1>7, StackPrime
<1> QED  BY <1>3, <1>6, <1>8 DEF ScanInv

LEMMA OpenKeeps ==
  ASSUME ScanInv, VisitDir \/ VisitFile
  PROVE  ScanInv'
<1>1. /\ source \in Sources /\ StackSound(stack, chunks) /\ IsSeq(stack) /\ Len(stack) > 0
      /\ FrameSound(Top, chunks) /\ Top.path \in Paths
      /\ Top.todo # {} => Name \in Top.todo /\ Name \in Nat /\ Here \in Paths
  BY ScanFacts
<1>2. /\ source' = source /\ chunks' = chunks /\ root' = root /\ skipped' = skipped
      /\ failures' = failures /\ scan' \in {"list", "file"} /\ Top.todo # {}
  BY DEF VisitDir, VisitFile, Reached, Visiting
<1>3. ScanTypeOK'
  BY <1>2 DEF ScanInv, ScanTypeOK, Paths
<1>4. StoreSound'
  BY <1>2 DEF ScanInv, StoreSound, NodesComplete
<1>5. CASE VisitDir
  <2>1. stack' = Append(stack, Frame(Here)) /\ scan' = "list"
    BY <1>5 DEF VisitDir
  <2>2. StackSound(stack', chunks)
    <3>1. Last(stack).todo # {} /\ Here \in Paths
      BY <1>1, <1>2 DEF Top
    <3> QED  BY <1>1, <2>1, <3>1, StackPushed
  <2>3. Last(stack') = Frame(Here)
    BY <1>1, <2>1, AppendFacts
  <2>4. FileSound'
    <3>1. Top'.todo = {} /\ Top'.entries = {}
      BY <2>3 DEF Top, Frame
    <3> QED  BY <2>1, <3>1 DEF FileSound
  <2> QED  BY <1>2, <1>3, <1>4, <2>2, <2>4, StackPrime DEF ScanInv
<1>6. CASE VisitFile
  <2>1. stack' = stack /\ scan' = "file" /\ file' = <<>>
    BY <1>6 DEF VisitFile
  <2>2. Here \in Paths /\ source[Here].data \in Seq(Range(source[Here].data))
    BY <1>1, <1>2, PathFacts
  <2>3. IsPrefix(<<>>, source[Here].data)
    <3> DEFINE d == source[Here].data
    <3>1. \E X : d \in Seq(X)
      BY <2>2
    <3> HIDE DEF d
    <3>2. IsPrefix(<<>>, d)
      BY <3>1 DEF IsPrefix
    <3> QED  BY <3>2 DEF d
  <2>4. Top' = Top /\ Here' = Here
    BY <1>2, <2>1 DEF Top, Here, Name
  <2>5. FileSound'
    BY <1>2, <2>1, <2>3, <2>4 DEF FileSound
  <2> QED  BY <1>1, <1>2, <1>3, <1>4, <2>1, <2>5, StackPrime DEF ScanInv
<1> QED  BY <1>5, <1>6

LEMMA FileKeeps ==
  ASSUME ScanInv, ScanChunk \/ ScanFails \/ EndFile
  PROVE  ScanInv'
<1>1. /\ source \in Sources /\ StackSound(stack, chunks) /\ IsSeq(stack) /\ Len(stack) > 0
      /\ FrameSound(Top, chunks) /\ Top.path \in Paths
      /\ Top.todo # {} => Name \in Top.todo /\ Name \in Nat /\ Here \in Paths
  BY ScanFacts
<1>2. scan = "file" /\ source' = source /\ root' = root
  BY DEF ScanChunk, ScanFails, EndFile, SkipHere
<1> DEFINE data == source[Here].data
<1>3. /\ Top.todo # {} /\ Here \in Paths /\ file \in Seq(Range(data)) /\ IsPrefix(file, data)
      /\ \A i \in DOMAIN file : ChunkId(file[i]) \in chunks
  BY <1>1, <1>2 DEF ScanInv, FileSound
<1>4. data \in Seq(Range(data))
  BY <1>1, <1>3, PathFacts
<1> HIDE DEF data
<1>5. CASE ScanChunk
  <2> DEFINE c == data[Len(file) + 1]
  <2>1. /\ chunks' = chunks \cup {ChunkId(c)} /\ file' = Append(file, c) /\ Len(file) < Len(data)
        /\ stack' = stack /\ scan' = scan /\ skipped' = skipped /\ failures' = failures
    BY <1>5 DEF ScanChunk, data
  <2>2. ScanTypeOK'
    BY <1>2, <2>1 DEF ScanInv, ScanTypeOK, Paths
  <2>3. StackSound(stack', chunks')
    BY <1>1, <2>1, StackGrows
  <2>4. StoreSound'
    <3>1. ChunkId(c)[1] # "node"
      BY DEF ChunkId
    <3>2. (\A x \in chunks' : NodeSound(x)) /\ NodesComplete(chunks')
      <4>1. (\A id \in chunks : NodeSound(id)) /\ NodesComplete(chunks)
        BY DEF ScanInv, StoreSound
      <4> QED  BY <2>1, <3>1, <4>1, StoreGrows
    <3> QED  BY <1>2, <2>1, <3>2 DEF StoreSound, NodesComplete
  <2>5. FileSound'
    <3> DEFINE S == Range(data)
               n == Len(file)
    <3>1. n \in Nat /\ n + 1 \in 1 .. Len(data) /\ Len(data) \in Nat
      BY <1>3, <1>4, <2>1
    <3>2. c \in S
      BY <1>4, <3>1 DEF Range
    <3> HIDE DEF S, n, c
    <3>3. file' \in Seq(S) /\ Len(file') = n + 1 /\ file'[n + 1] = c
          /\ \A i \in 1 .. n : file'[i] = file[i]
      BY <1>3, <2>1, <3>2 DEF S, n
    <3>6. IsPrefix(file', data)
      <4>1. IsSeq(file) /\ IsSeq(data)
        BY <1>3, <1>4 DEF IsSeq
      <4> QED  BY <1>3, <2>1, <4>1, PrefixGrows DEF c, n
    <3>7. \A i \in DOMAIN file' : ChunkId(file'[i]) \in chunks'
      <4>1. DOMAIN file' = 1 .. n + 1 /\ DOMAIN file = 1 .. n
        BY <1>3, <3>1, <3>3 DEF n
      <4>2. ASSUME NEW i \in 1 .. n + 1
            PROVE  ChunkId(file'[i]) \in chunks'
        <5>1. CASE i = n + 1
          BY <2>1, <3>3, <5>1
        <5>2. CASE i # n + 1
          <6>1. i \in 1 .. n
            BY <3>1, <5>2
          <6> QED  BY <1>3, <2>1, <3>3, <4>1, <6>1
        <5> QED  BY <5>1, <5>2
      <4> QED  BY <4>1, <4>2
    <3>8. Top' = Top /\ Here' = Here
      BY <2>1 DEF Top, Here, Name
    <3>9. source'[Here'].data = data
      BY <1>2, <3>8 DEF data
    <3> QED  BY <1>2, <1>3, <2>1, <3>3, <3>6, <3>7, <3>8, <3>9 DEF FileSound, S
  <2> QED  BY <1>2, <2>2, <2>3, <2>4, <2>5, StackPrime DEF ScanInv
<1>6. CASE ScanFails
  <2>1. /\ stack' = Passed(stack) /\ chunks' = chunks /\ scan' = "walk"
        /\ skipped' = skipped \cup {<<Here, "unread">>}
    BY <1>6 DEF ScanFails, SkipHere, Skip
  <2>2. failures' \in 0 .. MaxScanFailures
    BY <1>6, ScanAssumption DEF ScanInv, ScanTypeOK, ScanFails, Raises
  <2>3. ScanTypeOK'
    BY <1>2, <1>3, <2>1, <2>2 DEF ScanInv, ScanTypeOK, Paths
  <2>4. StackSound(stack', chunks')
    <3>1. Last(stack).todo # {}
      BY <1>3 DEF Top
    <3> QED  BY <1>1, <2>1, <3>1, StackPassed
  <2> QED  BY <1>2, <2>1, <2>3, <2>4, StackPrime, ScanRest DEF ScanInv
<1>7. CASE EndFile
  <2> DEFINE e == FileEntry(Name, source[Here].mode, file)
  <2>1. /\ stack' = Captured(stack, e) /\ chunks' = chunks /\ scan' = "walk"
        /\ skipped' = skipped /\ failures' = failures
    BY <1>7 DEF EndFile
  <2>2. ScanTypeOK'
    BY <1>2, <2>1 DEF ScanInv, ScanTypeOK, Paths
  <2>3. EntrySound(e) /\ Needs(e) \subseteq chunks
    <3>1. IsSeq(file) /\ Name \in Nat
      BY <1>1, <1>3 DEF IsSeq
    <3>2. EntrySound(e) /\ Needs(e) = {ChunkId(file[i]) : i \in DOMAIN file}
      BY <3>1, FileEntrySound
    <3> HIDE DEF e
    <3> QED  BY <1>3, <3>2
  <2>4. e.name = Min(Last(stack).todo) /\ Last(stack).todo # {}
    BY <1>3 DEF FileEntry, Entry, Name, Top
  <2> HIDE DEF e
  <2>5. StackSound(stack', chunks')
    BY <1>1, <2>1, <2>3, <2>4, StackCaptured
  <2> QED  BY <1>2, <2>1, <2>2, <2>5, StackPrime, ScanRest DEF ScanInv
<1> QED  BY <1>5, <1>6, <1>7

LEMMA NodeKeeps ==
  ASSUME ScanInv, StoreNode \/ StoreNodeFails
  PROVE  ScanInv'
<1>1. /\ source \in Sources /\ StackSound(stack, chunks) /\ IsSeq(stack) /\ Len(stack) > 0
      /\ FrameSound(Top, chunks) /\ Top.path \in Paths
  BY ScanFacts
<1>2. scan = "walk" /\ source' = source
  BY DEF StoreNode, StoreNodeFails, EndDir
<1>3. Node[1] = "node" /\ Entries(Node) = Top.entries
  BY DEF Node, NodeId, Entries
<1>4. (\A id \in chunks : NodeSound(id)) /\ NodesComplete(chunks)
  BY DEF ScanInv, StoreSound
<1>5. Nested => /\ StackSound(Front(stack), chunks) /\ Last(Front(stack)).todo # {}
                /\ Min(Last(Front(stack)).todo) \in Nat
  <2>1. ASSUME Nested
        PROVE  StackSound(Front(stack), chunks) /\ Last(Front(stack)).todo # {}
    BY <1>1, <2>1, StackFront DEF Nested
  <2>2. ASSUME Nested
        PROVE  Min(Last(Front(stack)).todo) \in Nat
    <3>1. FrameSound(Last(Front(stack)), chunks)
      BY <2>1, <2>2, TopSound
    <3> QED  BY <1>1, <2>1, <2>2, <3>1, FramePassed
  <2> QED  BY <2>1, <2>2
<1>6. CASE StoreNode
  <2>1. /\ chunks' = chunks \cup {Node} /\ skipped' = skipped /\ failures' = failures
        /\ scan' \in {"walk", "done"}
    BY <1>2, <1>6 DEF StoreNode
  <2>2. ScanTypeOK'
    BY <1>2, <2>1 DEF ScanInv, ScanTypeOK, Paths
  <2>3. (\A x \in chunks' : NodeSound(x)) /\ NodesComplete(chunks')
    <3>1. \A e \in Entries(Node) : EntrySound(e) /\ Needs(e) \subseteq chunks
      BY <1>1, <1>3 DEF FrameSound
    <3> HIDE DEF Node
    <3> QED  BY <1>4, <2>1, <3>1, StoreGrows
  <2>4. StoreSound'
    <3>1. scan' = "done" => root' = Node
      BY <1>2, <1>6 DEF StoreNode
    <3>2. NodesComplete(chunks)'
      BY <2>3 DEF NodesComplete
    <3> HIDE DEF Node
    <3> QED  BY <1>3, <2>1, <2>3, <3>1, <3>2 DEF StoreSound
  <2>5. FileSound'
    BY <2>1 DEF FileSound
  <2>6. StackSound(stack', chunks')
    <3>1. CASE Nested
      <4> DEFINE up == Front(stack)
                 e == DirEntry(Min(Last(up).todo), source[Top.path].mode, Node)
      <4>1. stack' = Captured(up, e)
        BY <1>6, <3>1 DEF StoreNode, Return
      <4>2. EntrySound(e) /\ Needs(e) = {Node}
        BY <1>3, <1>5, <3>1, DirEntrySound
      <4>3. e.name = Min(Last(up).todo)
        BY DEF DirEntry, Entry
      <4>4. StackSound(up, chunks') /\ Last(up).todo # {}
        BY <1>5, <2>1, <3>1, StackGrows
      <4> HIDE DEF up, e
      <4>5. Needs(e) \subseteq chunks'
        BY <2>1, <4>2
      <4> QED  BY <1>1, <4>1, <4>2, <4>3, <4>4, <4>5, StackCaptured
    <3>2. CASE ~Nested
      <4>1. stack' = stack
        BY <1>6, <3>2 DEF StoreNode
      <4> QED  BY <1>1, <2>1, <4>1, StackGrows
    <3> QED  BY <3>1, <3>2
  <2> QED  BY <1>2, <2>2, <2>4, <2>5, <2>6, StackPrime DEF ScanInv
<1>7. CASE StoreNodeFails
  <2>1. /\ chunks' = chunks /\ root' = root /\ scan' \in {"walk", "raised"}
        /\ skipped' \subseteq skipped \cup {<<Top.path, "unread">>}
    BY <1>2, <1>7 DEF StoreNodeFails, Skip
  <2>2. failures' \in 0 .. MaxScanFailures
    BY <1>7, ScanAssumption DEF ScanInv, ScanTypeOK, StoreNodeFails, Raises
  <2>3. ScanTypeOK'
    BY <1>1, <1>2, <2>1, <2>2 DEF ScanInv, ScanTypeOK, Paths
  <2>4. StackSound(stack', chunks')
    <3>1. CASE Nested
      <4>1. stack' = Passed(Front(stack))
        BY <1>7, <3>1 DEF StoreNodeFails
      <4> QED  BY <1>1, <1>5, <2>1, <3>1, <4>1, StackPassed
    <3>2. CASE ~Nested
      <4>1. stack' = stack
        BY <1>7, <3>2 DEF StoreNodeFails
      <4> QED  BY <1>1, <2>1, <4>1
    <3> QED  BY <3>1, <3>2
  <2> QED  BY <1>2, <2>1, <2>3, <2>4, StackPrime, ScanRest DEF ScanInv
<1> QED  BY <1>6, <1>7

(* An exception that leaves the scan changes nothing.                      *)
LEMMA RaiseKeeps ==
  ASSUME ScanInv, PutRaises
  PROVE  ScanInv'
<1>1. /\ source' = source /\ chunks' = chunks /\ root' = root /\ scan' = "raised"
      /\ stack' = stack /\ skipped' = skipped
  BY DEF PutRaises
<1>2. failures' \in 0 .. MaxScanFailures
  BY ScanAssumption DEF ScanInv, ScanTypeOK, PutRaises, Raises
<1>3. ScanTypeOK'
  BY <1>1, <1>2 DEF ScanInv, ScanTypeOK, Paths
<1>4. StackSound(stack, chunks)'
  BY <1>1, StackPrime DEF ScanInv
<1> QED  BY <1>1, <1>3, <1>4, ScanRest DEF ScanInv

LEMMA ScanKeeps ==
  ASSUME ScanInv, ScanStep
  PROVE  ScanInv'
BY VisitKeeps, OpenKeeps, FileKeeps, NodeKeeps, RaiseKeeps DEF ScanStep

-----------------------------------------------------------------------------
(* The restore. *)

Kept == DOMAIN before \ {<<>>, Target}

ItemSound(x) == x = Item(x.type, x.mode, x.data, x.fresh)

(* The path in the snapshot of a path below the target.                    *)
Sought(path) == base \o Tail(path)

(* An entry to be restored at a path is what the snapshot holds there.     *)
EntryFits(path, e) ==
  /\ path[1] = 0
  /\ e.type = "dir" => Subnode(e) \in NodesAt(root, Sought(path))
  /\ e.type = "file" =>
       \E f \in Recorded(Sought(path)) : f.type = "file" /\ f.mode = e.mode /\ f.hash = e.hash

(* A node being restored has a directory of its own in the file system fs, *)
(* none that must stay as it is.                                           *)
NodeFits(fr, fs) ==
  /\ fr = [path |-> fr.path, todo |-> fr.todo]
  /\ fr.path \in Seq(Nat) /\ fr.path \in DOMAIN fs /\ fs[fr.path].type = "dir"
  /\ ~force => fr.path \notin Kept
  /\ \A e \in fr.todo : EntrySound(e) /\ EntryFits(Append(fr.path, e.name), e)

FramesFit(frs, fs) ==
  /\ IsSeq(frs) /\ \A i \in 1 .. Len(frs) : NodeFits(frs[i], fs)
  /\ Len(frs) > 0 => frs[1].path = <<>>

(* So has each directory that is due its metadata.                         *)
DueFits(due, fs) ==
  \A d \in due : /\ d.path \in DOMAIN fs /\ fs[d.path].type = "dir"
                 /\ ~force => d.path \notin Kept

DiskSound(fs) ==
  /\ <<>> \in DOMAIN fs /\ fs[<<>>].type = "dir"
  /\ \A p \in DOMAIN fs : ItemSound(fs[p])

TempSound ==
  restore = "file" =>
    /\ Inner.todo # {} /\ Member.type = "file"
    /\ IsSeq(temp) /\ IsPrefix(temp, Member.hash)
    /\ ~force => Dest \notin Kept

(* The nodes that a scan has stored: those below the root are sound, also  *)
(* when the store has lost them since.                                     *)
Known ==
  /\ root[1] = "node"
  /\ \E ids : root \in ids /\ NodesComplete(ids) /\ \A id \in ids : NodeSound(id)

StackTyped ==
  \A i \in DOMAIN stack :
    /\ stack[i].path \in Paths /\ stack[i].todo \subseteq Listing(stack[i].path)
    /\ {e.name : e \in stack[i].entries} \subseteq Listing(stack[i].path) \ stack[i].todo

RestoreTypeOK ==
  /\ ScanTypeOK /\ StackTyped /\ scan = "done"
  /\ restore \in {"begun", "walk", "file", "dirs", "done", "raised"}
  /\ restore = "begun" => frames = <<>>
  /\ restore \in {"walk", "file"} => Len(frames) > 0
  /\ base \in Seq(Nat)
  /\ errors \in 0 .. MaxRestoreFailures

RestoreInv ==
  /\ RestoreTypeOK /\ Known
  /\ FramesFit(frames, disk) /\ DueFits(dirMeta, disk) /\ DiskSound(disk) /\ TempSound
  /\ NoPartialFile /\ ExistingKept

NotBegun ==
  /\ base = <<>> /\ before = <<>> /\ disk = <<>>
  /\ frames = <<>> /\ dirMeta = {} /\ errors = 0

TreesInv ==
  \/ restore = "idle" /\ NotBegun /\ ScanInv
  \/ restore # "idle" /\ RestoreInv

-----------------------------------------------------------------------------
(* Paths. *)

LEMMA SoughtStep ==
  ASSUME base \in Seq(Nat), NEW path \in Seq(Nat), NEW n \in Nat
  PROVE  /\ Append(path, n) \in Seq(Nat)
         /\ Sought(<<n>>) = base
         /\ Sought(path) \in Seq(Nat) \/ path = <<>>
         /\ path # <<>> => /\ Sought(Append(path, n)) = Append(Sought(path), n)
                           /\ Append(path, n)[1] = path[1]
<1>1. Append(path, n) \in Seq(Nat)
  OBVIOUS
<1>2. Sought(<<n>>) = base
  <2>1. Tail(<<n>>) = <<>>
    OBVIOUS
  <2> QED  BY <2>1, ConcatEmptySeq DEF Sought
<1>3. ASSUME path # <<>>
      PROVE  /\ Sought(path) \in Seq(Nat) /\ Sought(Append(path, n)) = Append(Sought(path), n)
             /\ Append(path, n)[1] = path[1]
  <2> DEFINE longer == Append(path, n)
             t == Tail(path)
             u == Tail(longer)
             s == Append(t, n)
  <2>1. /\ longer \in Seq(Nat) /\ Len(longer) = Len(path) + 1 /\ longer[Len(path) + 1] = n
        /\ \A i \in 1 .. Len(path) : longer[i] = path[i]
        /\ longer # <<>> /\ Len(path) \in Nat /\ Len(path) > 0
    <3>1. path \in Seq(Nat) /\ path # <<>> /\ n \in Nat
      BY <1>3
    <3>2. Len(path) \in Nat /\ Len(path) > 0
      BY ONLY <3>1
    <3>3. /\ longer \in Seq(Nat) /\ Len(longer) = Len(path) + 1 /\ longer[Len(path) + 1] = n
          /\ \A i \in 1 .. Len(path) : longer[i] = path[i]
      BY ONLY <3>1
    <3> HIDE DEF longer
    <3>4. longer # <<>>
      BY ONLY <3>2, <3>3
    <3> QED  BY <3>2, <3>3, <3>4
  <2> HIDE DEF longer
  <2>2. /\ t \in Seq(Nat) /\ Len(t) = Len(path) - 1 /\ \A i \in 1 .. Len(t) : t[i] = path[i + 1]
    BY <1>3, HeadTailProperties
  <2>3. /\ u \in Seq(Nat) /\ Len(u) = Len(path) /\ \A i \in 1 .. Len(u) : u[i] = longer[i + 1]
    <3>1. /\ u \in Seq(Nat) /\ Len(u) = Len(longer) - 1
          /\ \A i \in 1 .. Len(u) : u[i] = longer[i + 1]
      BY <2>1, HeadTailProperties
    <3> QED  BY <2>1, <3>1
  <2> HIDE DEF t, u
  <2>4. /\ s \in Seq(Nat) /\ Len(s) = Len(path) /\ s[Len(path)] = n
        /\ \A i \in 1 .. Len(path) - 1 : s[i] = t[i]
    BY <2>1, <2>2
  <2> HIDE DEF s
  <2>5. \A i \in 1 .. Len(u) : u[i] = s[i]
    <3> SUFFICES ASSUME NEW i \in 1 .. Len(path) PROVE u[i] = s[i]
      BY <2>3
    <3>1. CASE i = Len(path)
      BY <2>1, <2>3, <2>4, <3>1
    <3>2. CASE i # Len(path)
      <4>1. i \in 1 .. Len(path) - 1 /\ i \in 1 .. Len(t) /\ i + 1 \in 1 .. Len(path)
        BY <2>1, <2>2, <3>2
      <4> QED  BY <2>1, <2>2, <2>3, <2>4, <4>1
    <3> QED  BY <3>1, <3>2
  <2>6. u = s
    BY <2>3, <2>4, <2>5, SeqEqual
  <2>7. base \o s = Append(base \o t, n)
    <3> DEFINE l == base \o s
               v == base \o t
               r == Append(v, n)
               b == Len(base)
               m == Len(t)
    <3>1. b \in Nat /\ m \in Nat /\ Len(s) = m + 1
      <4>1. b \in Nat
        OBVIOUS
      <4>2. m \in Nat
        BY <2>2
      <4>3. Len(s) = m + 1
        BY ONLY <2>2, <2>4, <4>2
      <4> QED  BY <4>1, <4>2, <4>3
    <3>2. /\ v \in Seq(Nat) /\ Len(v) = b + m
          /\ \A i \in 1 .. b + m : v[i] = IF i <= b THEN base[i] ELSE t[i - b]
      BY <2>2, ConcatProperties
    <3>3. /\ l \in Seq(Nat) /\ Len(l) = b + Len(s)
          /\ \A i \in 1 .. b + Len(s) : l[i] = IF i <= b THEN base[i] ELSE s[i - b]
      BY <2>4, ConcatProperties
    <3> HIDE DEF l, v, b, m
    <3>4. /\ r \in Seq(Nat) /\ Len(r) = (b + m) + 1 /\ r[(b + m) + 1] = n
          /\ \A i \in 1 .. b + m : r[i] = v[i]
      BY <3>1, <3>2
    <3> HIDE DEF r
    <3>5. s[m + 1] = n /\ \A i \in 1 .. m : s[i] = t[i]
      BY <2>1, <2>2, <2>4, <3>1 DEF m
    <3>6. ASSUME NEW i \in 1 .. b + (m + 1)
          PROVE  l[i] = r[i]
      <4>1. CASE i = b + (m + 1)
        <5>1. ~(i <= b) /\ i - b = m + 1 /\ i = (b + m) + 1
          BY <3>1, <4>1
        <5> QED  BY <3>1, <3>3, <3>4, <3>5, <5>1
      <4>2. CASE i <= b
        <5>1. i \in 1 .. b + m
          BY <3>1, <4>2
        <5> QED  BY <3>1, <3>2, <3>3, <3>4, <4>2, <5>1
      <4>3. CASE i > b /\ i # b + (m + 1)
        <5>1. i - b \in 1 .. m /\ i \in 1 .. b + m /\ ~(i <= b)
          BY <3>1, <4>3
        <5> QED  BY <3>1, <3>2, <3>3, <3>4, <3>5, <5>1
      <4> QED  BY <3>1, <4>1, <4>2, <4>3
    <3>7. Len(l) = Len(r) /\ Len(l) = b + (m + 1)
      BY <3>1, <3>3, <3>4
    <3>8. l = r
      BY <3>3, <3>4, <3>6, <3>7, SeqEqual
    <3> QED  BY <3>8 DEF l, r, v
  <2>8. base \o t \in Seq(Nat)
    BY <2>2
  <2>9. longer[1] = path[1]
    BY <2>1
  <2> QED  BY <2>6, <2>7, <2>8, <2>9 DEF Sought, longer, t, u, s
<1> QED  BY <1>1, <1>2, <1>3

(* A file under its name.                                                  *)
LEMMA UnderTarget ==
  ASSUME NEW path \in Seq(Nat), path # <<>>, path[1] = 0
  PROVE  IsPrefix(Target, path)
<1>1. Len(path) \in Nat /\ Len(path) > 0
  OBVIOUS
<1>2. Len(Target) = 1 /\ Target[1] = 0 /\ Target \in Seq(Nat)
  BY DEF Target
<1>3. SubSeq(path, 1, 1) = SubSeq(Target, 1, 1)
  <2>1. SubSeq(path, 1, 1) \in Seq(Nat) /\ Len(SubSeq(path, 1, 1)) = 1
        /\ SubSeq(path, 1, 1)[1] = path[1]
    BY <1>1
  <2>2. SubSeq(Target, 1, 1) \in Seq(Nat) /\ Len(SubSeq(Target, 1, 1)) = 1
        /\ SubSeq(Target, 1, 1)[1] = Target[1]
    BY <1>2
  <2>3. \A i \in 1 .. 1 : SubSeq(path, 1, 1)[i] = SubSeq(Target, 1, 1)[i]
    BY <1>2, <2>1, <2>2
  <2> QED  BY <2>1, <2>2, <2>3, SeqEqual
<1> QED  BY <1>1, <1>2, <1>3 DEF IsPrefix

-----------------------------------------------------------------------------
(* What the snapshot holds. *)

(* A node that a path leads to is sound.                                   *)
LEMMA KnownBelow ==
  ASSUME Known, NEW path \in Seq(Nat), NEW node \in NodesAt(root, path)
  PROVE  \A e \in Entries(node) : EntrySound(e)
<1>1. PICK ids : root \in ids /\ NodesComplete(ids) /\ \A id \in ids : NodeSound(id)
  BY DEF Known
<1> DEFINE Good(n) == n \in ids /\ n[1] = "node"
           len == Len(path)
<1>2. len \in Nat
  OBVIOUS
<1>3. PICK at : Leads(at, len, root, path) /\ NodesAt(root, path) = at[len]
  BY <1>2, NodesAtChain
<1> HIDE DEF len
<1>4. at[0] = {root} /\ \A k \in 1 .. len : at[k] = Into(at[k - 1], path[k])
  BY <1>2, <1>3, LeadsFacts
<1> DEFINE S == {k \in 0 .. len : \E n \in at[k] : ~Good(n)}
<1>5. ASSUME S # {} PROVE FALSE
  <2>1. PICK k \in S : \A j \in S : k <= j
    <3>1. S \in SUBSET Nat
      OBVIOUS
    <3> HIDE DEF S
    <3> QED  BY <1>5, <3>1, LeastOf
  <2>2. k # 0
    BY <1>1, <1>4 DEF Known
  <2>3. k \in 1 .. len /\ k - 1 \in 0 .. len /\ k - 1 \notin S
    BY <1>2, <2>1, <2>2
  <2>4. \A n \in at[k - 1] : Good(n)
    BY <2>3
  <2>5. PICK n \in at[k] : ~Good(n)
    BY <2>1
  <2>6. PICK m \in at[k - 1] : \E e \in Entries(m) : IsDirEntry(e) /\ n = Subnode(e)
    BY <1>4, <2>3, <2>5 DEF Into
  <2> PICK e \in Entries(m) : IsDirEntry(e) /\ n = Subnode(e)
    BY <2>6
  <2>7. m \in ids /\ m[1] = "node"
    BY <2>4, <2>6
  <2>8. EntrySound(e) /\ Needs(e) \subseteq ids
    BY <1>1, <2>6, <2>7 DEF NodeSound, NodesComplete
  <2>9. n \in ids /\ n[1] = "node"
    BY <2>6, <2>8 DEF EntrySound, IsDirEntry
  <2> QED  BY <2>5, <2>9
<1>6. Good(node)
  <2>1. len \in 0 .. len
    BY <1>2
  <2> QED  BY <1>3, <1>5, <2>1
<1> QED  BY <1>1, <1>6 DEF NodeSound

(* From an entry for a directory to those in it.                           *)
LEMMA FitsBelow ==
  ASSUME Known, base \in Seq(Nat), NEW path \in Seq(Nat), path # <<>>,
         NEW e, e.type = "dir", EntryFits(path, e), NEW g \in Entries(Subnode(e))
  PROVE  EntrySound(g) /\ EntryFits(Append(path, g.name), g)
<1> DEFINE node == Subnode(e)
           n == g.name
           at == Sought(path)
<1>1. path[1] = 0 /\ node \in NodesAt(root, at) /\ g \in Entries(node)
  BY DEF EntryFits
<1>2. at \in Seq(Nat)
  BY SoughtStep
<1> HIDE DEF at, node
<1>3. EntrySound(g)
  BY <1>1, <1>2, KnownBelow
<1>4. n \in Nat
  BY <1>3 DEF EntrySound
<1>5. Sought(Append(path, n)) = Append(at, n) /\ Append(path, n)[1] = 0
  BY <1>1, <1>4, SoughtStep DEF at
<1>6. IsSeq(at)
  BY <1>2 DEF IsSeq
<1>7. g.type = "dir" => Subnode(g) \in NodesAt(root, Append(at, n))
  <2>1. NodesAt(root, Append(at, n)) = Into(NodesAt(root, at), n)
    BY <1>6, NodesAtStep
  <2> QED  BY <1>1, <2>1 DEF Into, IsDirEntry
<1>8. g \in Recorded(Append(at, n))
  <2>1. Front(Append(at, n)) = at /\ Last(Append(at, n)) = n
    BY <1>6, AppendFacts
  <2> QED  BY <1>1, <2>1 DEF Recorded, EntriesAt
<1> QED  BY <1>3, <1>5, <1>7, <1>8 DEF EntryFits

(* What is asked for is restored as the target.                            *)
LEMMA FitsTarget ==
  ASSUME Known, base \in Seq(Nat),
         NEW e \in IF Whole THEN {DirEntry(0, "open", root)} ELSE Recorded(base)
  PROVE  LET g == [e EXCEPT !.name = 0] IN
         g.name = 0 /\ EntrySound(g) /\ EntryFits(<<0>>, g)
<1> DEFINE g == [e EXCEPT !.name = 0]
<1>1. Sought(<<0>>) = base /\ <<0>>[1] = 0
  BY SoughtStep
<1>2. CASE Whole
  <2>1. e = DirEntry(0, "open", root) /\ root[1] = "node"
    BY <1>2 DEF Known
  <2>2. EntrySound(e) /\ e.type = "dir" /\ Subnode(e) = root /\ e.name = 0
    <3>1. /\ EntrySound(DirEntry(0, "open", root)) /\ DirEntry(0, "open", root).type = "dir"
          /\ Subnode(DirEntry(0, "open", root)) = root
      BY <2>1, DirEntrySound
    <3>2. DirEntry(0, "open", root).name = 0
      BY DEF DirEntry, Entry
    <3> QED  BY <2>1, <3>1, <3>2
  <2>3. g = e
    BY <2>2 DEF EntrySound, Entry
  <2>4. root \in NodesAt(root, base)
    <3>1. NodesAt(root, <<>>) = {root}
      BY NodesAtStep DEF IsSeq
    <3> QED  BY <1>2, <3>1 DEF Whole
  <2> HIDE DEF g
  <2> QED  BY <1>1, <2>2, <2>3, <2>4 DEF EntryFits, g
<1>3. CASE ~Whole
  <2>1. PICK node \in NodesAt(root, Front(base)) : e \in Entries(node) /\ e.name = Last(base)
    BY <1>3 DEF Recorded, EntriesAt
  <2>2. Front(base) \in Seq(Nat) /\ base = Append(Front(base), Last(base))
    BY <1>3, FrontLast DEF Whole
  <2>3. EntrySound(e)
    BY <2>1, <2>2, KnownBelow
  <2>4. /\ g = Entry(0, e.type, e.mode, e.content, e.hash)
        /\ g.name = 0 /\ g.type = e.type /\ g.mode = e.mode /\ g.content = e.content
        /\ g.hash = e.hash
    BY <2>3 DEF EntrySound, Entry
  <2> HIDE DEF g
  <2>5. EntrySound(g) /\ Subnode(g) = Subnode(e)
    <3>1. Subnode(g) = Subnode(e) /\ Needs(g) = Needs(e)
      BY <2>4 DEF Needs, Subnode
    <3>2. g = Entry(g.name, g.type, g.mode, g.content, g.hash)
      BY <2>4
    <3> QED  BY <2>3, <2>4, <3>1, <3>2 DEF EntrySound
  <2>6. e.type = "dir" => Subnode(e) \in NodesAt(root, base)
    <3>1. IsSeq(Front(base))
      BY <2>2 DEF IsSeq
    <3>2. NodesAt(root, Append(Front(base), Last(base))) = Into(NodesAt(root, Front(base)), Last(base))
      BY <3>1, NodesAtStep
    <3> QED  BY <2>1, <2>2, <3>2 DEF Into, IsDirEntry
  <2>7. e \in Recorded(base)
    BY <1>3
  <2> QED  BY <1>1, <2>4, <2>5, <2>6, <2>7 DEF EntryFits, g
<1> QED  BY <1>2, <1>3

-----------------------------------------------------------------------------
(* The file system. *)

(* All that a step does to it: an item at one path, and times that change. *)
Grows(old, new, at) ==
  /\ DOMAIN old \subseteq DOMAIN new
  /\ DiskSound(new)
  /\ \A p \in DOMAIN old : old[p].type = "dir" => new[p].type = "dir"
  /\ \A p \in DOMAIN new : new[p].type = "file" => p = at \/ (p \in DOMAIN old /\ new[p] = old[p])
  /\ ~force => \A p \in Kept : p \in DOMAIN old => new[p] = old[p]

LEMMA SameGrows ==
  ASSUME NEW fs, DiskSound(fs), NEW at
  PROVE  Grows(fs, fs, at)
BY DEF Grows

LEMMA TouchedGrows ==
  ASSUME DiskSound(disk), NEW path, IsDir(Front(path)), ~force => Front(path) \notin Kept
  PROVE  /\ Grows(disk, Touched(path), path)
         /\ DOMAIN Touched(path) = DOMAIN disk
<1> DEFINE new == Touched(path)
           q == Front(path)
<1>1. DOMAIN new = DOMAIN disk /\ \A p \in DOMAIN disk : p # q => new[p] = disk[p]
  BY DEF Touched
<1>2. new[q] = [disk[q] EXCEPT !.fresh = TRUE] /\ q \in DOMAIN disk /\ disk[q].type = "dir"
  BY DEF Touched, IsDir, Exists
<1>3. disk[q] = Item(disk[q].type, disk[q].mode, disk[q].data, disk[q].fresh)
  BY <1>2 DEF DiskSound, ItemSound
<1> HIDE DEF new, q
<1>4. new[q] = Item(disk[q].type, disk[q].mode, disk[q].data, TRUE)
  BY <1>2, <1>3 DEF Item
<1>5. new[q].type = "dir" /\ ItemSound(new[q])
  BY <1>2, <1>4 DEF Item, ItemSound
<1>6. DiskSound(new)
  BY <1>1, <1>5 DEF DiskSound
<1>7. Grows(disk, new, path)
  BY <1>1, <1>2, <1>5, <1>6 DEF Grows, q
<1> QED  BY <1>1, <1>7 DEF new

LEMMA MadeGrows ==
  ASSUME DiskSound(disk), NEW path, IsDir(Front(path)), ~force => Front(path) \notin Kept,
         NEW item, ItemSound(item), IsDir(path) => item.type = "dir", ~force => path \notin Kept
  PROVE  /\ Grows(disk, Made(path, item), path)
         /\ path \in DOMAIN Made(path, item) /\ Made(path, item)[path] = item
<1> DEFINE new == Made(path, item)
           mid == Touched(path)
<1>1. Grows(disk, mid, path) /\ DOMAIN mid = DOMAIN disk
  BY TouchedGrows
<1>2. /\ DOMAIN new = DOMAIN disk \cup {path} /\ new[path] = item
      /\ \A p \in DOMAIN disk : p # path => new[p] = mid[p]
  BY DEF Made
<1> HIDE DEF new, mid
<1>3. DiskSound(new)
  BY <1>1, <1>2 DEF Grows, DiskSound, IsDir, Exists
<1>4. \A p \in DOMAIN disk : disk[p].type = "dir" => new[p].type = "dir"
  BY <1>1, <1>2 DEF Grows, IsDir, Exists
<1>5. \A p \in DOMAIN new : new[p].type = "file" =>
        p = path \/ (p \in DOMAIN disk /\ new[p] = disk[p])
  <2> SUFFICES ASSUME NEW p \in DOMAIN new, new[p].type = "file", p # path
               PROVE  p \in DOMAIN disk /\ new[p] = disk[p]
    OBVIOUS
  <2>1. p \in DOMAIN mid /\ new[p] = mid[p]
    BY <1>1, <1>2
  <2> QED  BY <1>1, <2>1 DEF Grows
<1>6. ASSUME ~force, NEW p \in Kept, p \in DOMAIN disk
      PROVE  new[p] = disk[p]
  BY <1>1, <1>2, <1>6 DEF Grows
<1>7. Grows(disk, new, path)
  BY <1>2, <1>3, <1>4, <1>5, <1>6 DEF Grows
<1> QED  BY <1>2, <1>7 DEF new

LEMMA FramesGrow ==
  ASSUME NEW old, NEW new, NEW at, Grows(old, new, at), NEW frs, FramesFit(frs, old)
  PROVE  FramesFit(frs, new)
BY DEF Grows, FramesFit, NodeFits

LEMMA DueGrows ==
  ASSUME NEW old, NEW new, NEW at, Grows(old, new, at), NEW due, DueFits(due, old)
  PROVE  DueFits(due, new)
BY DEF Grows, DueFits

(* A file that has just got its name.                                      *)
Landed(at) ==
  at \in DOMAIN disk /\ disk[at].type = "file" =>
    \/ at \in DOMAIN before /\ disk[at] = before[at]
    \/ /\ IsPrefix(Target, at)
       /\ \E e \in Recorded(base \o Tail(at)) : Restored(at, e) /\ e.mode = disk[at].mode

(* A step that leaves the request as it is.                                *)
SameRequest == UNCHANGED <<scanVars, base, force, before>>

LEMMA FilesKept ==
  ASSUME RestoreInv, SameRequest, NEW at, Grows(disk, disk', at), Landed(at)'
  PROVE  NoPartialFile' /\ ExistingKept'
<1>1. base' = base /\ force' = force /\ before' = before /\ root' = root
  BY DEF SameRequest, scanVars
<1>2. NoPartialFile'
  <2> SUFFICES ASSUME NEW p \in DOMAIN disk', disk'[p].type = "file"
               PROVE  \/ p \in DOMAIN before /\ disk'[p] = before[p]
                      \/ /\ IsPrefix(Target, p)
                         /\ \E e \in Recorded(base \o Tail(p))' :
                              Restored(p, e)' /\ e.mode = disk'[p].mode
    BY <1>1 DEF NoPartialFile
  <2>1. CASE p = at
    BY <1>1, <2>1 DEF Landed
  <2>2. CASE p # at
    <3>1. p \in DOMAIN disk /\ disk'[p] = disk[p]
      BY <2>2 DEF Grows
    <3>2. \/ p \in DOMAIN before /\ disk[p] = before[p]
          \/ /\ IsPrefix(Target, p)
             /\ \E e \in Recorded(base \o Tail(p)) : Restored(p, e) /\ e.mode = disk[p].mode
      BY <3>1 DEF RestoreInv, NoPartialFile
    <3>3. \A e : Restored(p, e) => Restored(p, e)'
      BY <3>1 DEF Restored, Exists
    <3>4. Recorded(base \o Tail(p))' = Recorded(base \o Tail(p))
      BY <1>1 DEF Recorded
    <3> QED  BY <3>1, <3>2, <3>3, <3>4
  <2> QED  BY <2>1, <2>2
<1>3. ExistingKept'
  <2> SUFFICES ASSUME ~force, NEW p \in Kept
               PROVE  p \in DOMAIN disk' /\ disk'[p] = before[p]
    BY <1>1 DEF ExistingKept, Exists, Kept
  <2>1. p \in DOMAIN disk /\ disk[p] = before[p]
    BY DEF RestoreInv, ExistingKept, Exists, Kept
  <2> QED  BY <2>1 DEF Grows
<1> QED  BY <1>2, <1>3

LEMMA RequestPrime ==
  ASSUME SameRequest
  PROVE  /\ FramesFit(frames', disk') => FramesFit(frames, disk)'
         /\ DueFits(dirMeta', disk') => DueFits(dirMeta, disk)'
         /\ DiskSound(disk') => DiskSound(disk)'
<1>1. base' = base /\ force' = force /\ before' = before /\ root' = root
  BY DEF SameRequest, scanVars
<1>2. \A path, e : EntryFits(path, e) => EntryFits(path, e)'
  BY <1>1 DEF EntryFits, Sought, Recorded
<1>3. Kept' = Kept
  BY <1>1 DEF Kept
<1>4. \A fr : NodeFits(fr, disk') => NodeFits(fr, disk)'
  <2> SUFFICES ASSUME NEW fr, NodeFits(fr, disk') PROVE NodeFits(fr, disk)'
    OBVIOUS
  <2>1. \A e \in fr.todo : EntrySound(e) /\ EntryFits(Append(fr.path, e.name), e)'
    BY <1>2 DEF NodeFits
  <2> QED  BY <1>1, <1>3, <2>1 DEF NodeFits
<1>5. FramesFit(frames', disk') => FramesFit(frames, disk)'
  BY <1>4 DEF FramesFit
<1> QED  BY <1>1, <1>3, <1>5 DEF DueFits, DiskSound

(* What a step must show. *)
LEMMA StepKeeps ==
  ASSUME RestoreInv, SameRequest, restore' \in {"walk", "file", "dirs", "done", "raised"},
         errors' \in 0 .. MaxRestoreFailures,
         restore' \in {"walk", "file"} => Len(frames') > 0,
         NEW at, Grows(disk, disk', at), Landed(at)',
         FramesFit(frames', disk'), DueFits(dirMeta', disk'), TempSound'
  PROVE  RestoreInv'
<1>1. /\ base' = base /\ root' = root /\ scan' = scan /\ source' = source /\ stack' = stack
      /\ skipped' = skipped /\ failures' = failures
  BY DEF SameRequest, scanVars
<1>2. RestoreTypeOK'
  <2>1. ScanTypeOK' /\ StackTyped'
    BY <1>1 DEF RestoreInv, RestoreTypeOK, ScanTypeOK, StackTyped, Listing, Paths
  <2> QED  BY <1>1, <2>1 DEF RestoreInv, RestoreTypeOK
<1>3. Known'
  BY <1>1 DEF RestoreInv, Known
<1>4. DiskSound(disk')
  BY DEF Grows
<1> QED  BY <1>2, <1>3, <1>4, FilesKept, RequestPrime DEF RestoreInv

-----------------------------------------------------------------------------
(* Entries. *)

LEMMA FramesPushed ==
  ASSUME NEW fs, NEW frs, FramesFit(frs, fs), NEW fr, NodeFits(fr, fs),
         Len(frs) = 0 => fr.path = <<>>
  PROVE  FramesFit(Append(frs, fr), fs) /\ Len(Append(frs, fr)) > 0
<1> DEFINE t == Append(frs, fr)
<1>1. IsSeq(frs) /\ Len(frs) \in Nat
  BY SeqLength DEF FramesFit
<1>2. IsSeq(t) /\ Len(t) = Len(frs) + 1 /\ t[Len(frs) + 1] = fr
      /\ \A i \in 1 .. Len(frs) : t[i] = frs[i]
  BY <1>1, AppendFacts
<1> HIDE DEF t
<1>3. ASSUME NEW i \in 1 .. Len(t)
      PROVE  NodeFits(t[i], fs)
  <2>1. CASE i = Len(frs) + 1
    BY <1>2, <2>1
  <2>2. CASE i # Len(frs) + 1
    <3>1. i \in 1 .. Len(frs)
      BY <1>1, <1>2, <2>2
    <3> QED  BY <1>2, <3>1 DEF FramesFit
  <2> QED  BY <2>1, <2>2
<1>4. t[1].path = <<>>
  <2>1. CASE Len(frs) = 0
    BY <1>2, <2>1
  <2>2. CASE Len(frs) # 0
    <3>1. Len(frs) > 0 /\ 1 \in 1 .. Len(frs)
      BY <1>1, <2>2
    <3> QED  BY <1>2, <3>1 DEF FramesFit
  <2> QED  BY <2>1, <2>2
<1>5. FramesFit(t, fs) /\ Len(t) > 0
  BY <1>1, <1>2, <1>3, <1>4 DEF FramesFit
<1> QED  BY <1>5 DEF t

LEMMA FramesPopped ==
  ASSUME NEW fs, NEW frs, FramesFit(frs, fs), Len(frs) > 0
  PROVE  FramesFit(Front(frs), fs) /\ NodeFits(Last(frs), fs)
         /\ Len(frs) \in Nat /\ Len(Front(frs)) = Len(frs) - 1
         /\ (Len(frs) = 1 => Last(frs).path = <<>>)
<1>1. IsSeq(frs) /\ Len(frs) \in Nat
  BY SeqLength DEF FramesFit
<1>2. /\ IsSeq(Front(frs)) /\ Len(Front(frs)) = Len(frs) - 1
      /\ \A i \in 1 .. Len(frs) - 1 : Front(frs)[i] = frs[i]
  BY <1>1, FrontFacts
<1>3. 1 .. Len(frs) - 1 \subseteq 1 .. Len(frs) /\ Len(frs) \in 1 .. Len(frs)
  BY <1>1
<1>4. FramesFit(Front(frs), fs)
  <2>1. ASSUME Len(Front(frs)) > 0 PROVE Front(frs)[1].path = <<>>
    <3>1. 1 \in 1 .. Len(frs) - 1
      BY <1>1, <1>2, <2>1
    <3> QED  BY <1>2, <3>1 DEF FramesFit
  <2> QED  BY <1>2, <1>3, <2>1 DEF FramesFit
<1>5. NodeFits(Last(frs), fs)
  BY <1>3 DEF FramesFit, Last
<1>6. Len(frs) = 1 => Last(frs).path = <<>>
  BY DEF FramesFit, Last
<1> QED  BY <1>1, <1>2, <1>4, <1>5, <1>6

AtMember == restore \in {"walk", "file"} /\ Inner.todo # {}

LEMMA MemberFacts ==
  ASSUME RestoreInv, AtMember
  PROVE  /\ NodeFits(Inner, disk) /\ Member \in Inner.todo /\ Member.name \in Nat
         /\ EntrySound(Member) /\ EntryFits(Dest, Member)
         /\ Dest \in Seq(Nat) /\ Dest # <<>> /\ IsDir(Front(Dest))
         /\ ~force => Front(Dest) \notin Kept
<1>1. NodeFits(Inner, disk)
  BY FramesPopped DEF RestoreInv, RestoreTypeOK, AtMember, Inner
<1> DEFINE T == Inner.todo
           names == {e.name : e \in T}
<1>2. T # {} /\ \A e \in T : EntrySound(e) /\ e.name \in Nat
  BY <1>1 DEF NodeFits, EntrySound, AtMember
<1>3. Member \in T
  <2> HIDE DEF T
  <2>1. names \in SUBSET Nat /\ names # {}
    BY <1>2
  <2>2. Min(names) \in names /\ \A k \in names : Min(names) <= k
    <3> HIDE DEF names
    <3> QED  BY <2>1, LeastOf
  <2>3. \E e \in T : \A f \in T : e.name <= f.name
    BY <2>2
  <2>4. Member = CHOOSE e \in T : \A f \in T : e.name <= f.name
    BY DEF Member, T
  <2> QED  BY <2>3, <2>4
<1>4. Member.name \in Nat /\ EntrySound(Member) /\ EntryFits(Dest, Member)
  BY <1>1, <1>2, <1>3 DEF NodeFits, Dest
<1>5. Inner.path \in Seq(Nat) /\ IsSeq(Inner.path)
  BY <1>1 DEF NodeFits, IsSeq
<1>6. Dest \in Seq(Nat) /\ Dest # <<>> /\ Front(Dest) = Inner.path
  <2>1. Dest \in Seq(Nat) /\ Dest # <<>>
    BY <1>4, <1>5 DEF Dest
  <2> QED  BY <1>5, <2>1, AppendFacts DEF Dest
<1>7. IsDir(Front(Dest)) /\ (~force => Front(Dest) \notin Kept)
  BY <1>1, <1>6 DEF NodeFits, IsDir, Exists
<1> QED  BY <1>1, <1>3, <1>4, <1>6, <1>7

(* An entry done.                                                          *)
LEMMA DroppedFits ==
  ASSUME RestoreInv, AtMember
  PROVE  FramesFit(Dropped, disk) /\ Len(Dropped) > 0
<1> DEFINE fr == [Inner EXCEPT !.todo = @ \ {Member}]
<1>1. FramesFit(frames, disk) /\ Len(frames) > 0 /\ IsSeq(frames)
  BY DEF RestoreInv, RestoreTypeOK, AtMember, FramesFit
<1>2. NodeFits(Inner, disk)
  BY <1>1, FramesPopped DEF Inner
<1>3. fr = [path |-> Inner.path, todo |-> Inner.todo \ {Member}]
  <2>1. Inner = [path |-> Inner.path, todo |-> Inner.todo]
    BY <1>2 DEF NodeFits
  <2>2. \A g, x : g = [path |-> g.path, todo |-> g.todo] =>
                   [g EXCEPT !.todo = @ \ {x}] = [path |-> g.path, todo |-> g.todo \ {x}]
    OBVIOUS
  <2> QED  BY <2>1, <2>2
<1>4. fr.path = Inner.path /\ fr.todo = Inner.todo \ {Member}
  BY <1>3
<1> HIDE DEF fr
<1>5. NodeFits(fr, disk)
  BY <1>2, <1>3, <1>4 DEF NodeFits
<1>6. Dropped = Append(Front(frames), fr)
  <2>1. Dropped = Front(frames) \o <<fr>>
    BY DEF Dropped, fr
  <2>2. PICK X : Front(frames) \in Seq(X)
    BY <1>1, FrontFacts DEF IsSeq
  <2> DEFINE Y == X \cup {fr}
  <2>3. Front(frames) \in Seq(Y) /\ fr \in Y
    BY <2>2
  <2> HIDE DEF Y
  <2> QED  BY <2>1, <2>3, AppendIsConcat
<1>7. FramesFit(Front(frames), disk) /\ (Len(Front(frames)) = 0 => fr.path = <<>>)
  <2>1. /\ FramesFit(Front(frames), disk) /\ Len(Front(frames)) = Len(frames) - 1
        /\ Len(frames) \in Nat /\ (Len(frames) = 1 => Inner.path = <<>>)
    BY <1>1, FramesPopped DEF Inner
  <2> QED  BY <1>4, <2>1
<1> QED  BY <1>5, <1>6, <1>7, FramesPushed

LEMMA FailFits ==
  ASSUME RestoreInv, AtMember, FailEntry
  PROVE  /\ restore' \in {"walk", "raised"}
         /\ FramesFit(frames', disk) /\ Len(frames') > 0
<1>1. FramesFit(Dropped, disk) /\ Len(Dropped) > 0
  BY DroppedFits
<1> HIDE DEF Dropped
<1> QED  BY <1>1 DEF FailEntry, RestoreInv, RestoreTypeOK, AtMember

-----------------------------------------------------------------------------
(* Every step of a restore keeps the invariant. *)

LEMMA RefusedNot ==
  ASSUME RestoreInv, AtMember, ~Refused
  PROVE  ~force => Dest \notin Kept
<1> SUFFICES ASSUME ~force, Dest \in Kept PROVE FALSE
  OBVIOUS
<1>1. Exists(Dest) /\ Dest # Target
  BY DEF RestoreInv, ExistingKept, Kept
<1> QED  BY <1>1 DEF Refused

LEMMA SameDisk ==
  ASSUME RestoreInv, SameRequest, disk' = disk,
         restore' \in {"walk", "file", "dirs", "done", "raised"},
         errors' \in 0 .. MaxRestoreFailures,
         restore' \in {"walk", "file"} => Len(frames') > 0,
         FramesFit(frames', disk), DueFits(dirMeta', disk), TempSound'
  PROVE  RestoreInv'
<1>1. DiskSound(disk)
  BY DEF RestoreInv
<1>2. Grows(disk, disk', <<>>)
  BY <1>1, SameGrows
<1>3. Landed(<<>>)'
  BY <1>1 DEF Landed, DiskSound
<1> QED  BY <1>2, <1>3, StepKeeps

LEMMA RefuseKeeps ==
  ASSUME RestoreInv, RefuseEntry \/ EntryRaises \/ FileRaises
  PROVE  RestoreInv'
<1>1. AtMember /\ FailEntry
  BY DEF RefuseEntry, EntryRaises, FileRaises, AtEntry, AtMember, RestoreInv, TempSound
<1>2. SameRequest /\ disk' = disk /\ dirMeta' = dirMeta
  BY DEF RefuseEntry, EntryRaises, FileRaises, SameRequest
<1>3. errors' \in 0 .. MaxRestoreFailures
  BY RestoreAssumption
     DEF RefuseEntry, EntryRaises, FileRaises, Raising, RestoreInv, RestoreTypeOK
<1>4. restore' \in {"walk", "raised"} /\ FramesFit(frames', disk) /\ Len(frames') > 0
  BY <1>1, FailFits
<1>5. TempSound'
  BY <1>4 DEF TempSound
<1>6. DueFits(dirMeta', disk)
  BY <1>2 DEF RestoreInv
<1> QED  BY <1>2, <1>3, <1>4, <1>5, <1>6, SameDisk

LEMMA DirKeeps ==
  ASSUME RestoreInv, RestoreDir
  PROVE  RestoreInv'
<1>1. AtMember /\ ~Refused /\ Member.type = "dir" /\ restore = "walk"
  BY DEF RestoreDir, Restoring, AtEntry, AtMember
<1>2. /\ SameRequest /\ errors' \in 0 .. MaxRestoreFailures
  BY DEF RestoreDir, SameRequest, RestoreInv, RestoreTypeOK
<1>3. ~force => Dest \notin Kept
  BY <1>1, RefusedNot
<1>4. /\ Dest \in Seq(Nat) /\ Dest # <<>> /\ IsDir(Front(Dest)) /\ (~force => Front(Dest) \notin Kept)
      /\ EntryFits(Dest, Member)
  BY <1>1, MemberFacts
<1>5. FramesFit(frames, disk) /\ DueFits(dirMeta, disk) /\ DiskSound(disk) /\ Known /\ base \in Seq(Nat)
  BY DEF RestoreInv, RestoreTypeOK
<1>6. CASE Open(Dest) /\ (IsDir(Dest) \/ ~Exists(Dest))
  <2> DEFINE due == [path |-> Dest, mode |-> Member.mode]
             below == [path |-> Dest, todo |-> Entries(Subnode(Member))]
  <2>1. /\ disk' = IF IsDir(Dest) THEN disk ELSE Made(Dest, Item("dir", "open", <<>>, TRUE))
        /\ dirMeta' \subseteq dirMeta \cup {due}
        /\ IF Subnode(Member) \in chunks
           THEN frames' = Append(Dropped, below) /\ restore' = restore
           ELSE FailEntry
    BY <1>6 DEF RestoreDir
  <2> PICK at : at = Dest
    OBVIOUS
  <2>2. Grows(disk, disk', at) /\ at \in DOMAIN disk' /\ disk'[at].type = "dir"
    <3>1. CASE IsDir(Dest)
      <4>1. disk' = disk
        BY <2>1, <3>1
      <4> QED  BY <1>5, <3>1, <4>1, SameGrows DEF IsDir, Exists
    <3>2. CASE ~IsDir(Dest)
      <4> DEFINE item == Item("dir", "open", <<>>, TRUE)
      <4>1. item.type = "dir" /\ ItemSound(item)
        BY DEF Item, ItemSound
      <4>2. disk' = Made(Dest, item)
        BY <2>1, <3>2
      <4> HIDE DEF item
      <4> QED  BY <1>3, <1>4, <1>5, <4>1, <4>2, MadeGrows
    <3> QED  BY <3>1, <3>2
  <2>3. Landed(at)'
    BY <2>2 DEF Landed
  <2>4. DueFits(dirMeta', disk')
    <3>1. DueFits(dirMeta, disk')
      BY <1>5, <2>2, DueGrows
    <3>2. due.path = Dest
      OBVIOUS
    <3> HIDE DEF due
    <3> QED  BY <1>3, <2>1, <2>2, <3>1, <3>2 DEF DueFits
  <2>5. NodeFits(below, disk')
    <3>1. \A g \in Entries(Subnode(Member)) : EntrySound(g) /\ EntryFits(Append(Dest, g.name), g)
      BY <1>1, <1>4, <1>5, FitsBelow
    <3>2. below = [path |-> below.path, todo |-> below.todo]
          /\ below.path = Dest /\ below.todo = Entries(Subnode(Member))
      OBVIOUS
    <3> HIDE DEF below
    <3> QED  BY <1>3, <1>4, <2>2, <3>1, <3>2 DEF NodeFits
  <2>6. /\ FramesFit(frames', disk') /\ Len(frames') > 0 /\ restore' \in {"walk", "raised"}
    <3>1. CASE Subnode(Member) \in chunks
      <4>1. FramesFit(Dropped, disk') /\ Len(Dropped) # 0
        BY <1>1, <2>2, DroppedFits, FramesGrow
      <4> HIDE DEF below
      <4>2. frames' = Append(Dropped, below) /\ restore' = restore
        BY <2>1, <3>1
      <4> QED  BY <1>1, <2>5, <4>1, <4>2, FramesPushed
    <3>2. CASE Subnode(Member) \notin chunks
      <4>1. restore' \in {"walk", "raised"} /\ FramesFit(frames', disk) /\ Len(frames') > 0
        BY <1>1, <2>1, <3>2, FailFits
      <4> QED  BY <2>2, <4>1, FramesGrow
    <3> QED  BY <3>1, <3>2
  <2>7. TempSound'
    BY <2>6 DEF TempSound
  <2> QED  BY <1>2, <2>2, <2>3, <2>4, <2>6, <2>7, StepKeeps
<1>7. CASE ~(Open(Dest) /\ (IsDir(Dest) \/ ~Exists(Dest)))
  <2>1. FailEntry /\ disk' = disk /\ dirMeta' = dirMeta
    BY <1>7 DEF RestoreDir
  <2>2. restore' \in {"walk", "raised"} /\ FramesFit(frames', disk) /\ Len(frames') > 0
    BY <1>1, <2>1, FailFits
  <2>3. TempSound' /\ DueFits(dirMeta', disk)
    BY <1>5, <2>1, <2>2 DEF TempSound
  <2> QED  BY <1>2, <2>1, <2>2, <2>3, SameDisk
<1> QED  BY <1>6, <1>7

LEMMA LinkKeeps ==
  ASSUME RestoreInv, RestoreLink
  PROVE  RestoreInv'
<1>1. AtMember /\ ~Refused
  BY DEF RestoreLink, Restoring, AtEntry, AtMember
<1>2. SameRequest /\ errors' \in 0 .. MaxRestoreFailures /\ dirMeta' = dirMeta
  BY DEF RestoreLink, SameRequest, RestoreInv, RestoreTypeOK
<1>3. ~force => Dest \notin Kept
  BY <1>1, RefusedNot
<1>4. IsDir(Front(Dest)) /\ (~force => Front(Dest) \notin Kept)
  BY <1>1, MemberFacts
<1>5. DueFits(dirMeta, disk) /\ DiskSound(disk)
  BY DEF RestoreInv
<1>6. CASE Open(Dest) /\ ~IsDir(Dest) /\ ~(Exists(Dest) /\ Dest = Target)
  <2> DEFINE item == Item("link", "open", <<Member.content[1][2]>>, FALSE)
  <2>1. disk' = Made(Dest, item) /\ frames' = Dropped /\ restore' = "walk"
    BY <1>6 DEF RestoreLink, Restoring, AtEntry
  <2>2. item.type = "link" /\ ItemSound(item)
    BY DEF Item, ItemSound
  <2> HIDE DEF item
  <2> PICK at : at = Dest
    OBVIOUS
  <2>3. Grows(disk, disk', at) /\ disk'[at].type = "link"
    BY <1>3, <1>4, <1>5, <1>6, <2>1, <2>2, MadeGrows
  <2>4. Landed(at)'
    BY <2>3 DEF Landed
  <2>5. FramesFit(frames', disk') /\ Len(frames') > 0
    BY <1>1, <2>1, <2>3, DroppedFits, FramesGrow
  <2>6. DueFits(dirMeta', disk') /\ TempSound'
    BY <1>2, <1>5, <2>1, <2>3, DueGrows DEF TempSound
  <2> QED  BY <1>2, <2>1, <2>3, <2>4, <2>5, <2>6, StepKeeps
<1>7. CASE ~(Open(Dest) /\ ~IsDir(Dest) /\ ~(Exists(Dest) /\ Dest = Target))
  <2>1. FailEntry /\ disk' = disk
    BY <1>7 DEF RestoreLink
  <2>2. restore' \in {"walk", "raised"} /\ FramesFit(frames', disk) /\ Len(frames') > 0
    BY <1>1, <2>1, FailFits
  <2>3. TempSound' /\ DueFits(dirMeta', disk)
    BY <1>2, <1>5, <2>2 DEF TempSound
  <2> QED  BY <1>2, <2>1, <2>2, <2>3, SameDisk
<1> QED  BY <1>6, <1>7

LEMMA SameMember ==
  ASSUME frames' = frames
  PROVE  Inner' = Inner /\ Member' = Member /\ Dest' = Dest
BY DEF Inner, Member, Dest

LEMMA OpenTempKeeps ==
  ASSUME RestoreInv, OpenTemp
  PROVE  RestoreInv'
<1>1. AtMember /\ ~Refused /\ Member.type = "file"
  BY DEF OpenTemp, Restoring, AtEntry, AtMember
<1>2. SameRequest /\ errors' \in 0 .. MaxRestoreFailures /\ dirMeta' = dirMeta
  BY DEF OpenTemp, SameRequest, RestoreInv, RestoreTypeOK
<1>3. ~force => Dest \notin Kept
  BY <1>1, RefusedNot
<1>4. IsDir(Front(Dest)) /\ (~force => Front(Dest) \notin Kept) /\ EntrySound(Member)
  BY <1>1, MemberFacts
<1>5. FramesFit(frames, disk) /\ DueFits(dirMeta, disk) /\ DiskSound(disk) /\ Len(frames) > 0
  BY <1>1 DEF RestoreInv, RestoreTypeOK, AtMember
<1>6. CASE Open(Dest)
  <2>1. restore' = "file" /\ temp' = <<>> /\ disk' = Touched(Dest) /\ frames' = frames
    BY <1>6 DEF OpenTemp
  <2>2. Grows(disk, disk', Dest) /\ DOMAIN disk' = DOMAIN disk
    BY <1>4, <1>5, <2>1, TouchedGrows
  <2>3. /\ Grows(disk, disk', <<>>) /\ Landed(<<>>)'
    <3>1. disk'[<<>>].type = "dir"
      BY <2>2 DEF Grows, DiskSound
    <3>2. \A p \in DOMAIN disk : disk[p].type = "file" /\ p = Dest => disk'[p] = disk[p]
      <4>1. Front(Dest) \in DOMAIN disk /\ disk[Front(Dest)].type = "dir"
        BY <1>4 DEF IsDir, Exists
      <4> QED  BY <2>1, <4>1 DEF Touched
    <3>3. \A p \in DOMAIN disk' : disk'[p].type = "file" => disk'[p] = disk[p]
      <4> SUFFICES ASSUME NEW p \in DOMAIN disk, disk'[p].type = "file"
                   PROVE  disk'[p] = disk[p]
        BY <2>2
      <4>1. p # Front(Dest)
        BY <1>4, <2>2 DEF Grows, IsDir, Exists
      <4> QED  BY <2>1, <4>1 DEF Touched
    <3>4. Grows(disk, disk', <<>>)
      BY <2>2, <3>3 DEF Grows
    <3> QED  BY <3>1, <3>4 DEF Landed
  <2>4. FramesFit(frames', disk') /\ DueFits(dirMeta', disk')
    BY <1>2, <1>5, <2>1, <2>2, FramesGrow, DueGrows
  <2>5. TempSound'
    <3>1. IsSeq(Member.hash)
      BY <1>1, <1>4 DEF EntrySound
    <3>2. IsSeq(<<>>) /\ IsPrefix(<<>>, Member.hash)
      <4> DEFINE h == Member.hash
      <4>1. \E X : h \in Seq(X)
        BY <3>1 DEF IsSeq
      <4> HIDE DEF h
      <4>2. IsPrefix(<<>>, h)
        BY <4>1 DEF IsPrefix
      <4>3. IsSeq(<<>>)
        BY DEF IsSeq
      <4> QED  BY <4>2, <4>3 DEF h
    <3>3. Inner' = Inner /\ Member' = Member /\ Dest' = Dest
      BY <2>1, SameMember
    <3>4. force' = force /\ Kept' = Kept
      BY <1>2 DEF SameRequest, Kept
    <3> QED  BY <1>1, <1>3, <2>1, <3>2, <3>3, <3>4 DEF TempSound, AtMember
  <2> QED  BY <1>2, <1>5, <2>1, <2>3, <2>4, <2>5, StepKeeps
<1>7. CASE ~Open(Dest)
  <2>1. FailEntry /\ disk' = disk
    BY <1>7 DEF OpenTemp
  <2>2. restore' \in {"walk", "raised"} /\ FramesFit(frames', disk) /\ Len(frames') > 0
    BY <1>1, <2>1, FailFits
  <2>3. TempSound' /\ DueFits(dirMeta', disk)
    BY <1>2, <1>5, <2>2 DEF TempSound
  <2> QED  BY <1>2, <2>1, <2>2, <2>3, SameDisk
<1> QED  BY <1>6, <1>7

(* The chunks of a file, by the position in its data.                      *)
LEMMA FileContent ==
  ASSUME NEW e, EntrySound(e), e.type = "file"
  PROVE  /\ IsSeq(e.hash) /\ Len(e.content) = Len(e.hash) /\ Len(e.hash) \in Nat
         /\ \A i \in 1 .. Len(e.hash) : e.content[i][2] = e.hash[i]
<1> DEFINE h == e.hash
           c == e.content
<1>1. IsSeq(h) /\ c = [i \in DOMAIN h |-> ChunkId(h[i])]
  BY DEF EntrySound
<1> HIDE DEF h, c
<1>2. PICK X : h \in Seq(X)
  BY <1>1 DEF IsSeq
<1>3. DOMAIN h = 1 .. Len(h) /\ Len(h) \in Nat
  BY <1>2
<1>4. Len(c) = Len(h)
  BY <1>1, <1>3
<1>5. \A i \in 1 .. Len(h) : c[i][2] = h[i]
  BY <1>1, <1>3 DEF ChunkId
<1> QED  BY <1>1, <1>3, <1>4, <1>5 DEF h, c

LEMMA WriteKeeps ==
  ASSUME RestoreInv, WriteChunk
  PROVE  RestoreInv'
<1>1. /\ AtMember /\ Member.type = "file" /\ IsSeq(temp) /\ IsPrefix(temp, Member.hash)
      /\ ~force => Dest \notin Kept
  BY DEF WriteChunk, RestoreInv, TempSound, AtMember
<1>2. /\ SameRequest /\ errors' \in 0 .. MaxRestoreFailures /\ dirMeta' = dirMeta
      /\ disk' = disk /\ restore = "file"
  BY DEF WriteChunk, SameRequest, RestoreInv, RestoreTypeOK
<1>3. FramesFit(frames, disk) /\ DueFits(dirMeta, disk) /\ Len(frames) > 0
  BY <1>1 DEF RestoreInv, RestoreTypeOK, AtMember
<1> DEFINE id == Member.content[Len(temp) + 1]
<1>4. CASE id \in chunks
  <2>1. /\ temp' = Append(temp, id[2]) /\ restore' = "file" /\ frames' = frames
        /\ Len(temp) < Len(Member.content)
    BY <1>2, <1>4 DEF WriteChunk
  <2>2. EntrySound(Member)
    BY <1>1, MemberFacts
  <2>3. /\ IsSeq(Member.hash) /\ Len(Member.content) = Len(Member.hash) /\ Len(Member.hash) \in Nat
        /\ \A i \in 1 .. Len(Member.hash) : Member.content[i][2] = Member.hash[i]
    BY <1>1, <2>2, FileContent
  <2>4. temp' = Append(temp, Member.hash[Len(temp) + 1]) /\ Len(temp) < Len(Member.hash)
    <3>1. Len(temp) \in Nat
      BY <1>1, SeqLength
    <3>2. Len(temp) + 1 \in 1 .. Len(Member.hash)
      BY <2>1, <2>3, <3>1
    <3> QED  BY <2>1, <2>3, <3>2
  <2>5. IsSeq(temp') /\ IsPrefix(temp', Member.hash)
    BY <1>1, <2>3, <2>4, PrefixGrows
  <2>6. Inner' = Inner /\ Member' = Member /\ Dest' = Dest
    BY <2>1, SameMember
  <2>7. force' = force /\ Kept' = Kept
    BY <1>2 DEF SameRequest, Kept
  <2>8. TempSound'
    BY <1>1, <2>5, <2>6, <2>7 DEF TempSound, AtMember
  <2> QED  BY <1>2, <1>3, <2>1, <2>8, SameDisk
<1>5. CASE id \notin chunks
  <2>1. FailEntry
    BY <1>5 DEF WriteChunk
  <2>2. restore' \in {"walk", "raised"} /\ FramesFit(frames', disk) /\ Len(frames') > 0
    BY <1>1, <2>1, FailFits
  <2>3. TempSound' /\ DueFits(dirMeta', disk)
    BY <1>2, <1>3, <2>2 DEF TempSound
  <2> QED  BY <1>2, <2>1, <2>2, <2>3, SameDisk
<1> QED  BY <1>4, <1>5

LEMMA PublishKeeps ==
  ASSUME RestoreInv, PublishFile
  PROVE  RestoreInv'
<1>1. AtMember /\ Member.type = "file" /\ (~force => Dest \notin Kept)
  BY DEF PublishFile, RestoreInv, TempSound, AtMember
<1>2. SameRequest /\ errors' \in 0 .. MaxRestoreFailures /\ dirMeta' = dirMeta
  BY DEF PublishFile, SameRequest, RestoreInv, RestoreTypeOK
<1>3. /\ IsDir(Front(Dest)) /\ (~force => Front(Dest) \notin Kept) /\ EntryFits(Dest, Member)
      /\ Dest \in Seq(Nat) /\ Dest # <<>>
  BY <1>1, MemberFacts
<1>4. DueFits(dirMeta, disk) /\ DiskSound(disk)
  BY DEF RestoreInv
<1>5. CASE temp = Member.hash /\ ~IsDir(Dest)
  <2> DEFINE item == Item("file", Member.mode, temp, FALSE)
  <2>1. disk' = Made(Dest, item) /\ frames' = Dropped /\ restore' = "walk"
    BY <1>5 DEF PublishFile
  <2>2. /\ item.type = "file" /\ item.data = Member.hash /\ item.mode = Member.mode
        /\ ItemSound(item)
    BY <1>5 DEF Item, ItemSound
  <2> HIDE DEF item
  <2> PICK at : at = Dest
    OBVIOUS
  <2>3. Grows(disk, disk', at) /\ at \in DOMAIN disk' /\ disk'[at] = item
    BY <1>1, <1>3, <1>4, <1>5, <2>1, <2>2, MadeGrows
  <2>4. Landed(at)'
    <3>1. IsPrefix(Target, at)
      BY <1>3, UnderTarget DEF EntryFits
    <3>2. PICK f \in Recorded(base \o Tail(at)) :
            f.type = "file" /\ f.mode = Member.mode /\ f.hash = Member.hash
      BY <1>1, <1>3 DEF EntryFits, Sought
    <3>3. Restored(at, f)' /\ f.mode = disk'[at].mode
      BY <2>2, <2>3, <3>2 DEF Restored, Exists
    <3>4. Recorded(base \o Tail(at))' = Recorded(base \o Tail(at))
      BY <1>2 DEF SameRequest, scanVars, Recorded
    <3> QED  BY <3>1, <3>2, <3>3, <3>4 DEF Landed
  <2>5. FramesFit(frames', disk') /\ Len(frames') > 0
    BY <1>1, <2>1, <2>3, DroppedFits, FramesGrow
  <2>6. DueFits(dirMeta', disk') /\ TempSound'
    BY <1>2, <1>4, <2>1, <2>3, DueGrows DEF TempSound
  <2> QED  BY <1>2, <2>1, <2>3, <2>4, <2>5, <2>6, StepKeeps
<1>6. CASE ~(temp = Member.hash /\ ~IsDir(Dest))
  <2>1. FailEntry /\ disk' = disk
    BY <1>6 DEF PublishFile
  <2>2. restore' \in {"walk", "raised"} /\ FramesFit(frames', disk) /\ Len(frames') > 0
    BY <1>1, <2>1, FailFits
  <2>3. TempSound' /\ DueFits(dirMeta', disk)
    BY <1>2, <1>4, <2>2 DEF TempSound
  <2> QED  BY <1>2, <2>1, <2>2, <2>3, SameDisk
<1> QED  BY <1>5, <1>6

LEMMA LeaveKeeps ==
  ASSUME RestoreInv, LeaveDir \/ ReturnReport
  PROVE  RestoreInv'
<1>1. /\ SameRequest /\ errors' \in 0 .. MaxRestoreFailures /\ disk' = disk /\ dirMeta' = dirMeta
      /\ restore' \in {"walk", "dirs", "done"}
  BY DEF LeaveDir, ReturnReport, SameRequest, RestoreInv, RestoreTypeOK
<1>2. DueFits(dirMeta', disk) /\ TempSound' /\ FramesFit(frames, disk)
  BY <1>1 DEF RestoreInv, TempSound
<1>3. FramesFit(frames', disk) /\ (restore' \in {"walk", "file"} => Len(frames') > 0)
  <2>1. CASE LeaveDir
    <3>1. Len(frames) > 0
      BY <2>1 DEF LeaveDir, RestoreInv, RestoreTypeOK
    <3>2. FramesFit(Front(frames), disk) /\ Len(frames) \in Nat /\ Len(Front(frames)) = Len(frames) - 1
      BY <1>2, <3>1, FramesPopped
    <3> QED  BY <2>1, <3>1, <3>2 DEF LeaveDir
  <2>2. CASE ReturnReport
    BY <1>2, <2>2 DEF ReturnReport
  <2> QED  BY <2>1, <2>2
<1> QED  BY <1>1, <1>2, <1>3, SameDisk

(* The node's loop ends: the directory it restores has failed.             *)
LEMMA StatKeeps ==
  ASSUME RestoreInv, StatRaises
  PROVE  RestoreInv'
<1>1. /\ SameRequest /\ disk' = disk /\ dirMeta' = dirMeta /\ restore = "walk" /\ FailNode
      /\ restore' \in {"walk", "raised"}
  BY DEF StatRaises, AtEntry, FailNode, SameRequest
<1>2. errors' \in 0 .. MaxRestoreFailures
  BY RestoreAssumption DEF StatRaises, Raising, RestoreInv, RestoreTypeOK
<1>3. DueFits(dirMeta', disk) /\ TempSound'
  BY <1>1 DEF RestoreInv, TempSound
<1>4. /\ FramesFit(frames, disk) /\ Len(frames) > 0 /\ Len(frames) \in Nat
      /\ FramesFit(Front(frames), disk) /\ Len(Front(frames)) = Len(frames) - 1
      /\ Len(frames) = 1 => Inner.path = <<>>
  BY <1>1, FramesPopped DEF RestoreInv, RestoreTypeOK, Inner
<1>5. FramesFit(frames', disk) /\ Len(frames') > 0
  <2>1. CASE Inner.path \in {<<>>, Target}
    BY <1>1, <1>4, <2>1 DEF FailNode
  <2>2. CASE Inner.path \notin {<<>>, Target}
    <3>1. frames' = Front(frames) /\ Len(frames) # 1
      BY <1>1, <1>4, <2>2 DEF FailNode
    <3> QED  BY <1>4, <3>1
  <2> QED  BY <2>1, <2>2
<1> QED  BY <1>1, <1>2, <1>3, <1>5, SameDisk

LEMMA ApplyKeeps ==
  ASSUME RestoreInv, ApplyDir
  PROVE  RestoreInv'
<1>1. /\ SameRequest /\ errors' \in 0 .. MaxRestoreFailures /\ restore' = "dirs"
      /\ frames' = frames /\ dirMeta' \subseteq dirMeta
  BY DEF ApplyDir, SameRequest, RestoreInv, RestoreTypeOK
<1>2. FramesFit(frames, disk) /\ DueFits(dirMeta, disk) /\ DiskSound(disk)
  BY DEF RestoreInv
<1>3. PICK d \in dirMeta :
        disk' = disk \/ disk' = [disk EXCEPT ![d.path].mode = d.mode, ![d.path].fresh = FALSE]
  BY DEF ApplyDir
<1> DEFINE q == d.path
           m == d.mode
           x == disk[q]
<1>4. q \in DOMAIN disk /\ x.type = "dir" /\ ItemSound(x) /\ (~force => q \notin Kept)
  BY <1>2 DEF DueFits, DiskSound
<1>5. Grows(disk, disk', <<>>)
  <2>1. CASE disk' = disk
    BY <1>2, <2>1, SameGrows
  <2>2. CASE disk' = [disk EXCEPT ![d.path].mode = d.mode, ![d.path].fresh = FALSE]
    <3>1. /\ DOMAIN disk' = DOMAIN disk /\ \A p \in DOMAIN disk : p # q => disk'[p] = disk[p]
          /\ disk'[q] = [[x EXCEPT !.mode = m] EXCEPT !.fresh = FALSE]
      BY <1>4, <2>2
    <3> HIDE DEF q, m
    <3>2. x = Item(x.type, x.mode, x.data, x.fresh)
      BY <1>4 DEF ItemSound
    <3>3. disk'[q] = Item(x.type, m, x.data, FALSE)
      <4> DEFINE y == [x EXCEPT !.mode = m]
      <4>1. disk'[q] = [y EXCEPT !.fresh = FALSE]
        BY <3>1
      <4> HIDE DEF x
      <4>2. y = Item(x.type, m, x.data, x.fresh)
        BY <3>2 DEF Item
      <4> HIDE DEF y
      <4> QED  BY <4>1, <4>2 DEF Item
    <3>4. disk'[q].type = "dir" /\ ItemSound(disk'[q])
      BY <1>4, <3>3 DEF Item, ItemSound
    <3>5. DiskSound(disk')
      BY <1>2, <3>1, <3>4 DEF DiskSound
    <3> QED  BY <1>4, <3>1, <3>4, <3>5 DEF Grows
  <2> QED  BY <1>3, <2>1, <2>2
<1>6. Landed(<<>>)'
  BY <1>5 DEF Landed, Grows, DiskSound
<1>7. FramesFit(frames', disk') /\ DueFits(dirMeta', disk')
  <2>1. DueFits(dirMeta', disk)
    BY <1>1, <1>2 DEF DueFits
  <2> QED  BY <1>1, <1>2, <1>5, <2>1, FramesGrow, DueGrows
<1>8. TempSound'
  BY <1>1 DEF TempSound
<1> QED  BY <1>1, <1>5, <1>6, <1>7, <1>8, StepKeeps

LEMMA ResolveKeeps ==
  ASSUME RestoreInv, Resolve
  PROVE  RestoreInv'
<1>1. /\ SameRequest /\ errors' \in 0 .. MaxRestoreFailures /\ disk' = disk /\ dirMeta' = dirMeta
      /\ restore' \in {"walk", "raised"}
  BY DEF Resolve, SameRequest, RestoreInv, RestoreTypeOK
<1>2. DueFits(dirMeta', disk) /\ TempSound'
  BY <1>1 DEF RestoreInv, TempSound
<1>3. /\ FramesFit(frames, disk) /\ DiskSound(disk) /\ Known /\ base \in Seq(Nat)
  BY DEF RestoreInv, RestoreTypeOK
<1>4. FramesFit(frames', disk) /\ (restore' = "walk" => Len(frames') > 0)
  <2>1. CASE Whole \/ Navigable
    <3>1. PICK e \in IF Whole THEN {DirEntry(0, "open", root)} ELSE Recorded(base) :
            frames' = <<[path |-> <<>>, todo |-> {[e EXCEPT !.name = 0]}]>>
      BY <2>1 DEF Resolve
    <3> DEFINE g == [e EXCEPT !.name = 0]
               fr == [path |-> <<>>, todo |-> {g}]
    <3>2. g.name = 0 /\ EntrySound(g) /\ EntryFits(<<0>>, g)
      BY <1>3, FitsTarget
    <3> HIDE DEF g
    <3>3. fr = [path |-> fr.path, todo |-> fr.todo] /\ fr.path = <<>> /\ fr.todo = {g}
      OBVIOUS
    <3>4. Append(<<>>, 0) = <<0>> /\ <<>> \in Seq(Nat) /\ <<>> \notin Kept
      BY DEF Kept
    <3>5. frames' = <<fr>>
      BY <3>1 DEF g
    <3> HIDE DEF fr
    <3>6. NodeFits(fr, disk)
      BY <1>3, <3>2, <3>3, <3>4 DEF NodeFits, DiskSound
    <3>7. IsSeq(<<fr>>) /\ Len(<<fr>>) = 1 /\ <<fr>>[1] = fr
      <4>1. <<fr>> \in Seq({fr})
        OBVIOUS
      <4> QED  BY <4>1 DEF IsSeq
    <3>8. fr.path = <<>>
      BY <3>3
    <3> QED  BY <3>5, <3>6, <3>7, <3>8 DEF FramesFit
  <2>2. CASE ~(Whole \/ Navigable)
    BY <1>3, <2>2 DEF Resolve
  <2> QED  BY <2>1, <2>2
<1> QED  BY <1>1, <1>2, <1>4, SameDisk

(* What the scan has stored is known when a restore begins.                *)
LEMMA BeginKeeps ==
  ASSUME ScanInv, NotBegun, BeginRestore
  PROVE  RestoreInv'
<1>1. /\ source' = source /\ stack' = stack /\ scan = "done" /\ scan' = "done" /\ root' = root
      /\ skipped' = skipped /\ failures' = failures /\ restore' = "begun" /\ frames' = <<>>
      /\ dirMeta' = {} /\ errors' = 0 /\ base' \in Requests
      /\ disk' \in Existing /\ before' = disk'
  BY DEF BeginRestore, NotBegun
<1>2. RestoreTypeOK'
  <2>1. ScanTypeOK'
    BY <1>1 DEF ScanInv, ScanTypeOK, Paths
  <2>2. StackTyped
    <3>1. IsSeq(stack) /\ \A i \in 1 .. Len(stack) : FrameSound(stack[i], chunks)
      BY DEF ScanInv, StackSound
    <3>2. DOMAIN stack = 1 .. Len(stack)
      BY <3>1 DEF IsSeq
    <3> QED  BY <3>1, <3>2 DEF StackTyped, FrameSound
  <2>3. StackTyped'
    BY <1>1, <2>2 DEF StackTyped, Listing, Paths
  <2> QED  BY <1>1, <2>1, <2>3, RestoreAssumption DEF RestoreTypeOK
<1>3. Known'
  BY <1>1 DEF ScanInv, StoreSound, Known
<1>4. FramesFit(frames, disk)' /\ DueFits(dirMeta, disk)' /\ TempSound'
  <2>1. IsSeq(<<>>) /\ Len(<<>>) = 0
    BY DEF IsSeq
  <2> QED  BY <1>1, <2>1 DEF FramesFit, DueFits, TempSound
<1>5. DiskSound(disk)'
  BY <1>1, RestoreAssumption DEF DiskSound, ItemSound
<1>6. NoPartialFile' /\ ExistingKept'
  BY <1>1 DEF NoPartialFile, ExistingKept, Exists
<1> QED  BY <1>2, <1>3, <1>4, <1>5, <1>6 DEF RestoreInv

-----------------------------------------------------------------------------
(* The theorems. *)

LEMMA ScanStart ==
  ASSUME ScanInit
  PROVE  ScanInv
<1>1. /\ source \in Sources /\ scan = "list" /\ stack = <<Frame(<<>>)>> /\ file = <<>>
      /\ chunks = {} /\ skipped = {} /\ root = NoRoot /\ failures = 0
  BY DEF ScanInit
<1>3. ScanTypeOK
  BY <1>1, ScanAssumption DEF ScanTypeOK
<1>4. FrameSound(Frame(<<>>), chunks)
  BY <1>1, PathFacts DEF FrameSound, Frame
<1> DEFINE fr == Frame(<<>>)
<1> HIDE DEF fr
<1>5. IsSeq(<<fr>>) /\ Len(<<fr>>) = 1 /\ <<fr>>[1] = fr /\ Last(<<fr>>) = fr
  <2>1. <<fr>> \in Seq({fr})
    OBVIOUS
  <2> QED  BY <2>1 DEF IsSeq, Last
<1>6. StackSound(stack, chunks)
  BY <1>1, <1>4, <1>5 DEF StackSound, fr
<1>7. FileSound
  <2>1. Top = Frame(<<>>)
    BY <1>1, <1>5 DEF Top, fr
  <2> QED  BY <1>1, <2>1 DEF FileSound, Frame
<1>8. StoreSound
  BY <1>1 DEF StoreSound, NodesComplete
<1> QED  BY <1>3, <1>6, <1>7, <1>8 DEF ScanInv

LEMMA ScanSame ==
  ASSUME ScanInv, UNCHANGED scanVars
  PROVE  ScanInv'
<1>1. ScanTypeOK'
  BY DEF scanVars, ScanTypeOK, Paths, ScanInv
<1>2. StackSound(stack, chunks)'
  BY StackPrime DEF scanVars, ScanInv
<1>3. FileSound' /\ StoreSound'
  BY DEF scanVars, ScanInv, FileSound, StoreSound, NodesComplete, Top, Here, Name
<1> QED  BY <1>1, <1>2, <1>3 DEF ScanInv

(* A walk is no step of the scan or of the restore.                        *)
LEMMA StepKinds ==
  ASSUME [Next]_vars
  PROVE  \/ ScanStep /\ UNCHANGED restoreVars
         \/ RestoreStep
         \/ UNCHANGED <<scanVars, restoreVars>>
<1>1. ASSUME WalkStep PROVE UNCHANGED scanVars
  BY <1>1 DEF WalkStep, BeginWalk, LoadRoot, YieldEntry, LeaveNode
<1> QED  BY <1>1 DEF Next, Over, vars

LEMMA TreesStart ==
  ASSUME Init
  PROVE  TreesInv
<1>1. restore = "idle" /\ NotBegun
  BY DEF Init, RestoreInit, NotBegun
<1> QED  BY <1>1, ScanStart DEF TreesInv, Init

LEMMA TreesStep ==
  ASSUME TreesInv, [Next]_vars
  PROVE  TreesInv'
<1>1. CASE ScanStep /\ UNCHANGED restoreVars
  <2>1. restore' = restore /\ (NotBegun => NotBegun')
    BY <1>1 DEF restoreVars, NotBegun
  <2>2. CASE restore = "idle"
    <3>1. ScanInv'
      BY <1>1, <2>2, ScanKeeps DEF TreesInv
    <3> QED  BY <2>1, <2>2, <3>1 DEF TreesInv
  <2>3. CASE restore # "idle"
    <3>1. scan = "done"
      BY <2>3 DEF TreesInv, RestoreInv, RestoreTypeOK
    <3> QED  BY <1>1, <3>1
             DEF ScanStep, ListDir, PassExcluded, VisitFails, VisitSpecial, VisitLink, VisitDir,
                 VisitFile, ScanChunk, ScanFails, EndFile, StoreNode, StoreNodeFails, PutRaises,
                 NewChunk, EndDir, Visiting, Reached
  <2> QED  BY <2>2, <2>3
<1>2. CASE BeginRestore
  <2>1. restore = "idle" /\ restore' # "idle"
    BY <1>2 DEF BeginRestore
  <2> QED  BY <1>2, <2>1, BeginKeeps DEF TreesInv
<1>3. CASE RestoreStep /\ ~BeginRestore
  <2>1. restore # "idle"
    BY <1>3 DEF RestoreStep, Resolve, StatRaises, RefuseEntry, EntryRaises, RestoreDir, RestoreLink, OpenTemp,
          WriteChunk, FileRaises, PublishFile, LeaveDir, ApplyDir, ReturnReport, AtEntry, Restoring
  <2>2. RestoreInv
    BY <2>1 DEF TreesInv
  <2>3. RestoreInv'
    BY <1>3, <2>2, ResolveKeeps, StatKeeps, RefuseKeeps, DirKeeps, LinkKeeps, OpenTempKeeps, WriteKeeps,
       PublishKeeps, LeaveKeeps, ApplyKeeps DEF RestoreStep
  <2>4. restore' # "idle"
    BY <2>3 DEF RestoreInv, RestoreTypeOK
  <2> QED  BY <2>3, <2>4 DEF TreesInv
<1>4. CASE UNCHANGED <<scanVars, restoreVars>>
  <2>2. ScanTypeOK => ScanTypeOK'
    BY <1>4 DEF scanVars, ScanTypeOK, Paths
  <2>3. CASE restore = "idle"
    <3>1. ScanInv'
      BY <1>4, <2>3, ScanSame DEF TreesInv
    <3> QED  BY <1>4, <2>3, <3>1 DEF restoreVars, TreesInv, NotBegun
  <2>4. CASE restore # "idle"
    <3>1. RestoreInv /\ SameRequest /\ frames' = frames /\ dirMeta' = dirMeta /\ disk' = disk
          /\ restore' = restore /\ errors' = errors /\ temp' = temp
      BY <1>4, <2>4 DEF TreesInv, restoreVars, SameRequest
    <3>2. RestoreTypeOK' /\ Known'
      BY <2>2, <3>1 DEF RestoreInv, RestoreTypeOK, Known, StackTyped, Listing, Paths, SameRequest,
            scanVars
    <3>3. TempSound'
      <4>1. Inner' = Inner /\ Member' = Member /\ Dest' = Dest
        BY <3>1, SameMember
      <4>2. force' = force /\ Kept' = Kept
        BY <3>1 DEF SameRequest, Kept
      <4> QED  BY <3>1, <4>1, <4>2 DEF RestoreInv, TempSound
    <3>4. NoPartialFile' /\ ExistingKept'
      <4>1. Grows(disk, disk', <<>>) /\ Landed(<<>>)'
        BY <3>1, SameGrows DEF RestoreInv, Landed, DiskSound
      <4> QED  BY <3>1, <4>1, FilesKept
    <3>5. RestoreInv'
      BY <3>1, <3>2, <3>3, <3>4, RequestPrime DEF RestoreInv
    <3> QED  BY <2>4, <3>1, <3>5 DEF TreesInv
  <2> QED  BY <2>3, <2>4
<1> QED  BY <1>1, <1>2, <1>3, <1>4, StepKinds

LEMMA TreesInvHolds == Spec => []TreesInv
BY TreesStart, TreesStep, PTL DEF Spec

(* However a scan ends, and whatever raises on the way, the store holds no *)
(* node without all that the node names.                                   *)
THEOREM StoredNodesComplete == Spec => []ScanBottomUp
<1>1. TreesInv => ScanBottomUp
  BY DEF TreesInv, ScanInv, StoreSound, ScanBottomUp
<1> QED  BY <1>1, TreesInvHolds, PTL

(* A restore, whole or of any path of the snapshot, into any file system,  *)
(* whatever is lost and raises: a file is what it was before or what was   *)
(* recorded, never a part of it.                                           *)
THEOREM FilesAppearWhole == Spec => []NoPartialFile
<1>1. TreesInv => NoPartialFile
  BY DEF TreesInv, NotBegun, RestoreInv, NoPartialFile
<1> QED  BY <1>1, TreesInvHolds, PTL

(* Without --force a restore changes nothing that existed.                 *)
THEOREM NothingOverwritten == Spec => []ExistingKept
<1>1. TreesInv => ExistingKept
  BY DEF TreesInv, NotBegun, RestoreInv, ExistingKept
<1> QED  BY <1>1, TreesInvHolds, PTL

-----------------------------------------------------------------------------
(* What a scan knows of the directories it has been in: the entries it has *)
(* for each, and the names that are left.  An open directory is on the     *)
(* stack; what one that is done has become is its node.                    *)
Direct(sk, p) == p \in Excluded \/ <<p, "unread">> \in sk \/ <<p, "special">> \in sk
Blind(sk, q)  == <<q, "unreadable">> \in sk

Placed(es, left, open, q) ==
  /\ q \in Paths /\ left[q] \subseteq Listing(q)
  /\ q \notin open => left[q] = {}
  /\ q # <<>> =>
       /\ source[q].type = "dir" /\ q \notin Excluded /\ Front(q) \in DOMAIN es
       /\ q \in open => left[Front(q)] # {} /\ Last(q) = Min(left[Front(q)])
       /\ q \notin open => Last(q) \notin left[Front(q)]

(* An entry says what the directory holds under its name.                  *)
Shows(es, left, open, q, e) ==
  LET p == Append(q, e.name) IN
  /\ e.name \in Listing(q) \ left[q]
  /\ EntryOf(p, e)
  /\ IsDirEntry(e) => p \in DOMAIN es /\ p \notin open /\ Subnode(e) = NodeId(es[p])

(* A name that is done has an entry, or a reason not to have one.          *)
Covers(es, left, sk, q) ==
  \A x \in Listing(q) \ left[q] :
    (\E e \in es[q] : e.name = x) <=> ~(Direct(sk, Append(q, x)) \/ Blind(sk, q))

(* A skip is of a directory, or of a name that is done.                    *)
Noted(es, left, s) ==
  \/ /\ s = <<s[1], "unreadable">>
     /\ s[1] \in DOMAIN es /\ left[s[1]] = {}
  \/ /\ s = <<s[1], "unread">> \/ s = <<s[1], "special">>
     /\ s[1] \in Paths /\ s[1] # <<>>
     /\ Front(s[1]) \in DOMAIN es /\ Last(s[1]) \notin left[Front(s[1])]

Honest(es, left, open, sk) ==
  /\ DOMAIN left = DOMAIN es /\ open \subseteq DOMAIN es
  /\ \A q \in DOMAIN es : Placed(es, left, open, q) /\ Covers(es, left, sk, q)
  /\ \A q \in DOMAIN es : \A e \in es[q] : Shows(es, left, open, q, e)
  /\ \A s \in sk : Noted(es, left, s)

(* The paths of a directory's names are told apart by directory and name.  *)
LEMMA ChildPath ==
  ASSUME source \in Sources, NEW q \in Paths, NEW x
  PROVE  /\ Front(Append(q, x)) = q /\ Last(Append(q, x)) = x
         /\ Append(q, x) # <<>> /\ Len(Append(q, x)) = Len(q) + 1 /\ Len(q) \in Nat
         /\ \A r \in Paths : \A y : Append(r, y) = Append(q, x) => r = q /\ y = x
<1>1. IsSeq(q) /\ Len(q) \in Nat
  BY PathFacts, SeqLength
<1>2. /\ IsSeq(Append(q, x)) /\ Len(Append(q, x)) = Len(q) + 1
      /\ Front(Append(q, x)) = q /\ Last(Append(q, x)) = x
  BY <1>1, AppendFacts
<1>3. Append(q, x) # <<>>
  BY <1>1, <1>2, SeqLength
<1>4. ASSUME NEW r \in Paths, NEW y, Append(r, y) = Append(q, x)
      PROVE  r = q /\ y = x
  <2>1. IsSeq(r)
    BY PathFacts
  <2>2. Front(Append(r, y)) = r /\ Last(Append(r, y)) = y
    BY <2>1, AppendFacts
  <2> QED  BY <1>2, <1>4, <2>2
<1> QED  BY <1>1, <1>2, <1>3, <1>4

(* A path but the root's is a name that its directory lists.               *)
LEMMA PathParts ==
  ASSUME source \in Sources, NEW p \in Paths, p # <<>>
  PROVE  /\ p = Append(Front(p), Last(p)) /\ Front(p) \in Paths
         /\ Last(p) \in Listing(Front(p)) /\ source[Front(p)].type = "dir"
<1>1. p \in Seq(Nat) /\ p = Append(Front(p), Last(p))
  BY PathFacts, FrontLast
<1>2. Front(p) \in Paths /\ source[Front(p)].type = "dir"
  BY ScanAssumption DEF Paths
<1>3. Last(p) \in Listing(Front(p))
  BY DEF Listing, Paths, Last
<1> QED  BY <1>1, <1>2, <1>3

(* One name x of q is done: with entries E for it, or with a skip.         *)
LEMMA NameDone ==
  ASSUME source \in Sources, NEW es, NEW left, NEW open, NEW sk, Honest(es, left, open, sk),
         NEW q \in open, NEW x, left[q] # {}, x = Min(left[q]), NEW E, NEW sk2,
         Append(q, x) \in DOMAIN es => left[Append(q, x)] = {},
         \A e \in E : /\ e.name = x /\ EntryOf(Append(q, x), e)
                      /\ IsDirEntry(e) => /\ Append(q, x) \in DOMAIN es
                                          /\ Subnode(e) = NodeId(es[Append(q, x)]),
         \/ E # {} /\ sk2 = sk /\ Append(q, x) \notin Excluded
         \/ E = {} /\ sk2 = sk /\ Append(q, x) \in Excluded
         \/ E = {} /\ \E r \in {"unread", "special"} : sk2 = sk \cup {<<Append(q, x), r>>}
  PROVE  Honest([es EXCEPT ![q] = es[q] \cup E], [left EXCEPT ![q] = left[q] \ {x}],
                open \ {Append(q, x)}, sk2)
<1> DEFINE c == Append(q, x)
           es2 == [es EXCEPT ![q] = es[q] \cup E]
           left2 == [left EXCEPT ![q] = left[q] \ {x}]
           open2 == open \ {c}
<1>1. /\ DOMAIN left = DOMAIN es /\ open \subseteq DOMAIN es /\ q \in DOMAIN es
      /\ \A p \in DOMAIN es : Placed(es, left, open, p) /\ Covers(es, left, sk, p)
      /\ \A p \in DOMAIN es : \A e \in es[p] : Shows(es, left, open, p, e)
      /\ \A s \in sk : Noted(es, left, s)
  BY DEF Honest
<1>2. /\ DOMAIN es2 = DOMAIN es /\ DOMAIN left2 = DOMAIN es
      /\ es2[q] = es[q] \cup E /\ left2[q] = left[q] \ {x}
      /\ \A p \in DOMAIN es : p # q => es2[p] = es[p] /\ left2[p] = left[p]
      /\ \A p \in DOMAIN es : es[p] \subseteq es2[p] /\ left2[p] \subseteq left[p]
  BY <1>1
<1>3. q \in Paths /\ left[q] \subseteq Listing(q)
  BY <1>1 DEF Placed
<1>4. x \in left[q] /\ x \in Listing(q) /\ c \in Paths
  <2>1. left[q] \in SUBSET Nat
    BY <1>3, PathFacts
  <2>2. x \in left[q]
    BY <2>1, LeastOf
  <2> QED  BY <1>3, <2>2, PathFacts
<1>5. /\ Front(c) = q /\ Last(c) = x /\ c # <<>> /\ c # q
      /\ \A p \in Paths : \A y : Append(p, y) = c => p = q /\ y = x
  <2>1. Len(c) = Len(q) + 1 /\ Len(q) \in Nat
    BY <1>3, ChildPath
  <2>2. c # q
    BY <2>1
  <2>3. Front(c) = q /\ Last(c) = x /\ c # <<>>
    BY <1>3, ChildPath
  <2> HIDE DEF c
  <2>4. ASSUME NEW p \in Paths, NEW y, Append(p, y) = c
        PROVE  p = q /\ y = x
    <3>1. Front(Append(p, y)) = p /\ Last(Append(p, y)) = y
      BY ChildPath
    <3> QED  BY <2>3, <2>4, <3>1
  <2> QED  BY <2>2, <2>3, <2>4
<1>6. c \in DOMAIN es => c \in open /\ left[c] = {}
  BY <1>1, <1>4, <1>5 DEF Placed
<1>7. ASSUME NEW d \in open, d # <<>>, Front(d) = q PROVE d = c
  <2>1. Last(d) = x /\ d \in Paths
    BY <1>1, <1>7 DEF Placed
  <2> QED  BY <1>7, <2>1, PathParts
<1>8. E # {} => sk2 = sk /\ c \notin Excluded
  OBVIOUS
<1>9. /\ sk \subseteq sk2
      /\ \A s \in sk2 \ sk : s = <<c, "unread">> \/ s = <<c, "special">>
      /\ E = {} => Direct(sk2, c)
  BY DEF Direct
<1>10. ~Blind(sk, q) /\ <<c, "unread">> \notin sk /\ <<c, "special">> \notin sk
  <2>1. ~Blind(sk, q)
    <3> SUFFICES ASSUME <<q, "unreadable">> \in sk PROVE FALSE
      BY DEF Blind
    <3>1. Noted(es, left, <<q, "unreadable">>)
      BY <1>1
    <3> QED  BY <1>4, <3>1 DEF Noted
  <2>2. ASSUME NEW r \in {"unread", "special"}, <<c, r>> \in sk PROVE FALSE
    <3>1. Noted(es, left, <<c, r>>)
      BY <1>1, <2>2
    <3> QED  BY <1>4, <1>5, <3>1 DEF Noted
  <2> QED  BY <2>1, <2>2
<1> HIDE DEF es2, left2, c
<1>11. ASSUME NEW p \in DOMAIN es
       PROVE  Placed(es2, left2, open2, p)
  <2>1. Placed(es, left, open, p) /\ p \in Paths
    BY <1>1 DEF Placed
  <2>2. p \in Paths /\ left2[p] \subseteq Listing(p)
    BY <1>2, <2>1 DEF Placed
  <2>3. p \notin open2 => left2[p] = {}
    BY <1>2, <1>5, <1>6, <2>1 DEF Placed
  <2>4. ASSUME p # <<>>
        PROVE  /\ source[p].type = "dir" /\ p \notin Excluded /\ Front(p) \in DOMAIN es2
               /\ p \in open2 => left2[Front(p)] # {} /\ Last(p) = Min(left2[Front(p)])
               /\ p \notin open2 => Last(p) \notin left2[Front(p)]
    <3>1. source[p].type = "dir" /\ p \notin Excluded /\ Front(p) \in DOMAIN es
      BY <2>1, <2>4 DEF Placed
    <3>2. ASSUME p \in open2
          PROVE  left2[Front(p)] # {} /\ Last(p) = Min(left2[Front(p)])
      <4>1. p \in open /\ p # c
        BY <3>2
      <4>2. Front(p) # q
        BY <1>7, <2>4, <4>1 DEF c
      <4> QED  BY <1>2, <2>1, <2>4, <3>1, <4>1, <4>2 DEF Placed
    <3>3. ASSUME p \notin open2
          PROVE  Last(p) \notin left2[Front(p)]
      <4>1. CASE p = c
        BY <1>2, <1>5, <4>1
      <4>2. CASE p # c
        BY <1>2, <2>1, <2>4, <3>1, <3>3, <4>2 DEF Placed
      <4> QED  BY <4>1, <4>2
    <3> QED  BY <1>2, <3>1, <3>2, <3>3
  <2> QED  BY <2>2, <2>3, <2>4 DEF Placed
<1>12. ASSUME NEW p \in DOMAIN es, NEW e \in es2[p]
       PROVE  Shows(es2, left2, open2, p, e)
  <2> DEFINE d == Append(p, e.name)
  <2>0. p \in Paths
    BY <1>1 DEF Placed
  <2>1. CASE e \in es[p]
    <3>1. /\ e.name \in Listing(p) \ left[p] /\ EntryOf(d, e)
          /\ IsDirEntry(e) => d \in DOMAIN es /\ d \notin open /\ Subnode(e) = NodeId(es[d])
      BY <1>1, <2>1 DEF Shows
    <3>2. e.name \in Listing(p) \ left2[p]
      BY <1>2, <3>1
    <3>3. IsDirEntry(e) => d # q
      BY <3>1
    <3> HIDE DEF d
    <3>4. IsDirEntry(e) => d \in DOMAIN es2 /\ d \notin open2 /\ Subnode(e) = NodeId(es2[d])
      BY <1>2, <3>1, <3>3
    <3> QED  BY <3>1, <3>2, <3>4 DEF Shows, d
  <2>2. CASE e \notin es[p]
    <3>1. p = q /\ e \in E
      BY <1>2, <2>2
    <3>2. /\ e.name = x /\ EntryOf(c, e) /\ d = c
          /\ IsDirEntry(e) => c \in DOMAIN es /\ Subnode(e) = NodeId(es[c])
      BY <3>1 DEF c
    <3>3. IsDirEntry(e) => c \in DOMAIN es2 /\ c \notin open2 /\ Subnode(e) = NodeId(es2[c])
      BY <1>2, <1>5, <3>2
    <3>4. e.name \in Listing(p) \ left2[p]
      BY <1>2, <1>4, <3>1, <3>2
    <3> QED  BY <3>2, <3>3, <3>4 DEF Shows
  <2> QED  BY <2>1, <2>2
<1>13. ASSUME NEW p \in DOMAIN es
       PROVE  Covers(es2, left2, sk2, p)
  <2>0. p \in Paths
    BY <1>1 DEF Placed
  <2> SUFFICES ASSUME NEW y \in Listing(p) \ left2[p]
               PROVE  (\E e \in es2[p] : e.name = y)
                        <=> ~(Direct(sk2, Append(p, y)) \/ Blind(sk2, p))
    BY DEF Covers
  <2>1. Blind(sk2, p) <=> Blind(sk, p)
    BY <1>9 DEF Blind
  <2>2. CASE p = q /\ y = x
    <3>1. ~\E e \in es[q] : e.name = x
      BY <1>1, <1>4 DEF Shows
    <3>2. (\E e \in es2[q] : e.name = x) <=> E # {}
      BY <1>2, <3>1
    <3>3. E # {} => ~Direct(sk2, c)
      BY <1>8, <1>10 DEF Direct
    <3>4. c = Append(p, y)
      BY <2>2 DEF c
    <3> QED  BY <1>9, <1>10, <2>1, <2>2, <3>2, <3>3, <3>4
  <2>3. CASE ~(p = q /\ y = x)
    <3> DEFINE d == Append(p, y)
    <3>1. d # c
      BY <1>5, <2>0, <2>3
    <3>2. y \in Listing(p) \ left[p]
      BY <1>2, <2>3
    <3>3. (\E e \in es2[p] : e.name = y) <=> (\E e \in es[p] : e.name = y)
      <4>1. CASE p = q
        <5>1. \A e \in E : e.name # y
          BY <2>3, <4>1
        <5> QED  BY <1>2, <4>1, <5>1
      <4>2. CASE p # q
        BY <1>2, <4>2
      <4> QED  BY <4>1, <4>2
    <3> HIDE DEF d
    <3>4. Direct(sk2, d) <=> Direct(sk, d)
      BY <1>9, <3>1 DEF Direct
    <3>5. (\E e \in es[p] : e.name = y) <=> ~(Direct(sk, d) \/ Blind(sk, p))
      BY <1>1, <3>2 DEF Covers, d
    <3> QED  BY <2>1, <3>3, <3>4, <3>5 DEF d
  <2> QED  BY <2>2, <2>3
<1>14. ASSUME NEW s \in sk2
       PROVE  Noted(es2, left2, s)
  <2>1. CASE s \in sk
    <3>1. Noted(es, left, s)
      BY <1>1, <2>1
    <3> QED  BY <1>2, <3>1 DEF Noted
  <2>2. CASE s \notin sk
    <3>1. s = <<c, "unread">> \/ s = <<c, "special">>
      BY <1>9, <2>2
    <3>2. s[1] = c
      BY <3>1
    <3> QED  BY <1>1, <1>2, <1>4, <1>5, <3>1, <3>2 DEF Noted
  <2> QED  BY <2>1, <2>2
<1>15. open2 \subseteq DOMAIN es2
  BY <1>1, <1>2
<1>16. Honest(es2, left2, open2, sk2)
  BY <1>2, <1>11, <1>12, <1>13, <1>14, <1>15 DEF Honest
<1> QED  BY <1>16 DEF es2, left2, c

(* A directory c is entered, the next name of q.                           *)
Entered(es, left, open, q, c, es2, left2) ==
  /\ q \in open /\ left[q] # {} /\ c = Append(q, Min(left[q]))
  /\ c \notin DOMAIN es /\ c \notin Excluded /\ source[c].type = "dir"
  /\ es2 = [p \in DOMAIN es \cup {c} |-> IF p = c THEN {} ELSE es[p]]
  /\ left2 = [p \in DOMAIN es \cup {c} |-> IF p = c THEN Listing(c) ELSE left[p]]

(* A directory is entered; nothing is known of its names yet.              *)
LEMMA DirEntered ==
  ASSUME source \in Sources, NEW es, NEW left, NEW open, NEW sk, Honest(es, left, open, sk),
         NEW q, NEW c, NEW es2, NEW left2, Entered(es, left, open, q, c, es2, left2)
  PROVE  Honest(es2, left2, open \cup {c}, sk)
<1> USE DEF Entered
<1> DEFINE open2 == open \cup {c}
           x == Min(left[q])
<1>1. /\ DOMAIN left = DOMAIN es /\ open \subseteq DOMAIN es /\ q \in DOMAIN es
      /\ \A p \in DOMAIN es : Placed(es, left, open, p) /\ Covers(es, left, sk, p)
      /\ \A p \in DOMAIN es : \A e \in es[p] : Shows(es, left, open, p, e)
      /\ \A s \in sk : Noted(es, left, s)
  BY DEF Honest
<1>2. /\ DOMAIN es2 = DOMAIN es \cup {c} /\ DOMAIN left2 = DOMAIN es \cup {c}
      /\ es2[c] = {} /\ left2[c] = Listing(c) /\ c \notin DOMAIN es
      /\ \A p \in DOMAIN es : es2[p] = es[p] /\ left2[p] = left[p] /\ p # c
  OBVIOUS
<1>3. q \in Paths /\ left[q] \subseteq Listing(q) /\ c \in Paths
  <2>1. q \in Paths /\ left[q] \subseteq Listing(q)
    BY <1>1 DEF Placed
  <2>2. left[q] \in SUBSET Nat
    BY <2>1, PathFacts
  <2>3. x \in left[q]
    BY <2>2, LeastOf
  <2> QED  BY <2>1, <2>3, PathFacts
<1>4. Front(c) = q /\ Last(c) = x
  BY <1>3, ChildPath
<1>5. source[c].type = "dir" /\ c \notin Excluded
  OBVIOUS
<1>6. ASSUME NEW p \in DOMAIN es2
      PROVE  Placed(es2, left2, open2, p)
  <2>1. CASE p = c
    BY <1>1, <1>2, <1>3, <1>4, <1>5, <2>1 DEF Placed
  <2>2. CASE p # c
    <3>1. p \in DOMAIN es /\ Placed(es, left, open, p)
      BY <1>1, <1>2, <2>2
    <3> QED  BY <1>2, <2>2, <3>1 DEF Placed
  <2> QED  BY <2>1, <2>2
<1>7. ASSUME NEW p \in DOMAIN es2
      PROVE  Covers(es2, left2, sk, p)
  <2>1. CASE p = c
    BY <1>2, <2>1 DEF Covers
  <2>2. CASE p # c
    <3>1. Covers(es, left, sk, p) /\ es2[p] = es[p] /\ left2[p] = left[p]
      BY <1>1, <1>2, <2>2
    <3> QED  BY <3>1 DEF Covers
  <2> QED  BY <2>1, <2>2
<1>8. ASSUME NEW p \in DOMAIN es2, NEW e \in es2[p]
      PROVE  Shows(es2, left2, open2, p, e)
  <2>1. p \in DOMAIN es /\ e \in es[p]
    BY <1>2
  <2>2. Shows(es, left, open, p, e)
    BY <1>1, <2>1
  <2> QED  BY <1>2, <2>1, <2>2 DEF Shows
<1>9. ASSUME NEW s \in sk
      PROVE  Noted(es2, left2, s)
  <2>1. Noted(es, left, s)
    BY <1>1
  <2> QED  BY <1>2, <2>1 DEF Noted
<1>10. open2 \subseteq DOMAIN es2
  BY <1>1, <1>2
<1> QED  BY <1>2, <1>6, <1>7, <1>8, <1>9, <1>10 DEF Honest

(* A directory cannot be listed.                                           *)
LEMMA DirBlind ==
  ASSUME source \in Sources, NEW es, NEW left, NEW open, NEW sk, Honest(es, left, open, sk),
         NEW q \in open, es[q] = {}, left[q] = Listing(q),
         \A d \in open : d # <<>> => Front(d) # q
  PROVE  Honest(es, [left EXCEPT ![q] = {}], open, sk \cup {<<q, "unreadable">>})
<1> DEFINE left2 == [left EXCEPT ![q] = {}]
           sk2 == sk \cup {<<q, "unreadable">>}
<1>1. /\ DOMAIN left = DOMAIN es /\ open \subseteq DOMAIN es /\ q \in DOMAIN es
      /\ \A p \in DOMAIN es : Placed(es, left, open, p) /\ Covers(es, left, sk, p)
      /\ \A p \in DOMAIN es : \A e \in es[p] : Shows(es, left, open, p, e)
      /\ \A s \in sk : Noted(es, left, s)
  BY DEF Honest
<1>2. /\ DOMAIN left2 = DOMAIN es /\ left2[q] = {}
      /\ \A p \in DOMAIN es : p # q => left2[p] = left[p]
      /\ \A p \in DOMAIN es : left2[p] \subseteq left[p]
  BY <1>1
<1> HIDE DEF left2
<1>3. ASSUME NEW p \in DOMAIN es
      PROVE  Placed(es, left2, open, p)
  <2>1. Placed(es, left, open, p)
    BY <1>1
  <2>2. p \in Paths /\ left2[p] \subseteq Listing(p)
    BY <1>2, <2>1 DEF Placed
  <2>3. p \notin open => left2[p] = {}
    BY <1>2, <2>1 DEF Placed
  <2>4. p # <<>> => /\ source[p].type = "dir" /\ p \notin Excluded
                    /\ Front(p) \in DOMAIN es
                    /\ p \notin open => Last(p) \notin left2[Front(p)]
    BY <1>2, <2>1 DEF Placed
  <2>5. ASSUME p # <<>>, p \in open
        PROVE  left2[Front(p)] # {} /\ Last(p) = Min(left2[Front(p)])
    <3>1. Front(p) # q /\ Front(p) \in DOMAIN es
      BY <2>4, <2>5
    <3> QED  BY <1>2, <2>1, <2>5, <3>1 DEF Placed
  <2> QED  BY <2>2, <2>3, <2>4, <2>5 DEF Placed
<1>4. ASSUME NEW p \in DOMAIN es
      PROVE  Covers(es, left2, sk2, p)
  <2>1. CASE p = q
    <3>1. Blind(sk2, q)
      BY DEF Blind
    <3> QED  BY <2>1, <3>1 DEF Covers
  <2>2. CASE p # q
    <3>1. Covers(es, left, sk, p) /\ left2[p] = left[p]
      BY <1>1, <1>2, <2>2
    <3>2. Blind(sk2, p) <=> Blind(sk, p)
      BY <2>2 DEF Blind
    <3>3. \A d : Direct(sk2, d) <=> Direct(sk, d)
      BY DEF Direct
    <3> QED  BY <3>1, <3>2, <3>3 DEF Covers
  <2> QED  BY <2>1, <2>2
<1>5. ASSUME NEW p \in DOMAIN es, NEW e \in es[p]
      PROVE  Shows(es, left2, open, p, e)
  <2>1. Shows(es, left, open, p, e)
    BY <1>1
  <2> QED  BY <1>2, <2>1 DEF Shows
<1>6. ASSUME NEW s \in sk2
      PROVE  Noted(es, left2, s)
  <2>1. CASE s \in sk
    <3>1. Noted(es, left, s)
      BY <1>1, <2>1
    <3> QED  BY <1>2, <3>1 DEF Noted
  <2>2. CASE s = <<q, "unreadable">>
    BY <1>1, <1>2, <2>2 DEF Noted
  <2> QED  BY <2>1, <2>2
<1>7. Honest(es, left2, open, sk2)
  BY <1>1, <1>2, <1>3, <1>4, <1>5, <1>6 DEF Honest
<1> QED  BY <1>7 DEF left2

(* The directory itself is done.                                           *)
LEMMA RootDone ==
  ASSUME NEW es, NEW left, NEW sk, Honest(es, left, {<<>>}, sk), left[<<>>] = {}
  PROVE  Honest(es, left, {}, sk)
<1>1. ASSUME NEW p \in DOMAIN es
      PROVE  Placed(es, left, {}, p)
  BY DEF Honest, Placed
<1>2. ASSUME NEW p \in DOMAIN es, NEW e \in es[p]
      PROVE  Shows(es, left, {}, p, e)
  BY DEF Honest, Shows
<1> QED  BY <1>1, <1>2 DEF Honest

-----------------------------------------------------------------------------
(* The open directories are those on a stack, each one name deeper.        *)
Tracks(es, left, open, st) ==
  /\ IsSeq(st)
  /\ open = {st[i].path : i \in 1 .. Len(st)}
  /\ \A i \in 1 .. Len(st) :
       /\ Len(st[i].path) = i - 1
       /\ es[st[i].path] = st[i].entries /\ left[st[i].path] = st[i].todo

(* What the books say of the innermost directory.                          *)
LEMMA TopTracked ==
  ASSUME NEW es, NEW left, NEW open, NEW st, Tracks(es, left, open, st), Len(st) > 0
  PROVE  /\ Last(st).path \in open /\ Len(Last(st).path) = Len(st) - 1
         /\ es[Last(st).path] = Last(st).entries /\ left[Last(st).path] = Last(st).todo
<1>1. Len(st) \in 1 .. Len(st) /\ Last(st) = st[Len(st)]
  BY SeqLength DEF Tracks, Last
<1> QED  BY <1>1 DEF Tracks

(* A new innermost frame goes with new books for its directory ...         *)
LEMMA TracksReplaced ==
  ASSUME NEW es, NEW left, NEW open, NEW st, Tracks(es, left, open, st), Len(st) > 0,
         open \subseteq DOMAIN es, DOMAIN left = DOMAIN es,
         NEW f, f.path = Last(st).path
  PROVE  Tracks([es EXCEPT ![f.path] = f.entries], [left EXCEPT ![f.path] = f.todo],
                open, Front(st) \o <<f>>)
<1> DEFINE n == Len(st)
           t == Front(st) \o <<f>>
           es2 == [es EXCEPT ![f.path] = f.entries]
           left2 == [left EXCEPT ![f.path] = f.todo]
<1>1. IsSeq(st) /\ n \in Nat /\ n > 0 /\ n \in 1 .. n /\ Last(st) = st[n]
  BY SeqLength DEF Tracks, Last
<1>2. IsSeq(t) /\ Len(t) = n /\ t[n] = f /\ \A i \in 1 .. n - 1 : t[i] = st[i]
  BY <1>1, ReplacedFacts
<1>3. f.path \in DOMAIN es
  BY TopTracked
<1>4. /\ es2[f.path] = f.entries /\ left2[f.path] = f.todo
      /\ \A p \in DOMAIN es : p # f.path => es2[p] = es[p] /\ left2[p] = left[p]
  BY <1>3
<1>5. \A i \in 1 .. n : t[i].path = st[i].path
  <2> SUFFICES ASSUME NEW i \in 1 .. n PROVE t[i].path = st[i].path
    OBVIOUS
  <2>1. CASE i = n
    BY <1>1, <1>2, <2>1
  <2>2. CASE i # n
    <3>1. i \in 1 .. n - 1
      BY <1>1, <2>2
    <3> QED  BY <1>2, <3>1
  <2> QED  BY <2>1, <2>2
<1> HIDE DEF t, es2, left2, n
<1>6. ASSUME NEW i \in 1 .. n
      PROVE  /\ Len(t[i].path) = i - 1
             /\ es2[t[i].path] = t[i].entries /\ left2[t[i].path] = t[i].todo
  <2>1. /\ Len(st[i].path) = i - 1 /\ st[i].path \in open
        /\ es[st[i].path] = st[i].entries /\ left[st[i].path] = st[i].todo
        /\ Len(st[n].path) = n - 1
    BY <1>1 DEF Tracks, n
  <2>2. CASE i = n
    BY <1>1, <1>2, <1>4, <2>1, <2>2
  <2>3. CASE i # n
    <3>1. i \in 1 .. n - 1 /\ t[i] = st[i]
      BY <1>1, <1>2, <2>3
    <3>2. st[i].path # f.path
      BY <1>1, <2>1, <2>3, <3>1
    <3>3. es2[st[i].path] = es[st[i].path] /\ left2[st[i].path] = left[st[i].path]
      BY <1>4, <2>1, <3>2
    <3> QED  BY <2>1, <3>1, <3>3
  <2> QED  BY <2>2, <2>3
<1>7. open = {t[i].path : i \in 1 .. n}
  BY <1>5 DEF Tracks, n
<1>8. Tracks(es2, left2, open, t)
  BY <1>2, <1>6, <1>7 DEF Tracks
<1> QED  BY <1>8 DEF t, es2, left2

(* ... leaving a directory closes its books ...                            *)
LEMMA TracksPopped ==
  ASSUME NEW es, NEW left, NEW open, NEW st, Tracks(es, left, open, st), Len(st) > 0
  PROVE  Tracks(es, left, open \ {Last(st).path}, Front(st))
<1> DEFINE n == Len(st)
           t == Front(st)
<1>1. IsSeq(st) /\ n \in Nat /\ n > 0 /\ n \in 1 .. n /\ Last(st) = st[n]
  BY SeqLength DEF Tracks, Last
<1>2. IsSeq(t) /\ Len(t) = n - 1 /\ \A i \in 1 .. n - 1 : t[i] = st[i]
  BY <1>1, FrontFacts
<1> HIDE DEF t
<1>3. \A i \in 1 .. n : Len(st[i].path) = i - 1
  BY DEF Tracks
<1>4. ASSUME NEW i \in 1 .. n - 1
      PROVE  i \in 1 .. n /\ st[i].path # st[n].path
  <2>1. i \in 1 .. n /\ i # n
    BY <1>1
  <2>2. Len(st[i].path) = i - 1 /\ Len(st[n].path) = n - 1
    BY <1>1, <1>3, <2>1
  <2> HIDE DEF n
  <2>3. i - 1 # n - 1
    BY <1>1, <2>1
  <2> QED  BY <2>1, <2>2, <2>3
<1>5. open \ {Last(st).path} = {t[i].path : i \in 1 .. n - 1}
  <2>1. open = {st[i].path : i \in 1 .. n}
    BY DEF Tracks
  <2>2. \A i \in 1 .. n : i = n \/ i \in 1 .. n - 1
    BY <1>1
  <2> HIDE DEF n
  <2>3. {t[i].path : i \in 1 .. n - 1} = {st[i].path : i \in 1 .. n - 1}
    BY <1>2
  <2> QED  BY <1>1, <1>4, <2>1, <2>2, <2>3
<1>6. ASSUME NEW i \in 1 .. n - 1
      PROVE  /\ Len(t[i].path) = i - 1
             /\ es[t[i].path] = t[i].entries /\ left[t[i].path] = t[i].todo
  BY <1>2, <1>4 DEF Tracks
<1> QED  BY <1>2, <1>5, <1>6 DEF Tracks, t

(* ... and entering one opens them.                                        *)
LEMMA TracksPushed ==
  ASSUME NEW es, NEW left, NEW open, NEW st, Tracks(es, left, open, st),
         open \subseteq DOMAIN es,
         NEW f, f.path \notin DOMAIN es, Len(f.path) = Len(st),
         NEW es2, NEW left2,
         es2 = [p \in DOMAIN es \cup {f.path} |-> IF p = f.path THEN f.entries ELSE es[p]],
         left2 = [p \in DOMAIN es \cup {f.path} |-> IF p = f.path THEN f.todo ELSE left[p]]
  PROVE  Tracks(es2, left2, open \cup {f.path}, Append(st, f))
<1> DEFINE n == Len(st)
           t == Append(st, f)
<1>1. IsSeq(st) /\ n \in Nat
  BY SeqLength DEF Tracks
<1>2. IsSeq(t) /\ Len(t) = n + 1 /\ t[n + 1] = f /\ \A i \in 1 .. n : t[i] = st[i]
  BY <1>1, AppendFacts
<1> HIDE DEF t
<1>3. /\ es2[f.path] = f.entries /\ left2[f.path] = f.todo
      /\ \A p \in DOMAIN es : es2[p] = es[p] /\ left2[p] = left[p]
  OBVIOUS
<1>4. ASSUME NEW i \in 1 .. n + 1
      PROVE  /\ Len(t[i].path) = i - 1
             /\ es2[t[i].path] = t[i].entries /\ left2[t[i].path] = t[i].todo
  <2>1. CASE i = n + 1
    BY <1>1, <1>2, <1>3, <2>1
  <2>2. CASE i # n + 1
    <3>1. i \in 1 .. n
      BY <1>1, <2>2
    <3>2. /\ Len(st[i].path) = i - 1 /\ st[i].path \in DOMAIN es
          /\ es[st[i].path] = st[i].entries /\ left[st[i].path] = st[i].todo
      BY <3>1 DEF Tracks
    <3> QED  BY <1>2, <1>3, <3>1, <3>2
  <2> QED  BY <2>1, <2>2
<1>5. open \cup {f.path} = {t[i].path : i \in 1 .. n + 1}
  <2>1. open = {st[i].path : i \in 1 .. n}
    BY DEF Tracks
  <2>2. 1 .. n + 1 = (1 .. n) \cup {n + 1}
    BY <1>1
  <2>3. {t[i].path : i \in 1 .. n} = {st[i].path : i \in 1 .. n}
    BY <1>2
  <2> HIDE DEF n
  <2> QED  BY <1>2, <2>1, <2>2, <2>3
<1> QED  BY <1>2, <1>4, <1>5 DEF Tracks, t

(* What the innermost directory's next name is to the books.               *)
LEMMA NextName ==
  ASSUME source \in Sources, NEW es, NEW left, NEW open, NEW sk, Honest(es, left, open, sk),
         NEW st, Tracks(es, left, open, st), Len(st) > 0
  PROVE  /\ \A x : Append(Last(st).path, x) \notin open
         /\ \A d \in open : d # <<>> => Front(d) # Last(st).path
         /\ \A x \in left[Last(st).path] : Append(Last(st).path, x) \notin DOMAIN es
<1> DEFINE q == Last(st).path
           n == Len(st)
<1>1. q \in open /\ Len(q) = n - 1 /\ n \in Nat /\ IsSeq(st)
  <2>1. IsSeq(st)
    BY DEF Tracks
  <2> QED  BY <2>1, TopTracked, SeqLength
<1>2. /\ open \subseteq DOMAIN es
      /\ \A p \in DOMAIN es : Placed(es, left, open, p)
  BY DEF Honest
<1>3. q \in Paths
  BY <1>1, <1>2 DEF Placed
<1>4. \A d \in open : Len(d) \in 0 .. n - 1
  <2>1. \A i \in 1 .. n : Len(st[i].path) = i - 1
    BY DEF Tracks
  <2>2. open = {st[i].path : i \in 1 .. n}
    BY DEF Tracks
  <2> HIDE DEF n
  <2> QED  BY <1>1, <2>1, <2>2
<1> HIDE DEF q, n
<1>5. ASSUME NEW x
      PROVE  Append(q, x) \notin open
  <2>1. Len(Append(q, x)) = Len(q) + 1
    BY <1>3, ChildPath
  <2>2. Len(Append(q, x)) \notin 0 .. n - 1
    BY <1>1, <2>1
  <2> QED  BY <1>4, <2>2
<1>6. ASSUME NEW d \in open, d # <<>>, Front(d) = q PROVE FALSE
  <2>1. d \in Paths
    BY <1>2 DEF Placed
  <2>2. d = Append(q, Last(d))
    BY <1>6, <2>1, PathParts
  <2> QED  BY <1>5, <1>6, <2>2
<1>7. ASSUME NEW x \in left[q], Append(q, x) \in DOMAIN es PROVE FALSE
  <2>1. Append(q, x) \notin open /\ Append(q, x) # <<>>
        /\ Front(Append(q, x)) = q /\ Last(Append(q, x)) = x
    BY <1>3, <1>5, ChildPath
  <2> QED  BY <1>2, <1>7, <2>1 DEF Placed
<1> QED  BY <1>5, <1>6, <1>7 DEF q

(* A name of the innermost directory is done, on the stack and in the      *)
(* books.                                                                  *)
NameStep(es, left, open, sk, st, c, E, sk2, f) ==
  /\ Honest(es, left, open, sk)
  /\ Len(st) > 0 /\ Last(st).todo # {} /\ c = Append(Last(st).path, Min(Last(st).todo))
  /\ Tracks(es, left, open \ {c}, st)
  /\ c \in DOMAIN es => left[c] = {}
  /\ \A e \in E : /\ e.name = Min(Last(st).todo) /\ EntryOf(c, e)
                  /\ IsDirEntry(e) => c \in DOMAIN es /\ Subnode(e) = NodeId(es[c])
  /\ \/ E # {} /\ sk2 = sk /\ c \notin Excluded
     \/ E = {} /\ sk2 = sk /\ c \in Excluded
     \/ E = {} /\ \E r \in {"unread", "special"} : sk2 = sk \cup {<<c, r>>}
  /\ f.path = Last(st).path
  /\ f.todo = Last(st).todo \ {Min(Last(st).todo)}
  /\ f.entries = Last(st).entries \cup E

(* When a name is done the books follow the stack.                         *)
LEMMA BooksFollow ==
  ASSUME source \in Sources, NEW es, NEW left, NEW open, NEW sk, NEW st, NEW c, NEW E, NEW sk2,
         NEW f, NameStep(es, left, open, sk, st, c, E, sk2, f)
  PROVE  \E es2, left2, open2 : /\ Honest(es2, left2, open2, sk2)
                               /\ Tracks(es2, left2, open2, Front(st) \o <<f>>)
<1> USE DEF NameStep
<1> DEFINE q == Last(st).path
           x == Min(Last(st).todo)
           es2 == [es EXCEPT ![q] = es[q] \cup E]
           left2 == [left EXCEPT ![q] = left[q] \ {x}]
<1>1. /\ q \in open /\ es[q] = Last(st).entries /\ left[q] = Last(st).todo
  BY TopTracked
<1>2. DOMAIN left = DOMAIN es /\ open \subseteq DOMAIN es
  BY DEF Honest
<1>3. Honest(es2, left2, open \ {c}, sk2)
  <2>1. left[q] # {} /\ x = Min(left[q]) /\ c = Append(q, x)
    BY <1>1
  <2>2. \A e \in E : /\ e.name = x /\ EntryOf(Append(q, x), e)
                     /\ IsDirEntry(e) => /\ Append(q, x) \in DOMAIN es
                                         /\ Subnode(e) = NodeId(es[Append(q, x)])
    BY <2>1
  <2>3. \/ E # {} /\ sk2 = sk /\ Append(q, x) \notin Excluded
        \/ E = {} /\ sk2 = sk /\ Append(q, x) \in Excluded
        \/ E = {} /\ \E r \in {"unread", "special"} : sk2 = sk \cup {<<Append(q, x), r>>}
    BY <2>1
  <2>4. Append(q, x) \in DOMAIN es => left[Append(q, x)] = {}
    BY <2>1
  <2> HIDE DEF q, x
  <2>5. Honest(es2, left2, open \ {Append(q, x)}, sk2)
    BY <1>1, <2>1, <2>2, <2>3, <2>4, NameDone
  <2> QED  BY <2>1, <2>5
<1>4. es2 = [es EXCEPT ![f.path] = f.entries] /\ left2 = [left EXCEPT ![f.path] = f.todo]
  BY <1>1
<1>5. Tracks(es2, left2, open \ {c}, Front(st) \o <<f>>)
  <2> HIDE DEF es2, left2
  <2> QED  BY <1>2, <1>4, TracksReplaced
<1> QED  BY <1>3, <1>5

(* The frame that Passed leaves on top, and the one that Captured leaves.  *)
LEMMA PassedFrame ==
  ASSUME NEW stored, NEW st, StackSound(st, stored)
  PROVE  \E f : /\ Passed(st) = Front(st) \o <<f>> /\ f.path = Last(st).path
               /\ f.todo = Last(st).todo \ {Min(Last(st).todo)}
               /\ f.entries = Last(st).entries \cup {}
<1> DEFINE fr == Last(st)
           g == [fr EXCEPT !.todo = @ \ {Min(@)}]
<1>1. fr = [path |-> fr.path, todo |-> fr.todo, entries |-> fr.entries]
  BY TopSound DEF FrameSound
<1> HIDE DEF fr
<1>2. g.path = fr.path /\ g.todo = fr.todo \ {Min(fr.todo)} /\ g.entries = fr.entries
  BY <1>1
<1>3. Passed(st) = Front(st) \o <<g>>
  BY DEF Passed, fr
<1> HIDE DEF g
<1> QED  BY <1>2, <1>3 DEF fr

LEMMA CapturedFrame ==
  ASSUME NEW stored, NEW st, StackSound(st, stored), NEW e
  PROVE  \E f : /\ Captured(st, e) = Front(st) \o <<f>> /\ f.path = Last(st).path
               /\ f.todo = Last(st).todo \ {Min(Last(st).todo)}
               /\ f.entries = Last(st).entries \cup {e}
<1> DEFINE fr == Last(st)
           fe == [fr EXCEPT !.entries = @ \cup {e}]
           g == [fe EXCEPT !.todo = @ \ {Min(@)}]
           t == Front(st) \o <<fe>>
<1>1. fr = [path |-> fr.path, todo |-> fr.todo, entries |-> fr.entries]
  BY TopSound DEF FrameSound
<1>2. Captured(st, e) = Passed(t)
  BY DEF Captured
<1>3. IsSeq(st) /\ Len(st) > 0
  BY DEF StackSound
<1> HIDE DEF fr
<1>4. fe = [path |-> fr.path, todo |-> fr.todo, entries |-> fr.entries \cup {e}]
  BY <1>1
<1> HIDE DEF fe
<1>5. /\ g.path = fr.path /\ g.todo = fr.todo \ {Min(fr.todo)}
      /\ g.entries = fr.entries \cup {e}
  BY <1>4
<1>6. Last(t) = fe /\ Front(t) = Front(st)
  BY <1>3, ReplacedFacts
<1> HIDE DEF t
<1>7. Captured(st, e) = Front(st) \o <<g>>
  BY <1>2, <1>6 DEF Passed
<1> HIDE DEF g
<1> QED  BY <1>5, <1>7 DEF fr

-----------------------------------------------------------------------------
(* The invariant. *)

(* The stack, with the names that a listing under way is about to find.    *)
View == IF scan = "list" THEN Front(stack) \o <<[Top EXCEPT !.todo = Listing(Top.path)]>>
        ELSE stack

BooksKept ==
  /\ scan \in {"list", "walk", "file"} =>
       \E es, left, open : Honest(es, left, open, skipped) /\ Tracks(es, left, open, View)
  /\ scan = "done" =>
       \E es, left : /\ Honest(es, left, {}, skipped)
                    /\ <<>> \in DOMAIN es /\ root = NodeId(es[<<>>])
  /\ scan = "file" => source[Here].type = "file" /\ Here \notin Excluded

Unread == {s \in skipped : s[2] # "special"}

SkipsCounted ==
  /\ IsFiniteSet(Unread) /\ Cardinality(Unread) <= failures
  /\ \A s \in skipped : s[2] = "special" => source[s[1]].type = "special"

(* The books speak of the directory and the skip list only.                *)
LEMMA HonestPrime ==
  ASSUME source' = source, NEW es, NEW left, NEW open, Honest(es, left, open, skipped')
  PROVE  Honest(es, left, open, skipped)'
<1>1. \A p : Listing(p)' = Listing(p)
  BY DEF Listing
<1>2. \A p, e : EntryOf(p, e)' <=> EntryOf(p, e)
  BY DEF EntryOf
<1> QED  BY <1>1, <1>2 DEF Honest, Placed, Shows, Covers, Noted, Paths

(* Books for the next stack are the books of the next state.               *)
LEMMA BooksPrime ==
  ASSUME source' = source, scan' = "walk",
         \E es, left, open : Honest(es, left, open, skipped') /\ Tracks(es, left, open, stack')
  PROVE  BooksKept'
<1>1. PICK es, left, open : Honest(es, left, open, skipped') /\ Tracks(es, left, open, stack')
  OBVIOUS
<1>2. Honest(es, left, open, skipped)'
  BY <1>1, HonestPrime
<1>3. View' = stack'
  BY DEF View
<1>4. Tracks(es, left, open, View)'
  BY <1>1, <1>3 DEF Tracks
<1> QED  BY <1>2, <1>4 DEF BooksKept

(* A name that is no directory is done.                                   *)
LEMMA NameBooked ==
  ASSUME ScanInv, BooksKept, scan \in {"walk", "file"}, Top.todo # {},
         source' = source, scan' = "walk",
         NEW E, \A e \in E : e.name = Name /\ EntryOf(Here, e) /\ ~IsDirEntry(e),
         \/ E # {} /\ skipped' = skipped /\ Here \notin Excluded
         \/ E = {} /\ skipped' = skipped /\ Here \in Excluded
         \/ E = {} /\ \E r \in {"unread", "special"} : skipped' = skipped \cup {<<Here, r>>},
         NEW f, stack' = Front(stack) \o <<f>>, f.path = Top.path,
         f.todo = Top.todo \ {Name}, f.entries = Top.entries \cup E
  PROVE  BooksKept'
<1>1. source \in Sources /\ Len(stack) > 0 /\ Name \in Top.todo
  BY ScanFacts
<1>2. PICK es, left, open : Honest(es, left, open, skipped) /\ Tracks(es, left, open, stack)
  BY DEF BooksKept, View
<1>3. left[Top.path] = Top.todo
  BY <1>1, <1>2, TopTracked DEF Top
<1>4. Here \notin DOMAIN es /\ Here \notin open
  BY <1>1, <1>2, <1>3, NextName DEF Here, Top
<1>5. open \ {Here} = open
  BY <1>4
<1>6. PICK at : at = Here
  OBVIOUS
<1>7. PICK st : st = stack
  OBVIOUS
<1>8. PICK sk, sk2 : sk = skipped /\ sk2 = skipped'
  OBVIOUS
<1>9. /\ at = Append(Last(st).path, Min(Last(st).todo)) /\ Len(st) > 0 /\ Last(st).todo # {}
      /\ f.path = Last(st).path /\ f.todo = Last(st).todo \ {Min(Last(st).todo)}
      /\ f.entries = Last(st).entries \cup E
  BY <1>1, <1>6, <1>7 DEF Here, Name, Top
<1>10. \A e \in E : e.name = Min(Last(st).todo) /\ EntryOf(at, e) /\ ~IsDirEntry(e)
  BY <1>6, <1>7 DEF Name, Top
<1>11. \E es2, left2, open2 : /\ Honest(es2, left2, open2, sk2)
                             /\ Tracks(es2, left2, open2, Front(st) \o <<f>>)
  <2>1. \/ E # {} /\ sk2 = sk /\ at \notin Excluded
        \/ E = {} /\ sk2 = sk /\ at \in Excluded
        \/ E = {} /\ \E r \in {"unread", "special"} : sk2 = sk \cup {<<at, r>>}
    BY <1>6, <1>8
  <2>2. Honest(es, left, open, sk) /\ Tracks(es, left, open \ {at}, st) /\ at \notin DOMAIN es
    BY <1>2, <1>4, <1>5, <1>6, <1>7, <1>8
  <2>3. \A e \in E : /\ e.name = Min(Last(st).todo) /\ EntryOf(at, e)
                     /\ IsDirEntry(e) => at \in DOMAIN es /\ Subnode(e) = NodeId(es[at])
    BY <1>10
  <2>4. NameStep(es, left, open, sk, st, at, E, sk2, f)
    BY <1>9, <2>1, <2>2, <2>3 DEF NameStep
  <2> QED  BY <1>1, <2>4, BooksFollow
<1> QED  BY <1>7, <1>8, <1>11, BooksPrime

(* A name is passed over: excluded, special, or it raised.                 *)
LEMMA PassBooks ==
  ASSUME ScanInv, BooksKept, PassExcluded \/ VisitFails \/ VisitSpecial \/ ScanFails
  PROVE  BooksKept'
<1>1. /\ scan \in {"walk", "file"} /\ Top.todo # {} /\ source' = source /\ scan' = "walk"
      /\ stack' = Passed(stack)
  BY DEF PassExcluded, VisitFails, VisitSpecial, ScanFails, SkipHere, Visiting, Reached,
         ScanInv, FileSound
<1>2. \/ skipped' = skipped /\ Here \in Excluded
      \/ \E r \in {"unread", "special"} : skipped' = skipped \cup {<<Here, r>>}
  BY DEF PassExcluded, VisitFails, VisitSpecial, ScanFails, SkipHere, Skip
<1>3. PICK f : /\ stack' = Front(stack) \o <<f>> /\ f.path = Top.path
               /\ f.todo = Top.todo \ {Name} /\ f.entries = Top.entries \cup {}
  BY <1>1, ScanFacts, PassedFrame DEF Top, Name
<1> DEFINE none == {}
<1>4. \A e \in none : e.name = Name /\ EntryOf(Here, e) /\ ~IsDirEntry(e)
  OBVIOUS
<1>5. none = {} /\ f.entries = Top.entries \cup none
  BY <1>3
<1> HIDE DEF none
<1> QED  BY <1>1, <1>2, <1>3, <1>4, <1>5, NameBooked

(* A name is captured: a link, or a file read to its end.                  *)
LEMMA CaptureBooks ==
  ASSUME ScanInv, BooksKept, VisitLink \/ EndFile
  PROVE  BooksKept'
<1>1. /\ scan \in {"walk", "file"} /\ Top.todo # {} /\ source' = source /\ scan' = "walk"
      /\ skipped' = skipped /\ Here \notin Excluded
  BY DEF VisitLink, EndFile, Visiting, Reached, ScanInv, FileSound, BooksKept
<1>2. source \in Sources /\ Here \in Paths /\ StackSound(stack, chunks)
  BY <1>1, ScanFacts
<1>3. PICK e : stack' = Captured(stack, e) /\ e.name = Name /\ EntryOf(Here, e) /\ ~IsDirEntry(e)
  <2>1. CASE VisitLink
    <3> DEFINE e == LinkEntry(Name, source[Here].data[1])
    <3>1. source[Here].type = "link" /\ source[Here].mode = "open"
      BY <1>2, <2>1, ScanAssumption DEF VisitLink, Reached, Paths
    <3>2. /\ e.name = Name /\ e.type = "link" /\ e.mode = "open"
          /\ e = LinkEntry(e.name, source[Here].data[1])
      BY DEF LinkEntry, Entry
    <3>3. stack' = Captured(stack, e)
      BY <2>1 DEF VisitLink
    <3> HIDE DEF e
    <3>4. EntryOf(Here, e) /\ ~IsDirEntry(e)
      BY <3>1, <3>2 DEF EntryOf, IsDirEntry
    <3> QED  BY <3>2, <3>3, <3>4
  <2>2. CASE EndFile
    <3> DEFINE e == FileEntry(Name, source[Here].mode, file)
               data == source[Here].data
    <3>1. source[Here].type = "file"
      BY <2>2 DEF EndFile, BooksKept
    <3>2. file = data
      <4>1. /\ scan = "file" /\ Len(file) = Len(data)
            /\ file \in Seq(Range(data)) /\ IsPrefix(file, data)
        BY <2>2 DEF EndFile, ScanInv, FileSound
      <4>2. data \in Seq(Range(data))
        BY <1>2, PathFacts
      <4> DEFINE S == Range(data)
      <4> HIDE DEF data, S
      <4>3. file \in Seq(S) /\ data \in Seq(S) /\ Len(file) = Len(data) /\ Len(file) \in Nat
        BY <4>1, <4>2 DEF S
      <4>4. SubSeq(file, 1, Len(file)) = SubSeq(data, 1, Len(file))
        BY <4>1 DEF IsPrefix
      <4>5. \A i \in 1 .. Len(file) :
              /\ SubSeq(file, 1, Len(file))[i] = file[i]
              /\ SubSeq(data, 1, Len(file))[i] = data[i]
        BY <4>3
      <4>6. \A i \in 1 .. Len(file) : file[i] = data[i]
        BY <4>4, <4>5
      <4> QED  BY <4>3, <4>6, SeqEqual
    <3>3. /\ e.name = Name /\ e.type = "file" /\ e.mode = source[Here].mode
          /\ e = FileEntry(e.name, source[Here].mode, file)
      BY DEF FileEntry, Entry
    <3>4. stack' = Captured(stack, e)
      BY <2>2 DEF EndFile
    <3> HIDE DEF e, data
    <3>5. EntryOf(Here, e) /\ ~IsDirEntry(e)
      BY <3>1, <3>2, <3>3 DEF EntryOf, IsDirEntry, data
    <3> QED  BY <3>3, <3>4, <3>5
  <2> QED  BY <2>1, <2>2
<1>4. PICK f : /\ stack' = Front(stack) \o <<f>> /\ f.path = Top.path
               /\ f.todo = Top.todo \ {Name} /\ f.entries = Top.entries \cup {e}
  <2>1. PICK f : /\ Captured(stack, e) = Front(stack) \o <<f>> /\ f.path = Last(stack).path
                 /\ f.todo = Last(stack).todo \ {Min(Last(stack).todo)}
                 /\ f.entries = Last(stack).entries \cup {e}
    BY ONLY <1>2, CapturedFrame
  <2> QED  BY <1>3, <2>1 DEF Top, Name
<1> DEFINE E == {e}
<1>5. E # {} /\ f.entries = Top.entries \cup E
      /\ \A d \in E : d.name = Name /\ EntryOf(Here, d) /\ ~IsDirEntry(d)
  BY <1>3, <1>4
<1> HIDE DEF E
<1> QED  BY <1>1, <1>4, <1>5, NameBooked

(* The top of the view of a stack whose innermost directory is unread.     *)
LEMMA ViewTop ==
  ASSUME ScanInv, scan = "list"
  PROVE  \E f : /\ View = Front(stack) \o <<f>> /\ f.path = Top.path
               /\ f.todo = Listing(Top.path) /\ f.entries = {}
               /\ Len(View) = Len(stack) /\ Last(View) = f
               /\ \A i \in 1 .. Len(stack) - 1 : View[i] = stack[i]
<1> DEFINE f == [Top EXCEPT !.todo = Listing(Top.path)]
<1>1. /\ IsSeq(stack) /\ Len(stack) > 0 /\ Top.entries = {}
      /\ Top = [path |-> Top.path, todo |-> Top.todo, entries |-> Top.entries]
  BY ScanFacts DEF ScanInv, FileSound, FrameSound
<1>2. f.path = Top.path /\ f.todo = Listing(Top.path) /\ f.entries = {}
  BY <1>1
<1>3. View = Front(stack) \o <<f>>
  BY DEF View
<1> HIDE DEF f
<1>4. /\ Len(View) = Len(stack) /\ Last(View) = f
      /\ \A i \in 1 .. Len(stack) - 1 : View[i] = stack[i]
  BY <1>1, <1>3, ReplacedFacts
<1> QED  BY <1>2, <1>3, <1>4

(* A directory is listed, or found unreadable.                             *)
LEMMA ListBooks ==
  ASSUME ScanInv, BooksKept, ListDir
  PROVE  BooksKept'
<1>1. scan = "list" /\ scan' = "walk" /\ source' = source
  BY DEF ListDir
<1>2. source \in Sources /\ IsSeq(stack) /\ Len(stack) > 0 /\ Len(stack) \in Nat
  BY ScanFacts, SeqLength
<1>3. PICK es, left, open : Honest(es, left, open, skipped) /\ Tracks(es, left, open, View)
  BY <1>1 DEF BooksKept
<1>4. CASE stack' = Front(stack) \o <<[Top EXCEPT !.todo = Listing(Top.path)]>>
           /\ UNCHANGED <<skipped, failures>>
  <2>1. stack' = View /\ skipped' = skipped
    BY <1>1, <1>4 DEF View
  <2> QED  BY <1>1, <1>3, <2>1, BooksPrime
<1>5. CASE Raises /\ Skip(Top.path, "unreadable") /\ UNCHANGED stack
  <2> DEFINE q == Top.path
             n == Len(stack)
             left2 == [left EXCEPT ![q] = {}]
  <2>1. PICK f : /\ f.path = q /\ f.todo = Listing(q) /\ f.entries = {}
                 /\ Len(View) = n /\ Last(View) = f
                 /\ \A i \in 1 .. n - 1 : View[i] = stack[i]
    BY <1>1, ViewTop
  <2>2. Top.todo = {} /\ Top.entries = {} /\ Top = stack[n]
    BY <1>1 DEF ScanInv, FileSound, Top, Last
  <2>3. stack' = stack /\ skipped' = skipped \cup {<<q, "unreadable">>}
    BY <1>5 DEF Skip
  <2> HIDE DEF q, n
  <2>4. PICK sk : sk = skipped
    OBVIOUS
  <2>5. PICK v : v = View
    OBVIOUS
  <2>6. Honest(es, left, open, sk) /\ Tracks(es, left, open, v) /\ Len(v) > 0
    BY <1>2, <1>3, <2>1, <2>4, <2>5 DEF n
  <2>7. PICK d : d = q
    OBVIOUS
  <2>8. /\ d \in open /\ es[d] = {} /\ left[d] = Listing(d) /\ Last(v).path = d
        /\ Len(d) = n - 1
    BY <1>2, <2>1, <2>5, <2>6, <2>7, TopTracked DEF n
  <2>9. \A c \in open : c # <<>> => Front(c) # d
    BY <1>2, <2>6, <2>8, NextName
  <2>10. Honest(es, [left EXCEPT ![d] = {}], open, sk \cup {<<d, "unreadable">>})
    BY <1>2, <2>6, <2>8, <2>9, DirBlind
  <2>11. Honest(es, left2, open, skipped')
    BY <2>3, <2>4, <2>7, <2>10
  <2>12. /\ q \in DOMAIN left /\ left2[q] = {} /\ \A p \in DOMAIN left : p # q => left2[p] = left[p]
    BY <2>6, <2>7, <2>8 DEF Honest
  <2> HIDE DEF left2
  <2>13. /\ \A i \in 1 .. n : Len(v[i].path) = i - 1 /\ v[i].path \in open
         /\ \A i \in 1 .. n : es[v[i].path] = v[i].entries /\ left[v[i].path] = v[i].todo
         /\ v[n] = Last(v) /\ open = {v[i].path : i \in 1 .. n}
    BY <2>1, <2>5, <2>6 DEF Tracks, Last
  <2>14. ASSUME NEW i \in 1 .. n
         PROVE  /\ stack[i].path = v[i].path /\ Len(stack[i].path) = i - 1
                /\ es[stack[i].path] = stack[i].entries /\ left2[stack[i].path] = stack[i].todo
    <3>1. CASE i = n
      <4>1. stack[i].path = q /\ stack[i].entries = {} /\ stack[i].todo = {}
        BY <2>2, <3>1 DEF q
      <4>2. v[i].path = q /\ Len(v[i].path) = i - 1
        BY <2>1, <2>5, <2>13, <3>1
      <4> QED  BY <2>7, <2>8, <2>12, <4>1, <4>2
    <3>2. CASE i # n
      <4>1. i \in 1 .. n - 1 /\ stack[i] = v[i]
        BY <1>2, <2>1, <2>5, <3>2 DEF n
      <4>2. v[i].path # q /\ v[i].path \in DOMAIN left
        <5>1. Len(v[i].path) = i - 1 /\ Len(q) = n - 1 /\ n \in Nat
          BY <1>2, <2>7, <2>8, <2>13 DEF n
        <5>2. v[i].path # q
          BY <3>2, <5>1
        <5> QED  BY <2>6, <2>13, <5>2 DEF Honest
      <4> QED  BY <2>12, <2>13, <4>1, <4>2
    <3> QED  BY <3>1, <3>2
  <2>15. open = {stack[i].path : i \in 1 .. n}
    <3>1. open = {v[i].path : i \in 1 .. n}
      BY <2>13
    <3>2. \A i \in 1 .. n : stack[i].path = v[i].path
      BY <2>14
    <3> QED  BY <3>1, <3>2
  <2>16. Tracks(es, left2, open, stack)
    BY <1>2, <2>14, <2>15 DEF Tracks, n
  <2> QED  BY <1>1, <2>3, <2>11, <2>16, BooksPrime
<1> QED  BY <1>4, <1>5 DEF ListDir

(* A file is opened or read.                                               *)
LEMMA FileBooks ==
  ASSUME ScanInv, BooksKept, VisitFile \/ ScanChunk
  PROVE  BooksKept'
<1>1. /\ scan \in {"walk", "file"} /\ scan' = "file" /\ source' = source
      /\ stack' = stack /\ skipped' = skipped
      /\ source[Here].type = "file" /\ Here \notin Excluded
  BY DEF VisitFile, ScanChunk, Visiting, Reached, BooksKept
<1>2. View = stack /\ View' = stack /\ Here' = Here
  BY <1>1 DEF View, Here, Top, Name
<1>3. PICK es, left, open : Honest(es, left, open, skipped) /\ Tracks(es, left, open, View)
  BY <1>1 DEF BooksKept
<1>4. Honest(es, left, open, skipped)'
  BY <1>1, <1>3, HonestPrime
<1>5. Tracks(es, left, open, View)'
  BY <1>2, <1>3 DEF Tracks
<1> QED  BY <1>1, <1>2, <1>4, <1>5 DEF BooksKept

(* A directory is entered, yet to be listed.                               *)
LEMMA EnterBooks ==
  ASSUME ScanInv, BooksKept, VisitDir
  PROVE  BooksKept'
<1>1. /\ scan = "walk" /\ scan' = "list" /\ source' = source /\ skipped' = skipped
      /\ Top.todo # {} /\ Here \notin Excluded /\ source[Here].type = "dir"
      /\ stack' = Append(stack, Frame(Here))
  BY DEF VisitDir, Reached, Visiting
<1>2. /\ source \in Sources /\ IsSeq(stack) /\ Len(stack) > 0 /\ Len(stack) \in Nat
      /\ Here \in Paths /\ Top.path \in Paths /\ Name \in Top.todo
  BY <1>1, ScanFacts, SeqLength
<1>3. PICK es, left, open : Honest(es, left, open, skipped) /\ Tracks(es, left, open, stack)
  BY <1>1 DEF BooksKept, View
<1>4. PICK c : c = Here
  OBVIOUS
<1>5. PICK sk : sk = skipped
  OBVIOUS
<1>6. PICK q, x : q = Top.path /\ x = Name
  OBVIOUS
<1>7. /\ q \in open /\ left[q] = Top.todo /\ Len(q) = Len(stack) - 1
      /\ open \subseteq DOMAIN es
  BY <1>2, <1>3, <1>6, TopTracked DEF Honest, Top
<1>8. c = Append(q, x) /\ x = Min(left[q]) /\ left[q] # {}
  BY <1>1, <1>4, <1>6, <1>7 DEF Here, Name
<1>9. c \notin DOMAIN es
  BY <1>2, <1>3, <1>6, <1>7, <1>8, NextName DEF Top
<1> DEFINE open2 == open \cup {c}
           g == [path |-> c, todo |-> Listing(c), entries |-> {}]
<1>10. PICK es2, left2 :
          /\ es2 = [p \in DOMAIN es \cup {c} |-> IF p = c THEN {} ELSE es[p]]
          /\ left2 = [p \in DOMAIN es \cup {c} |-> IF p = c THEN Listing(c) ELSE left[p]]
  OBVIOUS
<1>11. Honest(es2, left2, open2, sk)
  <2>1. /\ Honest(es, left, open, sk) /\ c \notin Excluded /\ source[c].type = "dir"
    BY <1>1, <1>3, <1>4, <1>5
  <2>2. Entered(es, left, open, q, c, es2, left2)
    BY <1>7, <1>8, <1>9, <1>10, <2>1 DEF Entered
  <2> QED  BY <1>2, <2>1, <2>2, DirEntered
<1>12. Len(c) = Len(stack)
  BY <1>2, <1>6, <1>7, <1>8, ChildPath
<1> HIDE DEF open2
<1>13. Tracks(es2, left2, open2, Append(stack, g))
  <2>1. g.path = c /\ g.todo = Listing(c) /\ g.entries = {}
    OBVIOUS
  <2> HIDE DEF g
  <2>2. /\ es2 = [p \in DOMAIN es \cup {g.path} |-> IF p = g.path THEN g.entries ELSE es[p]]
        /\ left2 = [p \in DOMAIN es \cup {g.path} |-> IF p = g.path THEN g.todo ELSE left[p]]
        /\ open2 = open \cup {g.path}
    BY <1>10, <2>1 DEF open2
  <2>3. PICK st : st = stack
    OBVIOUS
  <2>4. /\ Tracks(es, left, open, st) /\ g.path \notin DOMAIN es /\ Len(g.path) = Len(st)
    BY <1>3, <1>9, <1>12, <2>1, <2>3
  <2>5. Tracks(es2, left2, open \cup {g.path}, Append(st, g))
    BY <1>7, <2>2, <2>4, TracksPushed
  <2> QED  BY <2>2, <2>3, <2>5
<1>14. View' = Append(stack, g)
  <2>1. Front(stack') = stack /\ Top' = Frame(c)
    BY <1>1, <1>2, <1>4, AppendFacts DEF Top
  <2>2. Listing(c)' = Listing(c)
    BY <1>1 DEF Listing
  <2>3. [Top' EXCEPT !.todo = Listing(c)] = g /\ Top'.path = c
    BY <2>1 DEF Frame
  <2>4. View' = Front(stack') \o <<[Top' EXCEPT !.todo = Listing(Top.path)']>>
    BY <1>1 DEF View
  <2>5. Listing(Top.path)' = Listing(c)
    BY <1>1, <2>3 DEF Listing
  <2> HIDE DEF g
  <2>6. View' = stack \o <<g>>
    BY <2>1, <2>3, <2>4, <2>5
  <2>7. stack \o <<g>> = Append(stack, g)
    <3>1. PICK X : stack \in Seq(X)
      BY <1>2 DEF IsSeq
    <3> DEFINE Y == X \cup {g}
    <3>2. stack \in Seq(Y) /\ g \in Y
      BY <3>1
    <3> HIDE DEF Y
    <3> QED  BY <3>2, AppendIsConcat
  <2> QED  BY <2>6, <2>7
<1>15. PICK es3, left3, open3 : /\ Honest(es3, left3, open3, sk)
                                /\ Tracks(es3, left3, open3, Append(stack, g))
  BY <1>11, <1>13
<1>16. Honest(es3, left3, open3, skipped)'
  BY <1>1, <1>5, <1>15, HonestPrime
<1>17. Tracks(es3, left3, open3, View)'
  BY <1>14, <1>15 DEF Tracks
<1> QED  BY <1>1, <1>16, <1>17 DEF BooksKept

(* A directory left is the next name of the one above it.                  *)
LEMMA UpFacts ==
  ASSUME source \in Sources, NEW es, NEW left, NEW open, NEW sk, Honest(es, left, open, sk),
         NEW st, Tracks(es, left, open, st), Len(st) > 1
  PROVE  LET c == Last(st).path  up == Front(st) IN
         /\ c \in Paths /\ c \in open /\ c \notin Excluded /\ source[c].type = "dir"
         /\ c = Append(Last(up).path, Min(Last(up).todo)) /\ Last(up).todo # {}
         /\ Tracks(es, left, open \ {c}, up) /\ Len(up) > 0
<1> DEFINE c == Last(st).path
           up == Front(st)
<1> DEFINE n == Len(st)
<1>1. IsSeq(st) /\ n \in Nat /\ n > 1
  BY SeqLength DEF Tracks
<1>2. /\ IsSeq(up) /\ Len(up) = n - 1 /\ Last(up) = st[n - 1]
  BY <1>1, FrontFacts DEF Last
<1>3. /\ Tracks(es, left, open \ {c}, up)
  BY <1>1, TracksPopped
<1>4. c \in open /\ Len(c) = n - 1
  BY <1>1, TopTracked
<1>5. /\ open \subseteq DOMAIN es
      /\ \A p \in DOMAIN es : Placed(es, left, open, p)
  BY DEF Honest
<1> HIDE DEF c, up
<1>6. c \in Paths /\ c # <<>>
  <2>1. c \in Paths
    BY <1>4, <1>5 DEF Placed
  <2> HIDE DEF n
  <2>2. Len(c) # 0
    BY <1>1, <1>4
  <2> QED  BY <2>1, <2>2
<1>7. /\ c \notin Excluded /\ source[c].type = "dir" /\ Front(c) \in DOMAIN es
      /\ left[Front(c)] # {} /\ Last(c) = Min(left[Front(c)])
  BY <1>4, <1>5, <1>6 DEF Placed
<1>8. c = Append(Front(c), Last(c)) /\ Front(c) \in Paths /\ Len(c) = Len(Front(c)) + 1
      /\ Len(Front(c)) \in Nat
  BY <1>6, PathParts, ChildPath
<1>9. Front(c) \in open
  BY <1>5, <1>7 DEF Placed
<1>10. /\ open = {st[i].path : i \in 1 .. n}
       /\ \A i \in 1 .. n : Len(st[i].path) = i - 1 /\ left[st[i].path] = st[i].todo
  BY DEF Tracks
<1> HIDE DEF n
<1>11. Front(c) = st[n - 1].path /\ left[Front(c)] = st[n - 1].todo
  <2>1. PICK i \in 1 .. n : Front(c) = st[i].path
    BY <1>9, <1>10
  <2>2. i - 1 = n - 2
    <3> DEFINE a == Len(Front(c))
               b == Len(c)
    <3>1. a = i - 1
      BY <1>10, <2>1
    <3>2. b = n - 1 /\ b = a + 1 /\ a \in Nat /\ i \in Int
      BY <1>4, <1>8
    <3> HIDE DEF a, b
    <3> QED  BY <1>1, <3>1, <3>2
  <2>3. i = n - 1
    BY <1>1, <2>2
  <2> QED  BY <1>10, <2>1, <2>3
<1>12. Len(up) > 0
  BY <1>1, <1>2
<1>13. c = Append(Last(up).path, Min(Last(up).todo)) /\ Last(up).todo # {}
  BY <1>2, <1>7, <1>8, <1>11
<1> QED  BY <1>3, <1>4, <1>6, <1>7, <1>12, <1>13 DEF c, up

(* The return to the directory above, with the node or with a skip.        *)
LEMMA ReturnBooks ==
  ASSUME ScanInv, BooksKept, scan = "walk", scan' = "walk", source' = source,
         Top.todo = {}, Nested,
         NEW up, up = Front(stack), NEW c, c = Top.path,
         NEW E, \A e \in E : /\ e.name = Min(Last(up).todo) /\ EntryOf(c, e)
                             /\ IsDirEntry(e) => Subnode(e) = Node,
         \/ E # {} /\ skipped' = skipped
         \/ E = {} /\ skipped' = skipped \cup {<<c, "unread">>},
         NEW f, stack' = Front(up) \o <<f>>, f.path = Last(up).path,
         f.todo = Last(up).todo \ {Min(Last(up).todo)}, f.entries = Last(up).entries \cup E
  PROVE  BooksKept'
<1>1. source \in Sources /\ Len(stack) > 1
  BY ScanFacts DEF Nested
<1>2. PICK es, left, open : Honest(es, left, open, skipped) /\ Tracks(es, left, open, stack)
  BY DEF BooksKept, View
<1>3. PICK st : st = stack
  OBVIOUS
<1>4. PICK sk, sk2 : sk = skipped /\ sk2 = skipped'
  OBVIOUS
<1>5. Honest(es, left, open, sk) /\ Tracks(es, left, open, st) /\ Len(st) > 1
      /\ c = Last(st).path /\ up = Front(st)
  BY <1>1, <1>2, <1>3, <1>4 DEF Top
<1>6. /\ c \in Paths /\ c \in open /\ c \notin Excluded /\ source[c].type = "dir"
      /\ c = Append(Last(up).path, Min(Last(up).todo)) /\ Last(up).todo # {}
      /\ Tracks(es, left, open \ {c}, up) /\ Len(up) > 0
  <2>1. /\ Last(st).path \in Paths /\ Last(st).path \in open
        /\ Last(st).path \notin Excluded /\ source[Last(st).path].type = "dir"
        /\ Last(st).path = Append(Last(Front(st)).path, Min(Last(Front(st)).todo))
        /\ Last(Front(st)).todo # {}
        /\ Tracks(es, left, open \ {Last(st).path}, Front(st)) /\ Len(Front(st)) > 0
    <3>1. Honest(es, left, open, sk) /\ Tracks(es, left, open, st) /\ Len(st) > 1
      BY <1>5
    <3>2. source \in Sources
      BY <1>1
    <3> QED  BY ONLY <3>1, <3>2, UpFacts, ZenonT(60)
  <2> QED  BY <1>5, <2>1
<1>7. c \in DOMAIN es /\ left[c] = {} /\ Node = NodeId(es[c])
  <2>1. Len(st) > 0
    BY <1>1, <1>3, ScanFacts
  <2>2. es[c] = Last(st).entries /\ left[c] = Last(st).todo
    BY <1>5, <2>1, TopTracked
  <2>3. c \in DOMAIN es
    BY <1>5, <1>6 DEF Honest
  <2> QED  BY <1>3, <2>2, <2>3 DEF Node, Top
<1>8. PICK node : node = Node
  OBVIOUS
<1>9. NameStep(es, left, open, sk, up, c, E, sk2, f)
  <2>1. \A e \in E : /\ e.name = Min(Last(up).todo) /\ EntryOf(c, e)
                     /\ IsDirEntry(e) => c \in DOMAIN es /\ Subnode(e) = NodeId(es[c])
    BY <1>7
  <2>2. \/ E # {} /\ sk2 = sk /\ c \notin Excluded
        \/ E = {} /\ \E r \in {"unread", "special"} : sk2 = sk \cup {<<c, r>>}
    BY <1>4, <1>6
  <2> QED  BY <1>5, <1>6, <1>7, <2>1, <2>2 DEF NameStep
<1>10. \E es2, left2, open2 : /\ Honest(es2, left2, open2, sk2)
                             /\ Tracks(es2, left2, open2, Front(up) \o <<f>>)
  BY <1>1, <1>9, BooksFollow
<1> QED  BY <1>4, <1>10, BooksPrime

(* The node of a directory is stored, or it is not.                        *)
LEMMA NodeBooks ==
  ASSUME ScanInv, BooksKept, StoreNode \/ StoreNodeFails
  PROVE  BooksKept'
<1>1. scan = "walk" /\ Top.todo = {} /\ source' = source
  BY DEF StoreNode, StoreNodeFails, EndDir
<1>2. source \in Sources /\ StackSound(stack, chunks) /\ Len(stack) > 0 /\ Len(stack) \in Nat
  BY ScanFacts, SeqLength
<1>3. CASE Nested
  <2>1. PICK up, c : up = Front(stack) /\ c = Top.path
    OBVIOUS
  <2>2. StackSound(up, chunks) /\ scan' = "walk"
    BY <1>1, <1>2, <1>3, <2>1, StackFront DEF Nested, StoreNode, StoreNodeFails
  <2>3. CASE StoreNode
    <3>1. PICK e : e = DirEntry(Min(Last(up).todo), source[c].mode, Node)
      OBVIOUS
    <3>2. stack' = Captured(up, e) /\ skipped' = skipped
      BY <1>3, <2>1, <2>3, <3>1 DEF StoreNode, Return
    <3>3. source[c].type = "dir"
      <4>1. PICK es, left, open : Honest(es, left, open, skipped) /\ Tracks(es, left, open, stack)
        BY <1>1 DEF BooksKept, View
      <4>2. PICK st, sk : st = stack /\ sk = skipped
        OBVIOUS
      <4>3. /\ Honest(es, left, open, sk) /\ Tracks(es, left, open, st) /\ Len(st) > 1
            /\ c = Last(st).path /\ up = Front(st)
        BY <1>3, <2>1, <4>1, <4>2 DEF Top, Nested
      <4>4. source[Last(st).path].type = "dir"
        BY <1>2, <4>3, UpFacts
      <4> QED  BY <4>3, <4>4
    <3>4. /\ e.name = Min(Last(up).todo) /\ e.type = "dir" /\ e.mode = source[c].mode
          /\ Subnode(e) = Node
      BY <3>1 DEF DirEntry, Entry, Subnode
    <3>5. EntryOf(c, e)
      BY <3>3, <3>4 DEF EntryOf
    <3>6. PICK f : /\ stack' = Front(up) \o <<f>> /\ f.path = Last(up).path
                   /\ f.todo = Last(up).todo \ {Min(Last(up).todo)}
                   /\ f.entries = Last(up).entries \cup {e}
      BY <2>2, <3>2, CapturedFrame
    <3> DEFINE E == {e}
    <3>7. E # {} /\ f.entries = Last(up).entries \cup E
          /\ \A d \in E : /\ d.name = Min(Last(up).todo) /\ EntryOf(c, d)
                          /\ IsDirEntry(d) => Subnode(d) = Node
      BY <3>4, <3>5, <3>6
    <3> HIDE DEF E
    <3> QED  BY <1>1, <1>3, <2>1, <2>2, <3>2, <3>6, <3>7, ReturnBooks
  <2>4. CASE StoreNodeFails
    <3>1. stack' = Passed(up) /\ skipped' = skipped \cup {<<c, "unread">>}
      BY <1>3, <2>1, <2>4 DEF StoreNodeFails, Skip
    <3>2. PICK f : /\ stack' = Front(up) \o <<f>> /\ f.path = Last(up).path
                   /\ f.todo = Last(up).todo \ {Min(Last(up).todo)}
                   /\ f.entries = Last(up).entries \cup {}
      BY <2>2, <3>1, PassedFrame
    <3> DEFINE E == {}
    <3>3. E = {} /\ f.entries = Last(up).entries \cup E
          /\ \A d \in E : /\ d.name = Min(Last(up).todo) /\ EntryOf(c, d)
                          /\ IsDirEntry(d) => Subnode(d) = Node
      BY <3>2
    <3> HIDE DEF E
    <3> QED  BY <1>1, <1>3, <2>1, <2>2, <3>1, <3>2, <3>3, ReturnBooks
  <2> QED  BY <2>3, <2>4
<1>4. CASE ~Nested /\ StoreNodeFails
  <2>1. scan' = "raised"
    BY <1>4 DEF StoreNodeFails
  <2> QED  BY <2>1 DEF BooksKept
<1>5. CASE ~Nested /\ StoreNode
  <2>1. scan' = "done" /\ root' = Node /\ skipped' = skipped
    BY <1>5 DEF StoreNode
  <2>2. PICK es, left, open : Honest(es, left, open, skipped) /\ Tracks(es, left, open, stack)
    BY <1>1 DEF BooksKept, View
  <2>3. PICK st, sk : st = stack /\ sk = skipped
    OBVIOUS
  <2>4. Len(st) = 1 /\ Honest(es, left, open, sk) /\ Tracks(es, left, open, st)
    <3>1. ~(Len(stack) > 1)
      BY <1>5 DEF Nested
    <3> DEFINE n == Len(stack)
    <3>2. n \in Nat /\ n > 0 /\ ~(n > 1)
      BY <1>2, <3>1
    <3> HIDE DEF n
    <3>3. n = 1
      BY <3>2
    <3> QED  BY <2>2, <2>3, <3>3 DEF n
  <2>5. Last(st).path \in Paths
    BY <1>2, <2>3, ScanFacts DEF Top
  <2>6. /\ Last(st).path = <<>> /\ open = {<<>>}
        /\ es[<<>>] = Last(st).entries /\ left[<<>>] = {} /\ <<>> \in DOMAIN es
    <3>1. /\ Last(st).path \in open /\ Len(Last(st).path) = 0
          /\ es[Last(st).path] = Last(st).entries /\ left[Last(st).path] = Last(st).todo
      <4>1. Honest(es, left, open, sk) /\ Tracks(es, left, open, st)
        BY <2>4
      <4>2. Len(st) > 0
        BY <2>4
      <4>3. /\ Last(st).path \in open /\ Len(Last(st).path) = Len(st) - 1
            /\ es[Last(st).path] = Last(st).entries /\ left[Last(st).path] = Last(st).todo
        BY <4>1, <4>2, TopTracked
      <4> QED  BY <2>4, <4>3
    <3>2. Last(st).path = <<>>
      BY <1>2, <2>5, <3>1, PathFacts, SeqLength
    <3>3. Last(st) = st[1] /\ open = {st[i].path : i \in 1 .. 1}
      BY <2>4 DEF Tracks, Last
    <3>4. open = {<<>>} /\ Last(st).todo = {}
      BY <1>1, <2>3, <3>2, <3>3 DEF Top
    <3> QED  BY <2>4, <3>1, <3>2, <3>4 DEF Honest
  <2>7. Honest(es, left, {}, sk)
    BY <2>4, <2>6, RootDone
  <2>8. Honest(es, left, {}, skipped)'
    BY <1>1, <2>1, <2>3, <2>7, HonestPrime
  <2>9. root' = NodeId(es[<<>>])
    BY <2>1, <2>3, <2>6 DEF Node, Top
  <2>10. scan' = "done" => \E es2, left2 : /\ Honest(es2, left2, {}, skipped)'
                                          /\ <<>> \in DOMAIN es2 /\ root' = NodeId(es2[<<>>])
    BY <2>6, <2>8, <2>9
  <2> QED  BY <2>1, <2>10 DEF BooksKept
<1> QED  BY <1>3, <1>4, <1>5

(* Every step of a scan keeps the books.                                   *)
LEMMA ScanBooks ==
  ASSUME ScanInv, BooksKept, ScanStep
  PROVE  BooksKept'
<1>1. ASSUME PutRaises PROVE BooksKept'
  BY <1>1 DEF PutRaises, BooksKept
<1> QED  BY <1>1, ListBooks, PassBooks, CaptureBooks, EnterBooks, FileBooks, NodeBooks
         DEF ScanStep

-----------------------------------------------------------------------------
(* Every skip but those of special files is the result of a call.          *)
LEMMA SkipAdded ==
  ASSUME SkipsCounted, source' = source, failures \in Nat, failures' \in {failures, failures + 1},
         \/ skipped' = skipped
         \/ \E p : skipped' = skipped \cup {<<p, "special">>} /\ source[p].type = "special"
         \/ /\ \E p : \E r \in {"unread", "unreadable"} : skipped' = skipped \cup {<<p, r>>}
            /\ failures' = failures + 1
  PROVE  SkipsCounted'
<1>1. /\ IsFiniteSet(Unread) /\ Cardinality(Unread) <= failures /\ Cardinality(Unread) \in Nat
      /\ \A s \in skipped : s[2] = "special" => source[s[1]].type = "special"
  BY FS_CardinalityType DEF SkipsCounted
<1>2. \A s \in skipped' : s[2] = "special" => source'[s[1]].type = "special"
  BY <1>1
<1>3. CASE Unread' = Unread
  BY <1>1, <1>2, <1>3 DEF SkipsCounted
<1>4. ASSUME NEW p, NEW r \in {"unread", "unreadable"}, skipped' = skipped \cup {<<p, r>>},
             failures' = failures + 1
      PROVE  SkipsCounted'
  <2>1. Unread' = Unread \cup {<<p, r>>}
    BY <1>4 DEF Unread
  <2> DEFINE x == <<p, r>>
             m == Cardinality(Unread)
             n == Cardinality(Unread \cup {x})
  <2>2. IsFiniteSet(Unread \cup {x}) /\ (n = m \/ n = m + 1)
    BY <1>1, FS_AddElement
  <2>3. m \in Nat /\ m <= failures
    BY <1>1
  <2> HIDE DEF m, n
  <2>4. n <= failures + 1
    BY <2>2, <2>3
  <2>5. Unread' = Unread \cup {x}
    BY <2>1
  <2> HIDE DEF x
  <2> QED  BY <1>2, <1>4, <2>2, <2>4, <2>5 DEF SkipsCounted, n
<1>5. CASE skipped' = skipped
  BY <1>3, <1>5 DEF Unread
<1>6. ASSUME NEW p, skipped' = skipped \cup {<<p, "special">>}
      PROVE  SkipsCounted'
  <2>1. Unread' = Unread
    BY <1>6 DEF Unread
  <2> QED  BY <1>3, <2>1
<1> QED  BY <1>4, <1>5, <1>6

(* Every step of a scan counts its skips.                                  *)
LEMMA ScanCounts ==
  ASSUME ScanInv, SkipsCounted, ScanStep
  PROVE  SkipsCounted'
<1>1. failures \in Nat /\ source' = source
  <2>1. failures \in Nat
    BY ScanAssumption DEF ScanInv, ScanTypeOK
  <2> QED  BY <2>1
           DEF ScanStep, ListDir, PassExcluded, VisitFails, VisitSpecial, VisitLink, VisitDir,
               VisitFile, ScanChunk, ScanFails, EndFile, StoreNode, StoreNodeFails, PutRaises
<1>2. CASE PassExcluded \/ VisitLink \/ VisitDir \/ VisitFile \/ ScanChunk \/ EndFile \/ StoreNode
  <2>1. skipped' = skipped /\ failures' = failures
    BY <1>2 DEF PassExcluded, VisitLink, VisitDir, VisitFile, ScanChunk, EndFile, StoreNode
  <2> QED  BY <1>1, <2>1, SkipAdded
<1>3. CASE VisitSpecial
  <2>1. /\ skipped' = skipped \cup {<<Here, "special">>} /\ source[Here].type = "special"
        /\ failures' = failures
    BY <1>3 DEF VisitSpecial, Reached, SkipHere, Skip
  <2> QED  BY <1>1, <2>1, SkipAdded
<1>4. CASE VisitFails \/ ScanFails
  <2>1. skipped' = skipped \cup {<<Here, "unread">>} /\ failures' = failures + 1
    BY <1>4 DEF VisitFails, ScanFails, SkipHere, Skip, Raises
  <2> QED  BY <1>1, <2>1, SkipAdded
<1>5. CASE ListDir
  <2>1. \/ skipped' = skipped /\ failures' = failures
        \/ skipped' = skipped \cup {<<Top.path, "unreadable">>} /\ failures' = failures + 1
    BY <1>5 DEF ListDir, Skip, Raises
  <2> QED  BY <1>1, <2>1, SkipAdded
<1>6. CASE StoreNodeFails
  <2>1. /\ failures' = failures + 1
        /\ skipped' = skipped \/ skipped' = skipped \cup {<<Top.path, "unread">>}
    BY <1>6 DEF StoreNodeFails, Skip, Raises
  <2> QED  BY <1>1, <2>1, SkipAdded
<1>7. CASE PutRaises
  <2>1. skipped' = skipped /\ failures' = failures + 1
    BY <1>7 DEF PutRaises, Raises
  <2> QED  BY <1>1, <2>1, SkipAdded
<1> QED  BY <1>2, <1>3, <1>4, <1>5, <1>6, <1>7 DEF ScanStep

(* At first only the root directory is entered, and unread.                *)
LEMMA BooksStart ==
  ASSUME ScanInit
  PROVE  BooksKept /\ SkipsCounted
<1>1. /\ source \in Sources /\ scan = "list" /\ stack = <<Frame(<<>>)>> /\ skipped = {}
      /\ failures = 0
  BY DEF ScanInit
<1>2. SkipsCounted
  <2>1. Unread = {}
    BY <1>1 DEF Unread
  <2>2. Cardinality(Unread) <= failures
    BY <1>1, <2>1, FS_EmptySet
  <2> QED  BY <1>1, <2>1, <2>2, FS_EmptySet DEF SkipsCounted
<1>3. <<>> \in Paths
  BY <1>1, PathFacts
<1>4. PICK f : View = <<f>> /\ f.path = <<>> /\ f.entries = {} /\ f.todo = Listing(<<>>)
  <2>1. ScanInv
    BY ScanStart
  <2> DEFINE fr == Frame(<<>>)
  <2>2. fr.path = <<>>
    BY DEF Frame
  <2> HIDE DEF fr
  <2>3. Last(<<fr>>) = fr /\ Front(<<fr>>) = <<>>
    BY DEF Last, Front
  <2>4. Top = fr /\ Front(stack) = <<>>
    BY <1>1, <2>3 DEF Top, fr
  <2>5. PICK f : /\ View = Front(stack) \o <<f>> /\ f.path = Top.path
                 /\ f.todo = Listing(Top.path) /\ f.entries = {}
    BY <1>1, <2>1, ViewTop
  <2>6. View = <<f>>
    BY <2>4, <2>5
  <2> QED  BY <2>2, <2>4, <2>5, <2>6
<1>5. PICK es, left, open : /\ es = [q \in {<<>>} |-> {}] /\ open = {<<>>}
                            /\ left = [q \in {<<>>} |-> Listing(<<>>)]
  OBVIOUS
<1>6. /\ DOMAIN es = {<<>>} /\ DOMAIN left = {<<>>} /\ es[<<>>] = {} /\ left[<<>>] = Listing(<<>>)
  BY <1>5
<1>7. Honest(es, left, open, skipped)
  BY <1>1, <1>3, <1>5, <1>6 DEF Honest, Placed, Covers, Shows
<1>8. Tracks(es, left, open, View)
  <2>2. IsSeq(<<f>>) /\ Len(<<f>>) = 1 /\ <<f>>[1] = f
    <3>1. <<f>> \in Seq({f})
      OBVIOUS
    <3> QED  BY <3>1 DEF IsSeq
  <2>3. Tracks(es, left, open, <<f>>)
    <3> DEFINE v == <<f>>
    <3>1. IsSeq(v) /\ Len(v) = 1 /\ v[1] = f
      BY <2>2
    <3> HIDE DEF v
    <3>2. Len(<<>>) = 0 /\ 1 .. 1 = {1}
      OBVIOUS
    <3>3. open = {v[i].path : i \in 1 .. Len(v)}
      BY <1>5, <1>4, <3>1, <3>2
    <3>4. ASSUME NEW i \in 1 .. Len(v)
          PROVE  /\ Len(v[i].path) = i - 1
                 /\ es[v[i].path] = v[i].entries /\ left[v[i].path] = v[i].todo
      <4>1. i = 1
        BY <3>1
      <4>2. v[i] = f /\ i - 1 = 0
        BY <3>1, <4>1
      <4> QED  BY <1>4, <1>6, <3>2, <4>2
    <3>5. Tracks(es, left, open, v)
      BY <3>1, <3>3, <3>4 DEF Tracks
    <3> QED  BY <3>5 DEF v
  <2> QED  BY <1>4, <2>3
<1>9. BooksKept
  BY <1>1, <1>7, <1>8 DEF BooksKept
<1> QED  BY <1>2, <1>9

-----------------------------------------------------------------------------
(* Prefixes element by element, and prefixes of a path with one name more. *)
LEMMA PrefixElements ==
  ASSUME NEW s \in Seq(Nat), NEW t \in Seq(Nat)
  PROVE  IsPrefix(s, t) <=> Len(s) <= Len(t) /\ \A i \in 1 .. Len(s) : s[i] = t[i]
<1> DEFINE n == Len(s)
           m == Len(t)
           a == SubSeq(s, 1, n)
           b == SubSeq(t, 1, n)
<1>1. n \in Nat /\ m \in Nat
  OBVIOUS
<1>2. IsPrefix(s, t) <=> n <= m /\ a = b
  BY DEF IsPrefix
<1>3. ASSUME n <= m
      PROVE  a = b <=> \A i \in 1 .. n : s[i] = t[i]
  <2>1. a \in Seq(Nat) /\ Len(a) = n /\ \A i \in 1 .. n : a[i] = s[i]
    BY <1>1
  <2>2. b \in Seq(Nat) /\ Len(b) = n /\ \A i \in 1 .. n : b[i] = t[i]
    BY <1>1, <1>3
  <2> HIDE DEF a, b, n
  <2> QED  BY <2>1, <2>2, SeqEqual
<1> HIDE DEF n, m, a, b
<1> QED  BY <1>2, <1>3 DEF n, m

LEMMA PrefixAppend ==
  ASSUME NEW s \in Seq(Nat), NEW q \in Seq(Nat), NEW x \in Nat
  PROVE  /\ IsPrefix(s, Append(q, x)) <=> s = Append(q, x) \/ IsPrefix(s, q)
         /\ IsStrictPrefix(s, Append(q, x)) <=> IsPrefix(s, q)
         /\ IsPrefix(q, q)
<1> DEFINE p == Append(q, x)
           n == Len(q)
           l == Len(s)
<1>1. /\ p \in Seq(Nat) /\ Len(p) = n + 1 /\ p[n + 1] = x /\ n \in Nat /\ l \in Nat
      /\ \A i \in 1 .. n : p[i] = q[i]
  OBVIOUS
<1>2. /\ IsPrefix(s, p) <=> l <= n + 1 /\ \A i \in 1 .. l : s[i] = p[i]
      /\ IsPrefix(s, q) <=> l <= n /\ \A i \in 1 .. l : s[i] = q[i]
      /\ IsPrefix(q, q)
  <2> HIDE DEF p
  <2>1. IsPrefix(s, p) <=> Len(s) <= Len(p) /\ \A i \in 1 .. Len(s) : s[i] = p[i]
    BY <1>1, PrefixElements
  <2>2. IsPrefix(s, q) <=> Len(s) <= Len(q) /\ \A i \in 1 .. Len(s) : s[i] = q[i]
    BY PrefixElements
  <2>3. IsPrefix(q, q)
    BY PrefixElements
  <2> QED  BY <1>1, <2>1, <2>2, <2>3
<1>3. s = p => l = n + 1
  BY <1>1
<1>4. l = n + 1 /\ (\A i \in 1 .. l : s[i] = p[i]) => s = p
  <2> HIDE DEF p, n
  <2> QED  BY <1>1, SeqEqual
<1> HIDE DEF p, n, l
<1>5. IsPrefix(s, q) => l <= n /\ IsPrefix(s, p)
  <2> SUFFICES ASSUME IsPrefix(s, q) PROVE l <= n /\ IsPrefix(s, p)
    OBVIOUS
  <2>1. l <= n /\ \A i \in 1 .. l : s[i] = q[i]
    BY <1>2
  <2>2. l <= n + 1 /\ \A i \in 1 .. l : i \in 1 .. n
    BY <1>1, <2>1
  <2> QED  BY <1>1, <1>2, <2>1, <2>2
<1>6. s = p => IsPrefix(s, p)
  BY <1>1, <1>2, <1>3
<1>7. IsPrefix(s, p) => s = p \/ IsPrefix(s, q)
  <2> SUFFICES ASSUME IsPrefix(s, p) PROVE s = p \/ IsPrefix(s, q)
    OBVIOUS
  <2>1. l <= n + 1 /\ \A i \in 1 .. l : s[i] = p[i]
    BY <1>2
  <2>2. CASE l = n + 1
    BY <1>4, <2>1, <2>2
  <2>3. CASE l # n + 1
    <3>1. l <= n /\ \A i \in 1 .. l : i \in 1 .. n
      BY <1>1, <2>1, <2>3
    <3> QED  BY <1>1, <1>2, <2>1, <3>1
  <2> QED  BY <2>2, <2>3
<1>8. ~(s = p /\ IsPrefix(s, q))
  BY <1>1, <1>3, <1>5
<1> QED  BY <1>2, <1>5, <1>6, <1>7, <1>8 DEF IsStrictPrefix, p

(* Names appended to the same path.                                        *)
LEMMA PrefixSplit ==
  ASSUME NEW q \in Seq(Nat), NEW x \in Nat
  PROVE  /\ Append(q, x) \in Seq(Nat) /\ Len(Append(q, x)) = Len(q) + 1
         /\ \A s \in Seq(Nat) : IsPrefix(Append(q, x), s) => IsPrefix(q, s)
         /\ ~IsPrefix(Append(q, x), q) /\ IsPrefix(q, Append(q, x))
         /\ \A y \in Nat : IsPrefix(Append(q, x), Append(q, y)) => x = y
<1> DEFINE u == Append(q, x)
           n == Len(q)
<1>1. /\ u \in Seq(Nat) /\ Len(u) = n + 1 /\ n \in Nat /\ u[n + 1] = x
      /\ \A i \in 1 .. n : u[i] = q[i]
  OBVIOUS
<1>2. \A y \in Nat : /\ Append(q, y) \in Seq(Nat) /\ Len(Append(q, y)) = n + 1
                     /\ Append(q, y)[n + 1] = y
  OBVIOUS
<1> HIDE DEF u, n
<1>3. ASSUME NEW s \in Seq(Nat), IsPrefix(u, s)
      PROVE  IsPrefix(q, s)
  <2>1. Len(u) <= Len(s) /\ (\A i \in 1 .. Len(u) : u[i] = s[i]) /\ Len(s) \in Nat
    <3>1. u \in Seq(Nat) /\ s \in Seq(Nat) /\ IsPrefix(u, s) /\ Len(s) \in Nat
      BY <1>1, <1>3
    <3> QED  BY ONLY <3>1, PrefixElements
  <2>2. n <= Len(s) /\ \A i \in 1 .. n : q[i] = s[i]
    BY <1>1, <2>1
  <2> QED  BY <2>2, PrefixElements DEF n
<1>4. ~IsPrefix(u, q)
  BY <1>1, PrefixElements DEF n
<1>5. IsPrefix(q, u)
  <2>1. n <= Len(u) /\ \A i \in 1 .. n : q[i] = u[i]
    BY <1>1
  <2> QED  BY <1>1, <2>1, PrefixElements DEF n
<1>6. ASSUME NEW y \in Nat, IsPrefix(u, Append(q, y))
      PROVE  x = y
  <2> DEFINE v == Append(q, y)
  <2>1. v \in Seq(Nat) /\ Len(v) = n + 1 /\ v[n + 1] = y /\ IsPrefix(u, v)
    BY <1>2, <1>6
  <2> HIDE DEF v
  <2>2. \A i \in 1 .. Len(u) : u[i] = v[i]
    BY ONLY <1>1, <2>1, PrefixElements
  <2>3. n + 1 \in 1 .. n + 1
    BY <1>1
  <2> QED  BY <1>1, <2>1, <2>2, <2>3
<1> QED  BY <1>1, <1>3, <1>4, <1>5, <1>6 DEF u, n

(* What is hidden is so for its own sake, or for a directory above.        *)
LEMMA HiddenStep ==
  ASSUME source \in Sources, NEW es, NEW left, NEW sk, sk = skipped, Honest(es, left, {}, sk)
  PROVE  /\ ~Hidden(<<>>)
         /\ \A p \in Paths \ {<<>>} :
              Hidden(p) <=> Hidden(Front(p)) \/ Direct(sk, p) \/ Blind(sk, Front(p))
<1>1. Paths \subseteq Seq(Nat) /\ Excluded \subseteq Seq(Nat) \ {<<>>}
  BY ScanAssumption DEF Paths
<1>2. ASSUME NEW s \in sk
      PROVE  /\ s[1] \in Paths /\ s[1] \in Seq(Nat)
             /\ \/ s = <<s[1], "unreadable">> /\ s[2] = "unreadable"
                \/ /\ s = <<s[1], "unread">> \/ s = <<s[1], "special">>
                   /\ s[2] # "unreadable" /\ s[1] # <<>>
  <2>1. Noted(es, left, s) /\ \A p \in DOMAIN es : p \in Paths
    BY DEF Honest, Placed
  <2>2. s[1] \in Paths
    BY <2>1 DEF Noted
  <2>3. s = <<s[1], "unreadable">> => s[2] = "unreadable"
    OBVIOUS
  <2>4. s = <<s[1], "unread">> \/ s = <<s[1], "special">> => s[2] # "unreadable"
    OBVIOUS
  <2> QED  BY <1>1, <2>1, <2>2, <2>3, <2>4 DEF Noted
<1>3. ASSUME Hidden(<<>>) PROVE FALSE
  <2>1. \A t \in Seq(Nat) : IsPrefix(t, <<>>) => t = <<>>
    <3> SUFFICES ASSUME NEW t \in Seq(Nat), IsPrefix(t, <<>>) PROVE t = <<>>
      OBVIOUS
    <3>1. Len(t) <= Len(<<>>)
      BY DEF IsPrefix
    <3> QED  BY <3>1
  <2> QED  BY <1>1, <1>2, <1>3, <2>1 DEF Hidden, IsStrictPrefix
<1>4. ASSUME NEW p \in Paths \ {<<>>}
      PROVE  Hidden(p) <=> Hidden(Front(p)) \/ Direct(sk, p) \/ Blind(sk, Front(p))
  <2> DEFINE q == Front(p)
             x == Last(p)
  <2>1. p = Append(q, x) /\ q \in Seq(Nat) /\ x \in Nat
    BY <1>1, FrontLast
  <2> HIDE DEF q, x
  <2>2. ASSUME NEW t \in Seq(Nat)
        PROVE  /\ IsPrefix(t, p) <=> t = p \/ IsPrefix(t, q)
               /\ IsStrictPrefix(t, p) <=> IsPrefix(t, q)
               /\ IsPrefix(q, q)
    BY <2>1, PrefixAppend
  <2>3. ASSUME Hidden(p)
        PROVE  Hidden(q) \/ Direct(sk, p) \/ Blind(sk, q)
    <3>1. CASE \E t \in Excluded : IsPrefix(t, p)
      BY <1>1, <2>2, <3>1 DEF Hidden, Direct
    <3>2. ASSUME NEW s \in sk, IF s[2] = "unreadable" THEN IsStrictPrefix(s[1], p)
                                                     ELSE IsPrefix(s[1], p)
          PROVE  Hidden(q) \/ Direct(sk, p) \/ Blind(sk, q)
      <4>1. CASE s[2] = "unreadable"
        <5>1. IsPrefix(s[1], q) /\ s = <<s[1], "unreadable">>
          BY <1>2, <2>2, <3>2, <4>1
        <5>2. CASE s[1] = q
          BY <5>1, <5>2 DEF Blind
        <5>3. CASE s[1] # q
          <6>1. IsStrictPrefix(s[1], q)
            BY <5>1, <5>3 DEF IsStrictPrefix
          <6> QED  BY <4>1, <6>1 DEF Hidden
        <5> QED  BY <5>2, <5>3
      <4>2. CASE s[2] # "unreadable"
        <5>1. s[1] = p \/ IsPrefix(s[1], q)
          BY <1>2, <2>2, <3>2, <4>2
        <5>2. CASE s[1] = p
          BY <1>2, <4>2, <5>2 DEF Direct
        <5>3. CASE IsPrefix(s[1], q)
          BY <4>2, <5>3 DEF Hidden
        <5> QED  BY <5>1, <5>2, <5>3
      <4> QED  BY <4>1, <4>2
    <3> QED  BY <2>3, <3>1, <3>2 DEF Hidden
  <2>4. ASSUME Hidden(q) PROVE Hidden(p)
    <3>1. CASE \E t \in Excluded : IsPrefix(t, q)
      BY <1>1, <2>2, <3>1 DEF Hidden
    <3>2. ASSUME NEW s \in sk, IF s[2] = "unreadable" THEN IsStrictPrefix(s[1], q)
                                                     ELSE IsPrefix(s[1], q)
          PROVE  Hidden(p)
      <4>1. IsPrefix(s[1], q)
        BY <3>2 DEF IsStrictPrefix
      <4>2. IsPrefix(s[1], p) /\ IsStrictPrefix(s[1], p)
        BY <1>2, <2>2, <4>1
      <4> QED  BY <4>2 DEF Hidden
    <3> QED  BY <2>4, <3>1, <3>2 DEF Hidden
  <2>5. ASSUME Direct(sk, p) PROVE Hidden(p)
    <3>0. IsPrefix(p, p)
      BY <1>1, <2>2
    <3>1. CASE p \in Excluded
      BY <3>0, <3>1 DEF Hidden
    <3>2. ASSUME NEW r \in {"unread", "special"}, <<p, r>> \in sk
          PROVE  Hidden(p)
      <4> DEFINE s == <<p, r>>
      <4>1. s \in skipped /\ s[1] = p /\ s[2] # "unreadable"
        BY <3>2
      <4> HIDE DEF s
      <4> QED  BY <3>0, <4>1 DEF Hidden
    <3> QED  BY <2>5, <3>1, <3>2 DEF Direct
  <2>6. ASSUME Blind(sk, q) PROVE Hidden(p)
    <3> DEFINE s == <<q, "unreadable">>
    <3>1. s \in skipped /\ s[1] = q /\ s[2] = "unreadable"
      BY <2>6 DEF Blind
    <3>2. IsStrictPrefix(q, p)
      BY <2>1, <2>2
    <3> HIDE DEF s
    <3> QED  BY <3>1, <3>2 DEF Hidden
  <2> QED  BY <2>3, <2>4, <2>5, <2>6 DEF q
<1> QED  BY <1>3, <1>4

(* The nodes that a path leads to are those of the books, if nothing hides *)
(* the path and it is a directory.                                         *)
Booked(es, p) ==
  IF p = <<>> \/ (~Hidden(p) /\ source[p].type = "dir")
  THEN p \in DOMAIN es /\ NodesAt(root, p) = {NodeId(es[p])}
  ELSE NodesAt(root, p) = {}

(* The entries of one name of a directory whose books are closed.          *)
LEMMA ClosedEntry ==
  ASSUME source \in Sources, NEW es, NEW left, NEW sk, sk = skipped, Honest(es, left, {}, sk),
         NEW p \in Paths \ {<<>>}, Front(p) \in DOMAIN es
  PROVE  /\ (\E e \in es[Front(p)] : e.name = Last(p))
              <=> ~(Direct(sk, p) \/ Blind(sk, Front(p)))
         /\ \A e \in es[Front(p)] : e.name = Last(p) =>
              /\ EntryOf(p, e) /\ e.type = source[p].type
              /\ IsDirEntry(e) => p \in DOMAIN es /\ Subnode(e) = NodeId(es[p])
<1> DEFINE q == Front(p)
           x == Last(p)
<1>1. p = Append(q, x) /\ x \in Listing(q)
  BY PathParts
<1>2. left[q] = {} /\ Covers(es, left, sk, q) /\ \A e \in es[q] : Shows(es, left, {}, q, e)
  BY DEF Honest, Placed
<1> HIDE DEF q, x
<1>3. (\E e \in es[q] : e.name = x) <=> ~(Direct(sk, p) \/ Blind(sk, q))
  BY <1>1, <1>2 DEF Covers
<1>4. ASSUME NEW e \in es[q], e.name = x
      PROVE  /\ EntryOf(p, e) /\ e.type = source[p].type
             /\ IsDirEntry(e) => p \in DOMAIN es /\ Subnode(e) = NodeId(es[p])
  <2>1. /\ EntryOf(p, e)
        /\ IsDirEntry(e) => p \in DOMAIN es /\ Subnode(e) = NodeId(es[p])
    BY <1>1, <1>2, <1>4 DEF Shows
  <2>2. e.type = source[p].type
    BY <2>1 DEF EntryOf
  <2> QED  BY <2>1, <2>2
<1> QED  BY <1>3, <1>4 DEF q, x

(* What the tree holds at a path follows from what it holds above it ...   *)
LEMMA BookedStep ==
  ASSUME source \in Sources, NEW es, NEW left, NEW sk, sk = skipped, Honest(es, left, {}, sk),
         NEW p \in Paths \ {<<>>}, Booked(es, Front(p))
  PROVE  Booked(es, p)
<1> DEFINE q == Front(p)
           x == Last(p)
           N == NodesAt(root, q)
<1>1. /\ p = Append(q, x) /\ q \in Paths /\ x \in Listing(q) /\ source[q].type = "dir"
      /\ IsSeq(q)
  BY PathParts, PathFacts
<1>2. NodesAt(root, p) = Into(N, x)
  <2> HIDE DEF q, x
  <2>1. NodesAt(root, Append(q, x)) = Into(NodesAt(root, q), x)
    BY <1>1, NodesAtStep
  <2> QED  BY <1>1, <2>1
<1>3. /\ ~Hidden(<<>>)
      /\ Hidden(p) <=> Hidden(q) \/ Direct(sk, p) \/ Blind(sk, q)
  BY HiddenStep
<1>4. CASE Hidden(q)
  <2>1. q # <<>> /\ Hidden(p)
    BY <1>3, <1>4
  <2>2. N = {}
    BY <1>4, <2>1 DEF Booked
  <2>3. Into({}, x) = {}
    BY DEF Into
  <2> HIDE DEF N, q, x
  <2> QED  BY <1>2, <2>1, <2>2, <2>3 DEF Booked
<1>5. CASE ~Hidden(q)
  <2>1. q \in DOMAIN es /\ N = {NodeId(es[q])}
    BY <1>1, <1>5 DEF Booked
  <2>2. /\ (\E e \in es[q] : e.name = x) <=> ~(Direct(sk, p) \/ Blind(sk, q))
        /\ \A e \in es[q] : e.name = x =>
             /\ EntryOf(p, e) /\ e.type = source[p].type
             /\ IsDirEntry(e) => p \in DOMAIN es /\ Subnode(e) = NodeId(es[p])
    BY <2>1, ClosedEntry
  <2> DEFINE S == {e \in es[q] : IsDirEntry(e) /\ e.name = x}
  <2>3. Into(N, x) = {Subnode(e) : e \in S}
    <3> HIDE DEF q, x, N
    <3>1. UNION {Entries(n) : n \in N} = es[q]
      BY <2>1 DEF Entries, NodeId
    <3> QED  BY <3>1 DEF Into
  <2>4. Hidden(p) <=> Direct(sk, p) \/ Blind(sk, q)
    BY <1>3, <1>5
  <2> HIDE DEF q, x, N
  <2>5. CASE ~Hidden(p) /\ source[p].type = "dir"
    <3>1. PICK e \in es[q] : e.name = x
      BY <2>2, <2>4, <2>5
    <3>2. e \in S
      BY <2>2, <2>5, <3>1 DEF IsDirEntry
    <3>3. \A d \in S : p \in DOMAIN es /\ Subnode(d) = NodeId(es[p])
      BY <2>2
    <3>4. {Subnode(d) : d \in S} = {NodeId(es[p])}
      <4> HIDE DEF S
      <4> QED  BY <3>2, <3>3
    <3> QED  BY <1>2, <2>3, <2>5, <3>2, <3>3, <3>4 DEF Booked
  <2>6. CASE ~(~Hidden(p) /\ source[p].type = "dir")
    <3>1. S = {}
      <4> SUFFICES ASSUME NEW e \in es[q], e.name = x, IsDirEntry(e) PROVE FALSE
        OBVIOUS
      <4>1. ~Hidden(p)
        BY <2>2, <2>4
      <4>2. source[p].type = "dir"
        BY <2>2 DEF IsDirEntry
      <4> QED  BY <2>6, <4>1, <4>2
    <3>2. {Subnode(d) : d \in S} = {}
      <4> HIDE DEF S
      <4> QED  BY <3>1
    <3>3. p # <<>>
      OBVIOUS
    <3> QED  BY <1>2, <2>3, <2>6, <3>2, <3>3 DEF Booked
  <2> QED  BY <2>5, <2>6
<1> QED  BY <1>4, <1>5

(* ... and so, on the length of a path, for every path.                    *)
LEMMA AllBooked ==
  ASSUME source \in Sources, NEW es, NEW left, NEW sk, sk = skipped, Honest(es, left, {}, sk),
         <<>> \in DOMAIN es, root = NodeId(es[<<>>])
  PROVE  \A p \in Paths : Booked(es, p)
<1> DEFINE S == {Len(p) : p \in {r \in Paths : ~Booked(es, r)}}
<1>1. \A p \in Paths : Len(p) \in Nat
  BY PathFacts, SeqLength
<1>2. Booked(es, <<>>)
  <2>1. NodesAt(root, <<>>) = {root}
    <3>1. IsSeq(<<>>)
      BY PathFacts
    <3> QED  BY <3>1, NodesAtStep
  <2> QED  BY <2>1 DEF Booked
<1> SUFFICES ASSUME S # {} PROVE FALSE
  OBVIOUS
<1>3. PICK n \in S : \A k \in S : n <= k
  <2>1. S \in SUBSET Nat
    BY <1>1
  <2> HIDE DEF S
  <2> QED  BY <2>1, LeastOf
<1>4. PICK p \in Paths : ~Booked(es, p) /\ n = Len(p)
  OBVIOUS
<1>5. p # <<>>
  BY <1>2, <1>4
<1>6. Front(p) \in Paths /\ Len(p) = Len(Front(p)) + 1 /\ Len(Front(p)) \in Nat
  BY <1>5, PathParts, ChildPath
<1>7. ~Booked(es, Front(p))
  BY <1>4, <1>5, BookedStep
<1>8. Len(Front(p)) \in S
  BY <1>6, <1>7
<1>9. n <= Len(Front(p))
  BY <1>3, <1>8
<1> QED
  <2> DEFINE a == Len(Front(p))
             b == Len(p)
  <2>1. n <= a /\ n = b /\ b = a + 1 /\ a \in Nat
    BY <1>4, <1>6, <1>9
  <2> HIDE DEF a, b
  <2> QED  BY <2>1

(* Closed books make an honest report.                                     *)
LEMMA BooksTell ==
  ASSUME source \in Sources, BooksKept, SkipsCounted
  PROVE  ScanHonest
<1> SUFFICES ASSUME scan = "done"
             PROVE  /\ \A p \in DOMAIN source \ {<<>>} :
                         /\ Recorded(p) # {} <=> ~Hidden(p)
                         /\ \A e \in Recorded(p) : EntryOf(p, e)
                    /\ \A p \in DOMAIN source : \A n \in NodesAt(root, p) : \A e \in Entries(n) :
                         Append(p, e.name) \in DOMAIN source
  BY DEF ScanHonest, SkipsCounted, Unread
<1>1. PICK es, left : /\ Honest(es, left, {}, skipped)
                      /\ <<>> \in DOMAIN es /\ root = NodeId(es[<<>>])
  BY DEF BooksKept
<1>2. PICK sk : sk = skipped
  OBVIOUS
<1>3. Honest(es, left, {}, sk) /\ \A p \in Paths : Booked(es, p)
  <2>1. Honest(es, left, {}, sk)
    BY <1>1, <1>2
  <2> QED  BY <1>1, <1>2, <2>1, AllBooked
<1>4. ASSUME NEW p \in Paths \ {<<>>}
      PROVE  /\ Recorded(p) # {} <=> ~Hidden(p)
             /\ \A e \in Recorded(p) : EntryOf(p, e)
  <2> DEFINE q == Front(p)
             x == Last(p)
             N == NodesAt(root, q)
  <2>1. q \in Paths /\ source[q].type = "dir" /\ Booked(es, q)
    BY <1>3, PathParts
  <2>2. /\ ~Hidden(<<>>)
        /\ Hidden(p) <=> Hidden(q) \/ Direct(sk, p) \/ Blind(sk, q)
    BY <1>2, <1>3, HiddenStep
  <2>3. Recorded(p) = {e \in UNION {Entries(n) : n \in N} : e.name = x}
    BY DEF Recorded, EntriesAt
  <2>4. CASE Hidden(q)
    <3>1. q # <<>> /\ Hidden(p)
      BY <2>2, <2>4
    <3>2. N = {}
      BY <2>1, <2>4, <3>1 DEF Booked
    <3> HIDE DEF N, q, x
    <3>3. Recorded(p) = {}
      BY <2>3, <3>2
    <3> QED  BY <3>1, <3>3
  <2>5. CASE ~Hidden(q)
    <3>1. q \in DOMAIN es /\ N = {NodeId(es[q])}
      BY <2>1, <2>5 DEF Booked
    <3>2. /\ (\E e \in es[q] : e.name = x) <=> ~(Direct(sk, p) \/ Blind(sk, q))
          /\ \A e \in es[q] : e.name = x => EntryOf(p, e)
      BY <1>2, <1>3, <3>1, ClosedEntry
    <3> HIDE DEF N, q, x
    <3>3. UNION {Entries(n) : n \in N} = es[q]
      BY <3>1 DEF Entries, NodeId
    <3>4. Recorded(p) = {e \in es[q] : e.name = x}
      BY <2>3, <3>3
    <3> QED  BY <2>2, <2>5, <3>2, <3>4
  <2> QED  BY <2>4, <2>5
<1>5. ASSUME NEW p \in Paths, NEW n \in NodesAt(root, p), NEW e \in Entries(n)
      PROVE  Append(p, e.name) \in Paths
  <2>1. Booked(es, p)
    BY <1>3
  <2>2. p \in DOMAIN es /\ n = NodeId(es[p])
    BY <2>1 DEF Booked
  <2>3. e \in es[p]
    BY <2>2 DEF Entries, NodeId
  <2>4. Shows(es, left, {}, p, e)
    BY <1>3, <2>2, <2>3 DEF Honest
  <2>5. e.name \in Listing(p)
    BY <2>4 DEF Shows
  <2> QED  BY <2>5, PathFacts
<1> QED  BY <1>4, <1>5 DEF Paths

(* A restore leaves the books alone.                                       *)
LEMMA BooksSame ==
  ASSUME BooksKept, SkipsCounted, UNCHANGED <<source, scan, stack, skipped, root, failures>>
  PROVE  BooksKept' /\ SkipsCounted'
<1>1. View' = View /\ Here' = Here
  BY DEF View, Top, Listing, Here, Name
<1>2. CASE scan \in {"list", "walk", "file"}
  <2>1. PICK es, left, open : Honest(es, left, open, skipped) /\ Tracks(es, left, open, View)
    BY <1>2 DEF BooksKept
  <2>2. Honest(es, left, open, skipped)'
    BY <2>1, HonestPrime
  <2>3. Tracks(es, left, open, View)'
    BY <1>1, <2>1 DEF Tracks
  <2>4. BooksKept'
    BY <1>1, <1>2, <2>2, <2>3 DEF BooksKept
  <2> QED  BY <2>4 DEF SkipsCounted, Unread
<1>3. CASE scan = "done"
  <2>1. PICK es, left : /\ Honest(es, left, {}, skipped)
                        /\ <<>> \in DOMAIN es /\ root = NodeId(es[<<>>])
    BY <1>3 DEF BooksKept
  <2>2. Honest(es, left, {}, skipped)'
    BY <2>1, HonestPrime
  <2>3. BooksKept'
    BY <1>3, <2>1, <2>2 DEF BooksKept
  <2> QED  BY <2>3 DEF SkipsCounted, Unread
<1>4. CASE scan \notin {"list", "walk", "file", "done"}
  BY <1>4 DEF BooksKept, SkipsCounted, Unread
<1> QED  BY <1>2, <1>3, <1>4

(* Every step keeps the books; only scans change them.                     *)
LEMMA BooksHold == Spec => [](BooksKept /\ SkipsCounted)
<1>1. Init => BooksKept /\ SkipsCounted
  BY BooksStart DEF Init
<1>2. TreesInv /\ BooksKept /\ SkipsCounted /\ [Next]_vars => BooksKept' /\ SkipsCounted'
  <2> SUFFICES ASSUME TreesInv, BooksKept, SkipsCounted, [Next]_vars
               PROVE  BooksKept' /\ SkipsCounted'
    OBVIOUS
  <2>1. CASE ScanStep /\ restore = "idle"
    <3>1. ScanInv
      BY <2>1 DEF TreesInv
    <3> QED  BY <2>1, <3>1, ScanBooks, ScanCounts
  <2>2. CASE ScanStep /\ restore # "idle"
    <3>1. scan = "done"
      BY <2>2 DEF TreesInv, RestoreInv, RestoreTypeOK
    <3> QED  BY <2>2, <3>1
             DEF ScanStep, ListDir, PassExcluded, VisitFails, VisitSpecial, VisitLink, VisitDir,
                 VisitFile, ScanChunk, ScanFails, EndFile, StoreNode, StoreNodeFails, PutRaises,
                 NewChunk, EndDir, Visiting, Reached
  <2>3. CASE RestoreStep
    <3>1. UNCHANGED <<source, scan, stack, skipped, root, failures>>
      BY <2>3 DEF RestoreStep, BeginRestore, Resolve, StatRaises, RefuseEntry, EntryRaises, RestoreDir,
            RestoreLink, OpenTemp, WriteChunk, FileRaises, PublishFile, LeaveDir, ApplyDir,
            ReturnReport, scanVars
    <3> QED  BY <3>1, BooksSame
  <2>4. CASE UNCHANGED <<scanVars, restoreVars>>
    <3>1. UNCHANGED <<source, scan, stack, skipped, root, failures>>
      BY <2>4 DEF scanVars
    <3> QED  BY <3>1, BooksSame
  <2> QED  BY <2>1, <2>2, <2>3, <2>4, StepKinds
<1> QED  BY <1>1, <1>2, TreesInvHolds, PTL DEF Spec

(* The report of a scan tells the truth, whatever was excluded and raised: *)
(* the tree holds each path, with its content and mode, exactly if neither *)
(* it nor a directory above it is excluded or in the skip list; there are  *)
(* no more skips than special files and calls that raised.                 *)
THEOREM ScanReportsTruth == Spec => []ScanHonest
<1>1. TreesInv /\ BooksKept /\ SkipsCounted => ScanHonest
  <2>1. TreesInv => source \in Sources
    BY DEF TreesInv, ScanInv, RestoreInv, RestoreTypeOK, ScanTypeOK
  <2> QED  BY <2>1, BooksTell
<1> QED  BY <1>1, TreesInvHolds, BooksHold, PTL

-----------------------------------------------------------------------------

(* The tree below the root is one: a path leads to one node of a directory *)
(* that the scan has seen, and to one entry, which says what is there.     *)
OneNode ==
  \A q \in Seq(Nat) : NodesAt(root, q) # {} =>
    q \in Paths /\ \A m, n \in NodesAt(root, q) : m = n

OneEntry ==
  \A p \in Seq(Nat) \ {<<>>} : \A e \in Recorded(p) :
    /\ p \in Paths /\ e.name = Last(p) /\ EntrySound(e)
    /\ e.type = "link" => e.mode = "open"
    /\ \A f \in Recorded(p) : f = e

(* An entry is in the node of the directory, and its node is below that.   *)
LEMMA EntryAt ==
  ASSUME NEW q \in Seq(Nat), NEW x \in Nat
  PROVE  /\ Append(q, x) \in Seq(Nat) \ {<<>>}
         /\ Front(Append(q, x)) = q /\ Last(Append(q, x)) = x
         /\ \A e : e \in Recorded(Append(q, x)) <=>
              \E n \in NodesAt(root, q) : e \in Entries(n) /\ e.name = x
         /\ \A m : m \in NodesAt(root, Append(q, x)) <=>
              \E e \in Recorded(Append(q, x)) : IsDirEntry(e) /\ m = Subnode(e)
<1> DEFINE p == Append(q, x)
<1>1. IsSeq(q) /\ p \in Seq(Nat) /\ p # <<>>
  <2>1. IsSeq(q)
    BY DEF IsSeq
  <2>2. p \in Seq(Nat) /\ Len(p) > 0
    OBVIOUS
  <2> HIDE DEF p
  <2> QED  BY <2>1, <2>2
<1>2. Front(p) = q /\ Last(p) = x
  BY <1>1, AppendFacts
<1>3. NodesAt(root, p) = Into(NodesAt(root, q), x)
  BY <1>1, NodesAtStep
<1> HIDE DEF p
<1>4. Recorded(p) = {e \in UNION {Entries(n) : n \in NodesAt(root, q)} : e.name = x}
  BY <1>2 DEF Recorded, EntriesAt
<1>5. \A m : m \in NodesAt(root, p) <=> \E e \in Recorded(p) : IsDirEntry(e) /\ m = Subnode(e)
  BY <1>3, <1>4 DEF Into
<1> QED  BY <1>1, <1>2, <1>4, <1>5 DEF p

(* Nodes and entries are found at paths that Paths holds, or nowhere.      *)
LEMMA OnlyPaths ==
  ASSUME source \in Sources, scan = "done", ScanHonest
  PROVE  \A q \in Seq(Nat) : NodesAt(root, q) # {} => q \in Paths
<1> DEFINE Bad(q) == NodesAt(root, q) # {} /\ q \notin Paths
           S == {Len(q) : q \in {r \in Seq(Nat) : Bad(r)}}
<1> SUFFICES ASSUME S # {} PROVE FALSE
  OBVIOUS
<1>1. PICK n \in S : \A k \in S : n <= k
  <2>1. S \in SUBSET Nat
    OBVIOUS
  <2> HIDE DEF S
  <2> QED  BY <2>1, LeastOf
<1>2. PICK p \in Seq(Nat) : Bad(p) /\ n = Len(p)
  OBVIOUS
<1>3. p # <<>>
  BY <1>2, PathFacts
<1> DEFINE q == Front(p)
           x == Last(p)
<1>4. q \in Seq(Nat) /\ x \in Nat /\ p = Append(q, x)
  BY <1>3, FrontLast
<1>5. Len(p) = Len(q) + 1 /\ Len(q) \in Nat
  <2> HIDE DEF q, x
  <2> QED  BY <1>4
<1>6. PICK m \in NodesAt(root, q) : \E e \in Entries(m) : e.name = x
  <2>1. PICK m \in NodesAt(root, p) : TRUE
    BY <1>2
  <2> HIDE DEF q, x
  <2> QED  BY <1>4, <2>1, EntryAt
<1>7. q \in Paths => p \in Paths
  BY <1>4, <1>6 DEF ScanHonest, Paths
<1>8. Bad(q)
  BY <1>2, <1>6, <1>7
<1>9. Len(q) \in S
  BY <1>4, <1>8
<1> QED
  <2> DEFINE a == Len(q)
             b == Len(p)
  <2>1. n <= a /\ n = b /\ b = a + 1 /\ a \in Nat
    BY <1>1, <1>2, <1>5, <1>9
  <2> HIDE DEF a, b
  <2> QED  BY <2>1

(* With the books of the scan closed, a path says one thing.               *)
LEMMA TreeIsOne ==
  ASSUME source \in Sources, scan = "done", BooksKept, ScanHonest, Known
  PROVE  OneNode /\ OneEntry
<1>1. PICK es, left : /\ Honest(es, left, {}, skipped)
                      /\ <<>> \in DOMAIN es /\ root = NodeId(es[<<>>])
  BY DEF BooksKept
<1>2. PICK sk : sk = skipped
  OBVIOUS
<1>3. \A p \in Paths : Booked(es, p)
  <2>1. Honest(es, left, {}, sk)
    BY <1>1, <1>2
  <2> QED  BY <1>1, <1>2, <2>1, AllBooked
<1>4. OneNode
  <2> SUFFICES ASSUME NEW q \in Seq(Nat), NodesAt(root, q) # {}
               PROVE  q \in Paths /\ \A m, n \in NodesAt(root, q) : m = n
    BY DEF OneNode
  <2>1. q \in Paths
    BY OnlyPaths
  <2> QED  BY <1>3, <2>1 DEF Booked
<1>5. ASSUME NEW p \in Seq(Nat) \ {<<>>}, NEW e \in Recorded(p), NEW f \in Recorded(p)
      PROVE  /\ p \in Paths /\ e.name = Last(p) /\ EntrySound(e)
             /\ e.type = "link" => e.mode = "open"
             /\ f = e
  <2> DEFINE q == Front(p)
             x == Last(p)
  <2>1. q \in Seq(Nat) /\ x \in Nat /\ p = Append(q, x)
    BY FrontLast
  <2> HIDE DEF q, x
  <2>2. PICK n \in NodesAt(root, q) : e \in Entries(n) /\ e.name = x
    BY <2>1, EntryAt
  <2>3. PICK m \in NodesAt(root, q) : f \in Entries(m) /\ f.name = x
    BY <2>1, EntryAt
  <2>4. q \in Paths
    BY <1>4, <2>1, <2>2 DEF OneNode
  <2>5. p \in Paths
    BY <2>1, <2>2, <2>4 DEF ScanHonest, Paths
  <2>6. EntryOf(p, e) /\ EntryOf(p, f)
    BY <2>5 DEF ScanHonest, Paths
  <2>7. EntrySound(e) /\ EntrySound(f)
    BY <2>1, <2>2, <2>3, KnownBelow
  <2>8. e.type = f.type /\ e.mode = f.mode
    BY <2>6 DEF EntryOf
  <2>9. f = e
    <3>1. CASE e.type = "dir"
      <4>1. Subnode(e) \in NodesAt(root, p) /\ Subnode(f) \in NodesAt(root, p)
        BY <2>1, <2>8, <3>1, EntryAt DEF IsDirEntry
      <4>2. Subnode(e) = Subnode(f)
        BY <1>4, <4>1 DEF OneNode
      <4> QED  BY <2>2, <2>3, <2>7, <2>8, <3>1, <4>2 DEF EntrySound
    <3>2. CASE e.type = "file"
      BY <2>2, <2>3, <2>6, <2>8, <3>2 DEF EntryOf
    <3>3. CASE e.type = "link"
      BY <2>2, <2>3, <2>6, <2>8, <3>3 DEF EntryOf
    <3> QED  BY <2>7, <3>1, <3>2, <3>3 DEF EntrySound
  <2>10. e.type = "link" => e.mode = "open"
    BY <2>6 DEF EntryOf, LinkEntry, Entry
  <2> QED  BY <2>2, <2>5, <2>7, <2>9, <2>10 DEF x
<1>6. OneEntry
  BY <1>5 DEF OneEntry
<1> QED  BY <1>4, <1>6

-----------------------------------------------------------------------------
(* Where in the snapshot the things are that were asked for.               *)
LEMMA WantedFacts ==
  ASSUME source \in Sources, base \in Seq(Nat), NEW w \in Wanted
  PROVE  /\ w = <<w[1], w[2]>> /\ w[1] \in Seq(Nat) /\ w[1] # <<>> /\ w[1][1] = 0
         /\ Sought(w[1]) \in Seq(Nat) \ {<<>>}
         /\ w[2] \in Recorded(Sought(w[1]))
<1>1. PICK p \in Paths \ {<<>>} : IsPrefix(base, p) /\ \E e \in Recorded(p) :
        w = <<Target \o SubSeq(p, Len(base) + 1, Len(p)), e>>
  BY DEF Wanted
<1> PICK e \in Recorded(p) : w = <<Target \o SubSeq(p, Len(base) + 1, Len(p)), e>>
  BY <1>1
<1> DEFINE b == Len(base)
           n == Len(p)
           r == SubSeq(p, b + 1, n)
           d == Target \o r
<1>2. w = <<d, e>>
  OBVIOUS
<1>3. p \in Seq(Nat) /\ n \in Nat /\ b \in Nat
  <2>1. p \in Seq(Nat)
    BY PathFacts
  <2> QED  BY <2>1
<1>4. b <= n /\ \A i \in 1 .. b : base[i] = p[i]
  BY <1>1, <1>3, PrefixElements
<1>5. r \in Seq(Nat) /\ Len(r) = n - b /\ \A i \in 1 .. n - b : r[i] = p[b + i]
  <2>1. b + 1 \in Nat /\ b + 1 <= n + 1
    BY <1>3, <1>4
  <2> HIDE DEF n, b
  <2>2. r \in Seq(Nat) /\ Len(r) = (IF b + 1 <= n THEN n - b ELSE 0)
    BY <1>3, <1>4, <2>1 DEF n
  <2>3. \A i \in 1 .. n - b : r[i] = p[b + i]
    BY <1>3, <1>4, <2>1 DEF n
  <2>4. (IF b + 1 <= n THEN n - b ELSE 0) = n - b
    BY <1>3, <1>4
  <2> QED  BY <2>2, <2>3, <2>4
<1> HIDE DEF r
<1>6. /\ d \in Seq(Nat) /\ Len(d) = Len(r) + 1 /\ d[1] = 0
      /\ \A i \in 1 .. Len(r) : d[i + 1] = r[i]
  BY <1>5 DEF Target
<1>7. base \o r = p
  <2> DEFINE l == base \o r
  <2>1. /\ l \in Seq(Nat) /\ Len(l) = b + Len(r)
        /\ \A i \in 1 .. b + Len(r) : l[i] = IF i <= b THEN base[i] ELSE r[i - b]
    BY <1>5, ConcatProperties
  <2> HIDE DEF l, b, n
  <2>2. Len(l) = n
    BY <1>3, <1>4, <1>5, <2>1
  <2>3. ASSUME NEW i \in 1 .. n
        PROVE  l[i] = p[i]
    <3>1. CASE i <= b
      <4>1. i \in 1 .. b /\ i \in 1 .. b + Len(r)
        BY <1>3, <1>4, <1>5, <3>1
      <4> QED  BY <1>4, <2>1, <3>1, <4>1
    <3>2. CASE ~(i <= b)
      <4>1. i - b \in 1 .. n - b /\ b + (i - b) = i /\ i \in 1 .. b + Len(r)
        BY <1>3, <1>4, <1>5, <3>2
      <4> QED  BY <1>5, <2>1, <3>2, <4>1
    <3> QED  BY <3>1, <3>2
  <2>4. l = p
    BY <1>3, <2>1, <2>2, <2>3, SeqEqual DEF n
  <2> QED  BY <2>4 DEF l
<1> HIDE DEF d
<1>8. Tail(d) = r /\ d # <<>>
  <2>1. d # <<>>
    BY <1>5, <1>6
  <2>2. Tail(d) \in Seq(Nat) /\ Len(Tail(d)) = Len(d) - 1 /\ \A i \in 1 .. Len(Tail(d)) : Tail(d)[i] = d[i + 1]
    BY <1>6, <2>1, HeadTailProperties
  <2>3. Len(Tail(d)) = Len(r) /\ \A i \in 1 .. Len(r) : Tail(d)[i] = r[i]
    <3>1. Len(r) \in Nat
      BY ONLY <1>5, LenProperties
    <3> HIDE DEF b, n
    <3> QED  BY ONLY <1>6, <2>2, <3>1
  <2>4. Tail(d) = r
    BY <1>5, <2>2, <2>3, SeqEqual
  <2> QED  BY <2>1, <2>4
<1>9. Sought(d) = p
  BY <1>7, <1>8 DEF Sought
<1>10. w[1] = d /\ w[2] = e /\ w = <<w[1], w[2]>>
  BY ONLY <1>2
<1> QED  BY <1>3, <1>6, <1>8, <1>9, <1>10

(* What is on the way to an entry of the snapshot is in it.                *)
LEMMA OnTheWay ==
  ASSUME base \in Seq(Nat), NEW path \in Seq(Nat), Recorded(Sought(path)) # {},
         NEW r \in Seq(Nat), r # <<>>, IsPrefix(r, path)
  PROVE  Sought(r) = <<>> \/ Recorded(Sought(r)) # {}
<1> DEFINE Bad(s) == /\ s \in Seq(Nat) /\ s # <<>> /\ IsPrefix(s, path)
                     /\ Sought(s) # <<>> /\ Recorded(Sought(s)) = {}
           S == {Len(path) - Len(s) : s \in {t \in Seq(Nat) : Bad(t)}}
<1> SUFFICES ASSUME S # {} PROVE FALSE
  OBVIOUS
<1>1. \A s \in Seq(Nat) : Bad(s) => Len(path) - Len(s) \in Nat /\ Len(s) \in Nat
  <2> SUFFICES ASSUME NEW s \in Seq(Nat), Bad(s)
               PROVE  Len(path) - Len(s) \in Nat /\ Len(s) \in Nat
    OBVIOUS
  <2>1. Len(s) <= Len(path)
    BY PrefixElements
  <2> QED  BY <2>1
<1>2. PICK n \in S : \A k \in S : n <= k
  <2>1. S \in SUBSET Nat
    BY <1>1
  <2> HIDE DEF S
  <2> QED  BY <2>1, LeastOf
<1>3. PICK s \in Seq(Nat) : Bad(s) /\ n = Len(path) - Len(s)
  OBVIOUS
<1> DEFINE x == path[Len(s) + 1]
           u == Append(s, x)
<1>4. Len(s) \in Nat /\ Len(path) \in Nat /\ Len(s) < Len(path)
  <2>1. Len(s) <= Len(path) /\ \A i \in 1 .. Len(s) : s[i] = path[i]
    BY <1>3, PrefixElements
  <2>2. CASE Len(s) = Len(path)
    <3>1. s = path
      BY <2>1, <2>2, SeqEqual
    <3> QED  BY <1>3, <3>1
  <2> QED  BY <2>1, <2>2
<1>5. x \in Nat /\ IsPrefix(u, path)
  <2>1. IsSeq(s) /\ IsSeq(path)
    BY DEF IsSeq
  <2>2. x \in Nat
    <3>1. Len(s) + 1 \in 1 .. Len(path)
      BY ONLY <1>4
    <3> QED  BY ONLY <3>1, path \in Seq(Nat)
  <2>3. IsPrefix(s, path) /\ Len(s) < Len(path)
    BY <1>3, <1>4
  <2> QED  BY ONLY <2>1, <2>2, <2>3, PrefixGrows
<1>6. /\ u \in Seq(Nat) /\ u # <<>> /\ Len(u) = Len(s) + 1
  <2>1. x \in Nat
    BY <1>5
  <2> HIDE DEF x
  <2>2. u \in Seq(Nat) /\ Len(u) = Len(s) + 1
    BY <2>1
  <2> HIDE DEF u
  <2> QED  BY <1>4, <2>2
<1>7. Sought(u) = Append(Sought(s), x) /\ Sought(s) \in Seq(Nat)
  <2>1. x \in Nat
    BY <1>5
  <2> HIDE DEF x
  <2> QED  BY <1>3, <2>1, SoughtStep
<1>8. Len(path) - Len(u) \notin S
  <2> DEFINE a == Len(path)
             b == Len(s)
             c == Len(u)
  <2>1. a \in Nat /\ b \in Nat /\ c = b + 1 /\ n = a - b
    BY <1>3, <1>4, <1>6
  <2>2. ~(n <= a - c)
    <3> HIDE DEF a, b, c
    <3> QED  BY <2>1
  <2> HIDE DEF S
  <2> QED  BY <1>2, <2>2
<1>9. ~Bad(u)
  BY <1>6, <1>8
<1> HIDE DEF u, x
<1>10. Recorded(Append(Sought(s), x)) # {}
  <2>1. Sought(u) # <<>>
    BY <1>5, <1>7, EntryAt
  <2> QED  BY <1>5, <1>6, <1>7, <1>9, <2>1
<1>11. PICK m \in NodesAt(root, Sought(s)) : TRUE
  BY <1>5, <1>7, <1>10, EntryAt
<1>12. Recorded(Sought(s)) # {}
  <2>1. /\ Front(Sought(s)) \in Seq(Nat) /\ Last(Sought(s)) \in Nat
        /\ Sought(s) = Append(Front(Sought(s)), Last(Sought(s)))
    BY <1>3, <1>7, FrontLast
  <2> DEFINE f == Front(Sought(s))
             l == Last(Sought(s))
  <2>2. m \in NodesAt(root, Append(f, l)) /\ f \in Seq(Nat) /\ l \in Nat /\ Sought(s) = Append(f, l)
    BY <1>11, <2>1
  <2> HIDE DEF f, l
  <2> QED  BY <2>2, EntryAt
<1> QED  BY <1>3, <1>12

-----------------------------------------------------------------------------
(* What is still to be restored: entries by the paths they have there.     *)
Held(fr)  == {<<Append(fr.path, e.name), e>> : e \in fr.todo}
Todo(frs) == UNION {Held(frs[i]) : i \in 1 .. Len(frs)}

Pends(frs, path) == \E t \in Todo(frs) : IsPrefix(t[1], path)

(* A frame more adds what its node lists.                                  *)
LEMMA TodoPushed ==
  ASSUME NEW frs, IsSeq(frs), NEW fr
  PROVE  Todo(Append(frs, fr)) = Todo(frs) \cup Held(fr)
<1> DEFINE u == Append(frs, fr)
           n == Len(frs)
<1>1. /\ Len(u) = n + 1 /\ u[n + 1] = fr /\ n \in Nat
      /\ \A i \in 1 .. n : u[i] = frs[i]
  BY AppendFacts, SeqLength
<1> HIDE DEF u, n
<1>2. 1 .. Len(u) = (1 .. n) \cup {n + 1}
  BY <1>1
<1>3. Todo(u) = UNION {Held(u[i]) : i \in (1 .. n) \cup {n + 1}}
  BY <1>2 DEF Todo
<1>4. Todo(frs) = UNION {Held(frs[i]) : i \in 1 .. n}
  BY DEF Todo, n
<1>5. Todo(u) = Todo(frs) \cup Held(fr)
  BY <1>1, <1>3, <1>4
<1> QED  BY <1>5 DEF u

(* The frames but the innermost.                                           *)
LEMMA TodoPopped ==
  ASSUME NEW frs, IsSeq(frs), Len(frs) > 0
  PROVE  Todo(frs) = Todo(Front(frs)) \cup Held(Last(frs))
<1> DEFINE f == Front(frs)
           l == Last(frs)
<1>1. /\ IsSeq(f) /\ Len(f) = Len(frs) - 1 /\ Len(frs) \in Nat
      /\ \A i \in 1 .. Len(frs) - 1 : f[i] = frs[i]
      /\ l = frs[Len(frs)]
  BY FrontFacts, SeqLength DEF Last
<1> HIDE DEF f, l
<1> DEFINE n == Len(f)
<1>2. /\ 1 .. Len(frs) = (1 .. n) \cup {n + 1} /\ frs[n + 1] = l
      /\ \A i \in 1 .. n : frs[i] = f[i]
  BY <1>1
<1> HIDE DEF n
<1>3. Todo(frs) = UNION {Held(frs[i]) : i \in (1 .. n) \cup {n + 1}}
  BY <1>2 DEF Todo
<1>4. Todo(f) = UNION {Held(f[i]) : i \in 1 .. n}
  BY DEF Todo, n
<1>5. Todo(frs) = Todo(f) \cup Held(l)
  BY <1>2, <1>3, <1>4
<1> QED  BY <1>5 DEF f, l

(* The innermost entry is the next; with it done the others are left.      *)
LEMMA TodoDropped ==
  ASSUME RestoreInv, AtMember
  PROVE  /\ IsSeq(Dropped) /\ Len(Dropped) = Len(frames) /\ Len(frames) \in Nat
         /\ <<Dest, Member>> \in Todo(frames)
         /\ Todo(frames) = Todo(Dropped) \cup {<<Dest, Member>>}
         /\ Todo(Dropped) = Todo(Front(frames))
              \cup {<<Append(Inner.path, e.name), e>> : e \in Inner.todo \ {Member}}
         /\ Dropped = Append(Front(frames), [path |-> Inner.path, todo |-> Inner.todo \ {Member}])
<1> DEFINE fr == [path |-> Inner.path, todo |-> Inner.todo \ {Member}]
<1>1. /\ FramesFit(frames, disk) /\ Len(frames) > 0 /\ IsSeq(frames) /\ Len(frames) \in Nat
      /\ IsSeq(Front(frames)) /\ Len(Front(frames)) = Len(frames) - 1
  BY FrontFacts, SeqLength DEF RestoreInv, RestoreTypeOK, AtMember, FramesFit
<1>2. Inner = [path |-> Inner.path, todo |-> Inner.todo] /\ Member \in Inner.todo
  BY MemberFacts DEF NodeFits
<1>3. [Inner EXCEPT !.todo = @ \ {Member}] = fr
  <2>1. \A g, x : g = [path |-> g.path, todo |-> g.todo] =>
                   [g EXCEPT !.todo = @ \ {x}] = [path |-> g.path, todo |-> g.todo \ {x}]
    OBVIOUS
  <2> QED  BY <1>2, <2>1
<1>4. fr.path = Inner.path /\ fr.todo = Inner.todo \ {Member}
  OBVIOUS
<1> HIDE DEF fr
<1>5. Dropped = Append(Front(frames), fr)
  <2>1. Dropped = Front(frames) \o <<fr>>
    BY <1>3 DEF Dropped
  <2>2. PICK X : Front(frames) \in Seq(X)
    BY <1>1 DEF IsSeq
  <2> DEFINE Y == X \cup {fr}
  <2>3. Front(frames) \in Seq(Y) /\ fr \in Y
    BY <2>2
  <2> HIDE DEF Y
  <2> QED  BY <2>1, <2>3, AppendIsConcat
<1>6. IsSeq(Dropped) /\ Len(Dropped) = Len(frames)
  BY <1>1, <1>5, AppendFacts
<1>7. Todo(Dropped) = Todo(Front(frames))
              \cup {<<Append(Inner.path, e.name), e>> : e \in Inner.todo \ {Member}}
  BY <1>1, <1>4, <1>5, TodoPushed DEF Held
<1>8. Todo(frames) = Todo(Front(frames))
              \cup Held(Inner)
  BY <1>1, TodoPopped DEF Inner, Held
<1>9. <<Dest, Member>> = <<Append(Inner.path, Member.name), Member>>
  BY DEF Dest
<1>10. Held(Inner) = {<<Append(Inner.path, e.name), e>> : e \in Inner.todo \ {Member}}
                       \cup {<<Dest, Member>>}
  BY <1>2, <1>9 DEF Held
<1>11. Todo(frames) = Todo(Dropped) \cup {<<Dest, Member>>}
  BY <1>7, <1>8, <1>10
<1> QED  BY <1>1, <1>5, <1>6, <1>7, <1>11 DEF fr

-----------------------------------------------------------------------------
(* What is to be restored at a path is what was asked for there.           *)
AskedFor(path) ==
  IF Whole /\ path = Target THEN {DirEntry(0, "open", root)} ELSE Recorded(Sought(path))

Alike(e, f) ==
  /\ e.type = f.type /\ e.mode = f.mode /\ e.content = f.content /\ e.hash = f.hash

Asks(path, e) ==
  /\ path \in Seq(Nat) /\ path # <<>> /\ path[1] = 0
  /\ EntrySound(e) /\ EntryFits(path, e)
  /\ \E f \in AskedFor(path) : Alike(e, f)

Asked(frs) == \A t \in Todo(frs) : Asks(t[1], t[2])

(* The whole snapshot has no entry of its own.                             *)
LEMMA RootOnly ==
  ASSUME base \in Seq(Nat), NEW path \in Seq(Nat), path # <<>>, path[1] = 0
  PROVE  Sought(path) = <<>> <=> Whole /\ path = Target
<1> DEFINE t == Tail(path)
<1>1. t \in Seq(Nat) /\ Len(t) = Len(path) - 1 /\ Len(path) \in Nat /\ Len(path) > 0
  <2>1. Len(path) \in Nat /\ Len(path) > 0
    OBVIOUS
  <2> QED  BY <2>1, HeadTailProperties
<1> HIDE DEF t
<1>2. Len(base \o t) = Len(base) + Len(t) /\ base \o t \in Seq(Nat) /\ Len(base) \in Nat /\ Len(t) \in Nat
  <2>1. Len(base) \in Nat /\ Len(t) \in Nat
    BY <1>1
  <2>2. Len(base \o t) = Len(base) + Len(t) /\ base \o t \in Seq(Nat)
    BY ONLY base \in Seq(Nat), <1>1, ConcatProperties
  <2> QED  BY <2>1, <2>2
<1>3. base \o t = <<>> <=> base = <<>> /\ Len(t) = 0
  <2> DEFINE u == base \o t
  <2>1. u \in Seq(Nat) /\ Len(u) = Len(base) + Len(t)
    BY <1>2
  <2> HIDE DEF u
  <2>2. u = <<>> <=> Len(u) = 0
    BY <2>1, SeqLength DEF IsSeq
  <2>3. base = <<>> <=> Len(base) = 0
    OBVIOUS
  <2> QED  BY <1>2, <2>1, <2>2, <2>3 DEF u
<1>4. path = Target <=> Len(t) = 0
  <2>1. Target \in Seq(Nat) /\ Len(Target) = 1 /\ Target[1] = 0
    BY DEF Target
  <2>2. path = Target => Len(t) = 0
    BY <1>1, <2>1
  <2>3. Len(t) = 0 => path = Target
    <3> SUFFICES ASSUME Len(t) = 0 PROVE path = Target
      OBVIOUS
    <3>1. Len(path) = 1
      BY <1>1
    <3>2. \A i \in 1 .. 1 : path[i] = Target[i]
      BY <2>1
    <3> QED  BY <2>1, <3>1, <3>2, SeqEqual
  <2> QED  BY <2>2, <2>3
<1> QED  BY <1>3, <1>4 DEF Sought, Whole, t

(* Hence what is asked for at the path of a wanted entry is that entry.    *)
LEMMA AskedWanted ==
  ASSUME source \in Sources, base \in Seq(Nat), OneEntry, NEW w \in Wanted
  PROVE  /\ AskedFor(w[1]) = {w[2]}
         /\ EntrySound(w[2]) /\ (w[2].type = "link" => w[2].mode = "open")
         /\ w[1] \in Seq(Nat) /\ w[1] # <<>> /\ w[1][1] = 0
<1>1. /\ w[1] \in Seq(Nat) /\ w[1] # <<>> /\ w[1][1] = 0
      /\ Sought(w[1]) \in Seq(Nat) \ {<<>>}
      /\ w[2] \in Recorded(Sought(w[1]))
  BY WantedFacts
<1>2. ~(Whole /\ w[1] = Target)
  BY <1>1, RootOnly
<1>3. \A f \in Recorded(Sought(w[1])) : f = w[2]
  BY <1>1 DEF OneEntry
<1>4. AskedFor(w[1]) = {w[2]}
  BY <1>1, <1>2, <1>3 DEF AskedFor
<1> QED  BY <1>1, <1>4 DEF OneEntry

(* What is wanted below an entry is wanted of its node.                    *)
LEMMA WantedBelow ==
  ASSUME source \in Sources, base \in Seq(Nat), OneNode, OneEntry, NEW w \in Wanted,
         NEW path, NEW e, Asks(path, e), IsPrefix(path, w[1]), path # w[1]
  PROVE  /\ e.type = "dir"
         /\ \E g \in Entries(Subnode(e)) : IsPrefix(Append(path, g.name), w[1])
<1> DEFINE x == w[1][Len(path) + 1]
           u == Append(path, x)
<1>1. /\ w[1] \in Seq(Nat) /\ Recorded(Sought(w[1])) # {}
      /\ path \in Seq(Nat) /\ path # <<>> /\ path[1] = 0
      /\ EntryFits(path, e)
  BY WantedFacts DEF Asks
<1>2. Len(path) \in Nat /\ Len(w[1]) \in Nat /\ Len(path) < Len(w[1])
  <2>1. Len(path) <= Len(w[1]) /\ \A i \in 1 .. Len(path) : path[i] = w[1][i]
    BY <1>1, PrefixElements
  <2>2. CASE Len(path) = Len(w[1])
    <3>1. path = w[1]
      BY <1>1, <2>1, <2>2, SeqEqual
    <3> QED  BY <3>1
  <2> QED  BY <1>1, <2>1, <2>2
<1>3. x \in Nat /\ IsPrefix(u, w[1])
  <2>1. IsSeq(path) /\ IsSeq(w[1])
    BY <1>1 DEF IsSeq
  <2>2. x \in Nat
    BY <1>1, <1>2
  <2> QED  BY <1>2, <2>1, <2>2, PrefixGrows
<1> HIDE DEF x
<1>4. u \in Seq(Nat) /\ u # <<>> /\ Sought(u) = Append(Sought(path), x) /\ Sought(path) \in Seq(Nat)
  <2>1. u \in Seq(Nat) /\ u # <<>>
    BY <1>1, <1>3, EntryAt
  <2> QED  BY <1>1, <1>3, <2>1, SoughtStep
<1>5. Recorded(Append(Sought(path), x)) # {}
  <2>1. Sought(u) # <<>>
    BY <1>3, <1>4, EntryAt
  <2>2. Sought(u) = <<>> \/ Recorded(Sought(u)) # {}
    <3> HIDE DEF u
    <3> QED  BY <1>1, <1>3, <1>4, OnTheWay
  <2> QED  BY <1>4, <2>1, <2>2
<1>6. PICK n \in NodesAt(root, Sought(path)) : \E g \in Entries(n) : g.name = x
  BY <1>3, <1>4, <1>5, EntryAt
<1>7. e.type = "dir"
  <2>1. PICK f \in AskedFor(path) : Alike(e, f)
    BY DEF Asks
  <2>2. CASE Whole /\ path = Target
    BY <2>1, <2>2 DEF AskedFor, Alike, DirEntry, Entry
  <2>3. CASE ~(Whole /\ path = Target)
    <3>1. Sought(path) # <<>> /\ f \in Recorded(Sought(path))
      BY <1>1, <2>1, <2>3, RootOnly DEF AskedFor
    <3>2. /\ Front(Sought(path)) \in Seq(Nat) /\ Last(Sought(path)) \in Nat
          /\ Sought(path) = Append(Front(Sought(path)), Last(Sought(path)))
      BY <1>4, <3>1, FrontLast
    <3>3. PICK g \in Recorded(Sought(path)) : IsDirEntry(g)
      <4> DEFINE a == Front(Sought(path))
                 b == Last(Sought(path))
      <4>1. n \in NodesAt(root, Append(a, b)) /\ a \in Seq(Nat) /\ b \in Nat /\ Sought(path) = Append(a, b)
        BY <1>6, <3>2
      <4> HIDE DEF a, b
      <4> QED  BY <4>1, EntryAt
    <3>4. g = f
      BY <1>4, <3>1, <3>3 DEF OneEntry
    <3> QED  BY <2>1, <3>3, <3>4 DEF Alike, IsDirEntry
  <2> QED  BY <2>2, <2>3
<1>8. n = Subnode(e)
  BY <1>1, <1>4, <1>6, <1>7 DEF EntryFits, OneNode
<1> QED  BY <1>3, <1>6, <1>7, <1>8

(* What a directory lists is asked for, at the path below its own.         *)
LEMMA AsksBelow ==
  ASSUME Known, base \in Seq(Nat), NEW path, NEW e, Asks(path, e), e.type = "dir",
         NEW g \in Entries(Subnode(e))
  PROVE  Asks(Append(path, g.name), g)
<1> DEFINE x == g.name
           u == Append(path, x)
<1>1. path \in Seq(Nat) /\ path # <<>> /\ path[1] = 0 /\ EntryFits(path, e)
  BY DEF Asks
<1>2. EntrySound(g) /\ EntryFits(u, g)
  BY <1>1, FitsBelow
<1>3. x \in Nat
  BY <1>2 DEF EntrySound
<1> HIDE DEF x
<1>4. u \in Seq(Nat) /\ u # <<>> /\ u[1] = 0 /\ Sought(u) = Append(Sought(path), x)
      /\ Sought(path) \in Seq(Nat)
  <2>1. u \in Seq(Nat) /\ u # <<>>
    BY <1>1, <1>3, EntryAt
  <2> QED  BY <1>1, <1>3, <2>1, SoughtStep
<1>5. Sought(u) # <<>>
  BY <1>3, <1>4, EntryAt
<1> HIDE DEF u
<1>6. ~(Whole /\ u = Target)
  BY <1>4, <1>5, RootOnly
<1>7. g \in Recorded(Append(Sought(path), x))
  <2>1. Subnode(e) \in NodesAt(root, Sought(path))
    BY <1>1 DEF EntryFits
  <2> QED  BY <1>3, <1>4, <2>1, EntryAt DEF x
<1>8. g \in AskedFor(u)
  BY <1>4, <1>6, <1>7 DEF AskedFor
<1> QED  BY <1>2, <1>4, <1>8 DEF Asks, Alike, u, x

(* What was asked for at the target itself.                                *)
LEMMA AsksTarget ==
  ASSUME Known, base \in Seq(Nat),
         NEW e \in IF Whole THEN {DirEntry(0, "open", root)} ELSE Recorded(base)
  PROVE  LET g == [e EXCEPT !.name = 0] IN
         g.name = 0 /\ Asks(<<0>>, g)
<1> DEFINE g == [e EXCEPT !.name = 0]
<1>1. g.name = 0 /\ EntrySound(g) /\ EntryFits(<<0>>, g)
  BY FitsTarget
<1>2. Sought(<<0>>) = base /\ <<0>>[1] = 0 /\ <<0>> \in Seq(Nat) /\ <<0>> # <<>>
  BY SoughtStep
<1>3. e \in AskedFor(<<0>>)
  BY <1>2 DEF AskedFor, Target
<1>4. Alike(g, e)
  <2>1. e = Entry(e.name, e.type, e.mode, e.content, e.hash)
    <3>1. CASE Whole
      BY <3>1 DEF DirEntry, Entry
    <3>2. CASE ~Whole
      <4>1. PICK node \in NodesAt(root, Front(base)) : e \in Entries(node)
        BY <3>2 DEF Recorded, EntriesAt
      <4>2. Front(base) \in Seq(Nat)
        BY <3>2, FrontLast DEF Whole
      <4>3. EntrySound(e)
        BY <4>1, <4>2, KnownBelow
      <4> QED  BY <4>3 DEF EntrySound
    <3> QED  BY <3>1, <3>2
  <2> QED  BY <2>1 DEF Entry, Alike
<1> HIDE DEF g
<1>5. Asks(<<0>>, g)
  BY <1>1, <1>2, <1>3, <1>4 DEF Asks
<1> QED  BY <1>1, <1>5 DEF g

-----------------------------------------------------------------------------
(* What a report stands for.                                               *)
Due(w) == [path |-> w[1], mode |-> w[2].mode]

(* An entry is in place: a directory yet without its metadata.             *)
InPlace(w) ==
  /\ Restored(w[1], w[2])
  /\ IF w[2].type = "dir" THEN Due(w) \in dirMeta ELSE Attributed(w[1], w[2])

Finished(w) == Restored(w[1], w[2]) /\ (Attributed(w[1], w[2]) \/ w[1] \in warned)

DueRight ==
  \A d \in dirMeta : /\ d = [path |-> d.path, mode |-> d.mode]
                     /\ \A w \in Wanted : w[1] = d.path => w[2].mode = d.mode

Accounted ==
  \A w \in Wanted :
    \/ Below(w[1], failed)
    \/ InPlace(w)
    \/ IF restore \in {"walk", "file"} THEN Pends(frames, w[1]) ELSE Finished(w)

ReportInv ==
  /\ restore \in {"begun", "done"} => dirMeta = {}
  /\ restore \in {"walk", "file"} => Asked(frames)
  /\ restore \in {"walk", "file", "dirs", "done"} => DueRight /\ Accounted

(* What an operation at one path leaves of the rest.                       *)
Alters(old, new, at) ==
  /\ DOMAIN old \subseteq DOMAIN new /\ DOMAIN new \subseteq DOMAIN old \cup {at}
  /\ \A p \in DOMAIN old : p # at =>
       /\ new[p].type = old[p].type /\ new[p].data = old[p].data /\ new[p].mode = old[p].mode
       /\ old[p].type # "dir" => new[p] = old[p]

(* Nothing changes.                                                        *)
LEMMA SameAlters ==
  ASSUME NEW fs, NEW at
  PROVE  Alters(fs, fs, at)
BY DEF Alters

(* The times of the parent change.                                         *)
LEMMA TouchedAlters ==
  ASSUME DiskSound(disk), NEW path, IsDir(Front(path)), NEW at
  PROVE  Alters(disk, Touched(path), at) /\ DOMAIN Touched(path) = DOMAIN disk
<1> DEFINE new == Touched(path)
           q == Front(path)
<1>1. DOMAIN new = DOMAIN disk /\ \A p \in DOMAIN disk : p # q => new[p] = disk[p]
  BY DEF Touched
<1>2. new[q] = [disk[q] EXCEPT !.fresh = TRUE] /\ q \in DOMAIN disk /\ disk[q].type = "dir"
  BY DEF Touched, IsDir, Exists
<1>3. disk[q] = Item(disk[q].type, disk[q].mode, disk[q].data, disk[q].fresh)
  BY <1>2 DEF DiskSound, ItemSound
<1> HIDE DEF new, q
<1>4. new[q] = Item(disk[q].type, disk[q].mode, disk[q].data, TRUE)
  BY <1>2, <1>3 DEF Item
<1>5. new[q].type = disk[q].type /\ new[q].mode = disk[q].mode /\ new[q].data = disk[q].data
  BY <1>4 DEF Item
<1>6. Alters(disk, new, at)
  BY <1>1, <1>2, <1>5 DEF Alters
<1> QED  BY <1>1, <1>6 DEF new

(* A path is made, or made anew, in its directory.                         *)
LEMMA MadeAlters ==
  ASSUME DiskSound(disk), NEW path, IsDir(Front(path)), NEW item
  PROVE  /\ Alters(disk, Made(path, item), path)
         /\ path \in DOMAIN Made(path, item) /\ Made(path, item)[path] = item
<1> DEFINE new == Made(path, item)
           mid == Touched(path)
<1>1. Alters(disk, mid, path) /\ DOMAIN mid = DOMAIN disk
  BY TouchedAlters
<1>2. /\ DOMAIN new = DOMAIN disk \cup {path} /\ new[path] = item
      /\ \A p \in DOMAIN disk : p # path => new[p] = mid[p]
  BY DEF Made
<1> HIDE DEF new, mid
<1>3. Alters(disk, new, path)
  BY <1>1, <1>2 DEF Alters
<1> QED  BY <1>2, <1>3 DEF new

(* What is asked for does not depend on the restore.                       *)
LEMMA AskPrime ==
  ASSUME SameRequest
  PROVE  /\ Wanted' = Wanted
         /\ \A path, e : Asks(path, e)' <=> Asks(path, e)
<1>1. base' = base /\ force' = force /\ before' = before /\ root' = root /\ source' = source
  BY DEF SameRequest, scanVars
<1>2. \A path : Recorded(path)' = Recorded(path) /\ Sought(path)' = Sought(path)
  BY <1>1 DEF Recorded, Sought
<1>3. Wanted' = Wanted
  BY <1>1 DEF Wanted, Paths, Recorded
<1>4. \A path : AskedFor(path)' = AskedFor(path)
  BY <1>1, <1>2 DEF AskedFor, Whole
<1>5. \A path, e : EntryFits(path, e)' <=> EntryFits(path, e)
  BY <1>1, <1>2 DEF EntryFits
<1> QED  BY <1>3, <1>4, <1>5 DEF Asks

(* What a step that restores an entry must show.                           *)
LEMMA EntryKeeps ==
  ASSUME source \in Sources, RestoreInv, OneEntry, ReportInv, SameRequest, AtMember,
         restore' \in {"walk", "file"},
         Alters(disk, disk', Dest), failed \subseteq failed',
         dirMeta \subseteq dirMeta',
         dirMeta' \subseteq dirMeta \cup {[path |-> Dest, mode |-> Member.mode]},
         Asked(frames'),
         \A path : Pends(frames, path) => Pends(frames', path) \/ IsPrefix(Dest, path),
         \A w \in Wanted : IsPrefix(Dest, w[1]) =>
           Below(w[1], failed') \/ InPlace(w)' \/ Pends(frames', w[1])
  PROVE  ReportInv'
<1>1. restore \in {"walk", "file"} /\ Asked(frames) /\ DueRight /\ Accounted
  BY DEF ReportInv, AtMember
<1>2. Wanted' = Wanted /\ \A path, e : Asks(path, e)' <=> Asks(path, e)
  BY AskPrime
<1>3. Asked(frames)'
  BY <1>2 DEF Asked
<1>4. DueRight'
  <2>1. <<Dest, Member>> \in Todo(frames)
    BY TodoDropped
  <2>2. Asks(Dest, Member)
    BY <1>1, <2>1 DEF Asked
  <2>3. ASSUME NEW w \in Wanted, w[1] = Dest
        PROVE  w[2].mode = Member.mode
    <3>1. AskedFor(w[1]) = {w[2]}
      BY AskedWanted DEF RestoreInv, RestoreTypeOK
    <3> QED  BY <2>2, <2>3, <3>1 DEF Asks, Alike
  <2> DEFINE due == [path |-> Dest, mode |-> Member.mode]
  <2>4. due = [path |-> due.path, mode |-> due.mode] /\ due.path = Dest /\ due.mode = Member.mode
    OBVIOUS
  <2> HIDE DEF due
  <2>5. dirMeta' \subseteq dirMeta \cup {due}
    BY DEF due
  <2> QED  BY <1>1, <1>2, <2>3, <2>4, <2>5 DEF DueRight
<1>5. Accounted'
  <2> SUFFICES ASSUME NEW w \in Wanted
               PROVE  Below(w[1], failed') \/ InPlace(w)' \/ Pends(frames', w[1])
    BY <1>2 DEF Accounted, Below, Pends
  <2>1. CASE IsPrefix(Dest, w[1])
    BY <2>1
  <2>2. CASE ~IsPrefix(Dest, w[1])
    <3>1. Below(w[1], failed) \/ InPlace(w) \/ Pends(frames, w[1])
      BY <1>1 DEF Accounted
    <3>2. CASE Below(w[1], failed)
      BY <3>2 DEF Below
    <3>3. CASE Pends(frames, w[1])
      BY <2>2, <3>3
    <3>4. CASE InPlace(w)
      <4>1. w[1] # Dest
        <5>1. Dest \in Seq(Nat)
          BY MemberFacts
        <5>2. IsPrefix(Dest, Dest)
          BY <5>1, PrefixElements
        <5> QED  BY <2>2, <5>2
      <4>2. w[1] \in DOMAIN disk /\ disk[w[1]].type = w[2].type
        BY <3>4 DEF InPlace, Restored, Exists
      <4>3. /\ w[1] \in DOMAIN disk' /\ disk'[w[1]].type = disk[w[1]].type
            /\ disk'[w[1]].data = disk[w[1]].data
            /\ w[2].type # "dir" => disk'[w[1]] = disk[w[1]]
        BY <4>1, <4>2 DEF Alters
      <4>4. Restored(w[1], w[2])'
        BY <3>4, <4>3 DEF InPlace, Restored, Exists
      <4>5. w[2].type # "dir" => Attributed(w[1], w[2])'
        BY <3>4, <4>3 DEF InPlace, Attributed
      <4>6. w[2].type = "dir" => Due(w) \in dirMeta'
        BY <3>4 DEF InPlace
      <4>7. InPlace(w)'
        BY <4>4, <4>5, <4>6 DEF InPlace, Due
      <4> QED  BY <4>7
    <3> QED  BY <3>1, <3>2, <3>3, <3>4
  <2> QED  BY <2>1, <2>2
<1> QED  BY <1>3, <1>4, <1>5 DEF ReportInv

(* An entry done is an entry less to do.                                   *)
LEMMA DropKeeps ==
  ASSUME RestoreInv, AtMember, Asked(frames)
  PROVE  /\ Asked(Dropped) /\ Asks(Dest, Member)
         /\ \A path : Pends(frames, path) => Pends(Dropped, path) \/ IsPrefix(Dest, path)
         /\ \A path : IsPrefix(Dest, path) => Pends(frames, path)
<1>1. /\ <<Dest, Member>> \in Todo(frames)
      /\ Todo(frames) = Todo(Dropped) \cup {<<Dest, Member>>}
  BY TodoDropped
<1> DEFINE t == <<Dest, Member>>
<1>2. t[1] = Dest /\ t[2] = Member
  OBVIOUS
<1> HIDE DEF t
<1>3. t \in Todo(frames) /\ Todo(frames) = Todo(Dropped) \cup {t}
  BY <1>1 DEF t
<1> QED  BY <1>2, <1>3 DEF Asked, Pends

(* The entry fails, and with it all that is below.                         *)
LEMMA FailKeeps ==
  ASSUME source \in Sources, RestoreInv, OneEntry, ReportInv, SameRequest, AtMember,
         FailEntry, Alters(disk, disk', Dest), dirMeta \subseteq dirMeta',
         dirMeta' \subseteq dirMeta \cup {[path |-> Dest, mode |-> Member.mode]}
  PROVE  ReportInv'
<1>1. CASE Dest = Target
  BY <1>1 DEF FailEntry, ReportInv
<1>2. CASE Dest # Target
  <2>1. restore' = "walk" /\ frames' = Dropped /\ failed' = failed \cup {Dest}
    BY <1>2 DEF FailEntry
  <2>2. /\ Asked(Dropped)
        /\ \A path : Pends(frames, path) => Pends(Dropped, path) \/ IsPrefix(Dest, path)
    BY DropKeeps DEF ReportInv, AtMember
  <2>3. \A w \in Wanted : IsPrefix(Dest, w[1]) => Below(w[1], failed')
    BY <2>1 DEF Below
  <2> QED  BY <2>1, <2>2, <2>3, EntryKeeps
<1> QED  BY <1>1, <1>2

(* An entry that is refused is one that failed.                            *)
LEMMA RefuseReports ==
  ASSUME source \in Sources, RestoreInv, OneEntry, ReportInv,
         RefuseEntry \/ EntryRaises \/ FileRaises
  PROVE  ReportInv'
<1>1. AtMember /\ FailEntry /\ SameRequest /\ disk' = disk /\ dirMeta' = dirMeta
  BY DEF RefuseEntry, EntryRaises, FileRaises, AtEntry, AtMember, RestoreInv, TempSound, SameRequest
<1> QED  BY <1>1, SameAlters, FailKeeps

(* The directory is there, and its entries are to follow.                  *)
LEMMA DirReports ==
  ASSUME source \in Sources, RestoreInv, OneNode, OneEntry, ReportInv, RestoreDir
  PROVE  ReportInv'
<1>1. AtMember /\ Member.type = "dir" /\ restore = "walk" /\ SameRequest /\ warned' = warned
  BY DEF RestoreDir, Restoring, AtEntry, AtMember, SameRequest
<1>2. /\ Dest \in Seq(Nat) /\ IsDir(Front(Dest)) /\ DiskSound(disk) /\ Known /\ base \in Seq(Nat)
  BY <1>1, MemberFacts DEF RestoreInv, RestoreTypeOK
<1>3. /\ Asked(Dropped) /\ Asks(Dest, Member)
      /\ \A path : Pends(frames, path) => Pends(Dropped, path) \/ IsPrefix(Dest, path)
  BY <1>1, DropKeeps DEF ReportInv
<1> DEFINE due   == [path |-> Dest, mode |-> Member.mode]
           below == [path |-> Dest, todo |-> Entries(Subnode(Member))]
<1>4. CASE Open(Dest) /\ (IsDir(Dest) \/ ~Exists(Dest))
  <2>1. /\ disk' = IF IsDir(Dest) THEN disk ELSE Made(Dest, Item("dir", "open", <<>>, TRUE))
        /\ dirMeta' = IF Whole /\ Dest = Target THEN dirMeta ELSE dirMeta \cup {due}
        /\ IF Subnode(Member) \in chunks
           THEN frames' = Append(Dropped, below) /\ restore' = restore /\ failed' = failed
           ELSE FailEntry
    BY <1>4 DEF RestoreDir
  <2>2. Alters(disk, disk', Dest) /\ Dest \in DOMAIN disk' /\ disk'[Dest].type = "dir"
    <3>1. CASE IsDir(Dest)
      <4>1. disk' = disk
        BY <2>1, <3>1
      <4> QED  BY <3>1, <4>1, SameAlters DEF IsDir, Exists
    <3>2. CASE ~IsDir(Dest)
      <4> DEFINE item == Item("dir", "open", <<>>, TRUE)
      <4>1. item.type = "dir"
        BY DEF Item
      <4>2. disk' = Made(Dest, item)
        BY <2>1, <3>2
      <4> HIDE DEF item
      <4> QED  BY <1>2, <4>1, <4>2, MadeAlters
    <3> QED  BY <3>1, <3>2
  <2>3. dirMeta \subseteq dirMeta' /\ dirMeta' \subseteq dirMeta \cup {due}
    BY <2>1
  <2>4. CASE Subnode(Member) \notin chunks
    <3>1. FailEntry
      BY <2>1, <2>4
    <3> QED  BY <1>1, <2>2, <2>3, <3>1, FailKeeps
  <2>5. CASE Subnode(Member) \in chunks
    <3>1. frames' = Append(Dropped, below) /\ restore' = "walk" /\ failed' = failed
      BY <1>1, <2>1, <2>5
    <3>2. below.path = Dest /\ below.todo = Entries(Subnode(Member))
      OBVIOUS
    <3> HIDE DEF below, due
    <3>3. Todo(frames') = Todo(Dropped) \cup Held(below)
      BY <1>1, <3>1, TodoDropped, TodoPushed
    <3>4. Asked(frames')
      <4>1. ASSUME NEW g \in Entries(Subnode(Member))
            PROVE  Asks(Append(Dest, g.name), g)
        BY <1>1, <1>2, <1>3, AsksBelow
      <4>2. ASSUME NEW t \in Held(below)
            PROVE  Asks(t[1], t[2])
        <5>1. PICK g \in Entries(Subnode(Member)) : t = <<Append(Dest, g.name), g>>
          BY <3>2 DEF Held
        <5>2. t[1] = Append(Dest, g.name) /\ t[2] = g
          BY ONLY <5>1
        <5> QED  BY <4>1, <5>2
      <4> QED  BY <1>3, <3>3, <4>2 DEF Asked
    <3>5. \A path : Pends(frames, path) => Pends(frames', path) \/ IsPrefix(Dest, path)
      BY <1>3, <3>3 DEF Pends
    <3>6. ASSUME NEW w \in Wanted, IsPrefix(Dest, w[1])
          PROVE  InPlace(w)' \/ Pends(frames', w[1])
      <4>1. CASE w[1] = Dest
        <5>1. AskedFor(w[1]) = {w[2]} /\ w[1] # <<>> /\ w[1][1] = 0
          BY <1>2, AskedWanted
        <5>2. Alike(Member, w[2])
          BY <1>3, <4>1, <5>1 DEF Asks
        <5>3. w[2].type = "dir" /\ Due(w) = due
          BY <1>1, <4>1, <5>2 DEF Alike, Due, due
        <5>4. ~(Whole /\ Dest = Target)
          <6>1. Sought(w[1]) # <<>>
            BY <1>2, WantedFacts
          <6> QED  BY <1>2, <4>1, <5>1, <6>1, RootOnly
        <5>5. due \in dirMeta'
          BY <2>1, <5>4
        <5>6. Restored(w[1], w[2])'
          BY <2>2, <4>1, <5>3 DEF Restored, Exists
        <5>7. InPlace(w)'
          BY <5>3, <5>5, <5>6 DEF InPlace, Due
        <5> QED  BY <5>7
      <4>2. CASE w[1] # Dest
        <5>1. PICK g \in Entries(Subnode(Member)) : IsPrefix(Append(Dest, g.name), w[1])
          BY <1>2, <1>3, <3>6, <4>2, WantedBelow
        <5> DEFINE t == <<Append(Dest, g.name), g>>
        <5>2. t \in Held(below) /\ IsPrefix(t[1], w[1])
          BY <3>2, <5>1 DEF Held
        <5> HIDE DEF t
        <5> QED  BY <3>3, <5>2 DEF Pends
      <4> QED  BY <4>1, <4>2
    <3> QED  BY <1>1, <2>2, <2>3, <3>1, <3>4, <3>5, <3>6, EntryKeeps DEF due
  <2> QED  BY <2>4, <2>5
<1>5. CASE ~(Open(Dest) /\ (IsDir(Dest) \/ ~Exists(Dest)))
  <2>1. FailEntry /\ disk' = disk /\ dirMeta' = dirMeta
    BY <1>5 DEF RestoreDir
  <2> QED  BY <1>1, <2>1, SameAlters, FailKeeps
<1> QED  BY <1>4, <1>5

(* A file or a link is there as it was recorded.                           *)
LEMMA LeafReports ==
  ASSUME source \in Sources, RestoreInv, OneNode, OneEntry, ReportInv, SameRequest, AtMember,
         Member.type # "dir", restore' = "walk", frames' = Dropped, failed' = failed,
         dirMeta' = dirMeta, warned' = warned,
         NEW item, disk' = Made(Dest, item), item.type = Member.type, ~item.fresh,
         Member.type = "file" => item.mode = Member.mode /\ item.data = Member.hash,
         Member.type = "link" => item.mode = "open" /\ item.data = <<Member.content[1][2]>>
  PROVE  ReportInv'
<1>1. /\ Dest \in Seq(Nat) /\ IsDir(Front(Dest)) /\ DiskSound(disk) /\ base \in Seq(Nat)
  BY MemberFacts DEF RestoreInv, RestoreTypeOK
<1>2. /\ Asked(Dropped) /\ Asks(Dest, Member)
      /\ \A path : Pends(frames, path) => Pends(Dropped, path) \/ IsPrefix(Dest, path)
  BY DropKeeps DEF ReportInv, AtMember
<1>3. Alters(disk, disk', Dest) /\ Dest \in DOMAIN disk' /\ disk'[Dest] = item
  BY <1>1, MadeAlters
<1>4. ASSUME NEW w \in Wanted, IsPrefix(Dest, w[1])
      PROVE  InPlace(w)'
  <2>1. w[1] = Dest
    BY <1>1, <1>2, <1>4, WantedBelow
  <2>2. /\ AskedFor(w[1]) = {w[2]} /\ EntrySound(w[2])
        /\ w[2].type = "link" => w[2].mode = "open"
    BY <1>1, AskedWanted
  <2>3. Alike(Member, w[2])
    BY <1>2, <2>1, <2>2 DEF Asks
  <2>4. w[2].type \in {"file", "link"}
    BY <2>2, <2>3 DEF Alike, EntrySound
  <2>5. Restored(w[1], w[2])'
    BY <1>3, <2>1, <2>3 DEF Restored, Exists, Alike
  <2>6. Attributed(w[1], w[2])'
    BY <1>3, <2>1, <2>2, <2>3, <2>4 DEF Attributed, Alike
  <2> QED  BY <2>4, <2>5, <2>6 DEF InPlace
<1> QED  BY <1>2, <1>3, <1>4, EntryKeeps

(* A link is made, or fails.                                               *)
LEMMA LinkReports ==
  ASSUME source \in Sources, RestoreInv, OneNode, OneEntry, ReportInv, RestoreLink
  PROVE  ReportInv'
<1>1. AtMember /\ Member.type = "link" /\ SameRequest /\ dirMeta' = dirMeta /\ warned' = warned
      /\ restore = "walk"
  BY DEF RestoreLink, Restoring, AtEntry, AtMember, SameRequest
<1>2. CASE Open(Dest) /\ ~IsDir(Dest) /\ ~(Exists(Dest) /\ Dest = Target)
  <2> DEFINE item == Item("link", "open", <<Member.content[1][2]>>, FALSE)
  <2>1. disk' = Made(Dest, item) /\ frames' = Dropped /\ restore' = "walk" /\ failed' = failed
    BY <1>1, <1>2 DEF RestoreLink
  <2>2. /\ item.type = "link" /\ item.mode = "open" /\ ~item.fresh
        /\ item.data = <<Member.content[1][2]>>
    BY DEF Item
  <2> HIDE DEF item
  <2> QED  BY <1>1, <2>1, <2>2, LeafReports
<1>3. CASE ~(Open(Dest) /\ ~IsDir(Dest) /\ ~(Exists(Dest) /\ Dest = Target))
  <2>1. FailEntry /\ disk' = disk
    BY <1>3 DEF RestoreLink
  <2> QED  BY <1>1, <2>1, SameAlters, FailKeeps
<1> QED  BY <1>2, <1>3

(* A file is opened, or fails; its path is still pending.                  *)
LEMMA OpenReports ==
  ASSUME source \in Sources, RestoreInv, OneEntry, ReportInv, OpenTemp \/ WriteChunk
  PROVE  ReportInv'
<1>1. AtMember /\ SameRequest /\ dirMeta' = dirMeta /\ warned' = warned
  BY DEF OpenTemp, WriteChunk, Restoring, AtEntry, AtMember, SameRequest, RestoreInv, TempSound
<1>2. CASE FailEntry /\ disk' = disk
  BY <1>1, <1>2, SameAlters, FailKeeps
<1>3. CASE ~(FailEntry /\ disk' = disk)
  <2>1. /\ restore' = "file" /\ frames' = frames /\ failed' = failed
        /\ disk' = disk \/ disk' = Touched(Dest)
    BY <1>3 DEF OpenTemp, WriteChunk
  <2>2. Alters(disk, disk', Dest)
    BY <1>1, <2>1, MemberFacts, SameAlters, TouchedAlters DEF RestoreInv
  <2>3. Asked(frames) /\ \A path : IsPrefix(Dest, path) => Pends(frames, path)
    BY <1>1, DropKeeps DEF ReportInv, AtMember
  <2> QED  BY <1>1, <2>1, <2>2, <2>3, EntryKeeps
<1> QED  BY <1>2, <1>3

(* A file is moved into place with its mode and times, or fails.           *)
LEMMA PublishReports ==
  ASSUME source \in Sources, RestoreInv, OneNode, OneEntry, ReportInv, PublishFile
  PROVE  ReportInv'
<1>1. AtMember /\ Member.type = "file" /\ SameRequest /\ dirMeta' = dirMeta /\ warned' = warned
  BY DEF PublishFile, AtMember, SameRequest, RestoreInv, TempSound
<1>2. CASE temp = Member.hash /\ ~IsDir(Dest)
  <2> DEFINE item == Item("file", Member.mode, temp, FALSE)
  <2>1. disk' = Made(Dest, item) /\ frames' = Dropped /\ restore' = "walk" /\ failed' = failed
    BY <1>2 DEF PublishFile
  <2>2. /\ item.type = "file" /\ item.mode = Member.mode /\ ~item.fresh
        /\ item.data = Member.hash
    BY <1>2 DEF Item
  <2> HIDE DEF item
  <2> QED  BY <1>1, <2>1, <2>2, LeafReports
<1>3. CASE ~(temp = Member.hash /\ ~IsDir(Dest))
  <2>1. FailEntry /\ disk' = disk
    BY <1>3 DEF PublishFile
  <2> QED  BY <1>1, <2>1, SameAlters, FailKeeps
<1> QED  BY <1>2, <1>3

(* A node is done; when the outermost is, nothing is pending any more.     *)
LEMMA LeaveReports ==
  ASSUME RestoreInv, ReportInv, LeaveDir
  PROVE  ReportInv'
<1>1. /\ SameRequest /\ restore = "walk" /\ Inner.todo = {} /\ frames' = Front(frames)
      /\ restore' = IF Len(frames) = 1 THEN "dirs" ELSE "walk"
      /\ disk' = disk /\ dirMeta' = dirMeta /\ failed' = failed /\ warned' = warned
  BY DEF LeaveDir, SameRequest
<1>2. IsSeq(frames) /\ Len(frames) > 0 /\ Asked(frames) /\ DueRight /\ Accounted
  BY <1>1 DEF RestoreInv, RestoreTypeOK, FramesFit, ReportInv
<1>3. Todo(frames') = Todo(frames)
  <2>1. Held(Last(frames)) = {}
    BY ONLY <1>1 DEF Inner, Held
  <2>2. Todo(frames) = Todo(Front(frames)) \cup Held(Last(frames))
    BY ONLY <1>2, TodoPopped
  <2> QED  BY ONLY <1>1, <2>1, <2>2
<1>4. Wanted' = Wanted /\ \A path, e : Asks(path, e)' <=> Asks(path, e)
  BY <1>1, AskPrime
<1>5. Asked(frames)' /\ DueRight'
  BY <1>1, <1>2, <1>3, <1>4 DEF Asked, DueRight
<1>6. ASSUME NEW w \in Wanted
      PROVE  /\ InPlace(w)' <=> InPlace(w)
             /\ Pends(frames', w[1]) <=> Pends(frames, w[1])
  BY <1>1, <1>3 DEF InPlace, Restored, Exists, Attributed, Due, Pends
<1>7. Len(frames) = 1 => \A w \in Wanted : ~Pends(frames, w[1])
  <2> SUFFICES ASSUME Len(frames) = 1
               PROVE  Todo(frames') = {}
    BY <1>3 DEF Pends
  <2>1. Len(frames') = 0
    BY <1>1, <1>2, FrontFacts
  <2> QED  BY <2>1 DEF Todo
<1>8. Accounted'
  BY <1>1, <1>2, <1>4, <1>6, <1>7 DEF Accounted, Below, Pends
<1> QED  BY <1>1, <1>5, <1>8 DEF ReportInv

(* A directory fails with the entries its node still lists.                *)
LEMMA StatReports ==
  ASSUME source \in Sources, RestoreInv, ReportInv, StatRaises
  PROVE  ReportInv'
<1>1. /\ SameRequest /\ restore = "walk" /\ FailNode /\ Inner.todo # {}
      /\ disk' = disk /\ dirMeta' = dirMeta /\ warned' = warned
  BY DEF StatRaises, AtEntry, SameRequest
<1>2. CASE Inner.path \in {<<>>, Target}
  BY <1>1, <1>2 DEF FailNode, ReportInv
<1>3. CASE Inner.path \notin {<<>>, Target}
  <2>1. restore' = "walk" /\ frames' = Front(frames) /\ failed' = failed \cup {Inner.path}
    BY <1>1, <1>3 DEF FailNode
  <2>2. /\ IsSeq(frames) /\ Len(frames) > 0 /\ Asked(frames) /\ DueRight /\ Accounted
        /\ FramesFit(frames, disk) /\ base \in Seq(Nat)
    BY <1>1 DEF RestoreInv, RestoreTypeOK, FramesFit, ReportInv
  <2>3. Todo(frames) = Todo(frames') \cup Held(Inner)
    BY <2>1, <2>2, TodoPopped DEF Inner
  <2>4. Wanted' = Wanted /\ \A path, e : Asks(path, e)' <=> Asks(path, e)
    BY <1>1, AskPrime
  <2>5. Asked(frames)' /\ DueRight'
    BY <1>1, <2>2, <2>3, <2>4 DEF Asked, DueRight
  <2>6. Inner.path \in Seq(Nat) /\ \A e \in Inner.todo : e.name \in Nat
    BY <2>2, FramesPopped DEF Inner, NodeFits, EntrySound
  <2>7. ASSUME NEW w \in Wanted
        PROVE  Below(w[1], failed') \/ InPlace(w)' \/ Pends(frames', w[1])
    <3>1. Below(w[1], failed) \/ InPlace(w) \/ Pends(frames, w[1])
      BY <1>1, <2>2 DEF Accounted
    <3>2. InPlace(w)' <=> InPlace(w)
      BY <1>1 DEF InPlace, Restored, Exists, Attributed, Due
    <3>3. Below(w[1], failed) => Below(w[1], failed')
      BY <2>1 DEF Below
    <3>4. ASSUME Pends(frames, w[1]), ~Pends(frames', w[1])
          PROVE  Below(w[1], failed')
      <4>1. PICK t \in Held(Inner) : IsPrefix(t[1], w[1])
        BY <2>3, <3>4 DEF Pends
      <4>2. PICK e \in Inner.todo : t = <<Append(Inner.path, e.name), e>>
        BY <4>1 DEF Held
      <4>3. IsPrefix(Append(Inner.path, e.name), w[1]) /\ w[1] \in Seq(Nat)
        BY <2>2, <4>1, <4>2, WantedFacts
      <4>4. IsPrefix(Inner.path, w[1])
        BY <2>6, <4>3, PrefixSplit
      <4> QED  BY <2>1, <4>4 DEF Below
    <3> QED  BY <3>1, <3>2, <3>3, <3>4
  <2>8. Accounted'
    BY <2>1, <2>4, <2>7 DEF Accounted, Below, Pends
  <2> QED  BY <1>1, <2>1, <2>5, <2>8 DEF ReportInv
<1> QED  BY <1>2, <1>3

(* The restore returns when no directory is due.                           *)
LEMMA ReturnReports ==
  ASSUME ReportInv, ReturnReport
  PROVE  ReportInv'
<1>1. /\ SameRequest /\ restore = "dirs" /\ restore' = "done" /\ dirMeta = {}
      /\ disk' = disk /\ dirMeta' = dirMeta /\ failed' = failed /\ warned' = warned
  BY DEF ReturnReport, SameRequest
<1>2. Wanted' = Wanted
  BY <1>1, AskPrime
<1>3. \A w \in Wanted : (InPlace(w)' <=> InPlace(w)) /\ (Finished(w)' <=> Finished(w))
  BY <1>1 DEF InPlace, Finished, Restored, Exists, Attributed, Due
<1>4. Accounted'
  BY <1>1, <1>2, <1>3 DEF ReportInv, Accounted, Below
<1> QED  BY <1>1, <1>4 DEF ReportInv, DueRight

(* A directory that is due gets its metadata, or a warning.                *)
LEMMA ApplyReports ==
  ASSUME RestoreInv, ReportInv, ApplyDir
  PROVE  ReportInv'
<1>1. SameRequest /\ restore = "dirs" /\ restore' = "dirs" /\ failed' = failed
  BY DEF ApplyDir, SameRequest
<1>2. PICK d \in dirMeta :
        /\ dirMeta' = dirMeta \ {d}
        /\ \/ /\ disk' = [disk EXCEPT ![d.path].mode = d.mode, ![d.path].fresh = FALSE]
              /\ warned' = warned
           \/ disk' = disk /\ warned' = warned \cup {d.path}
  BY DEF ApplyDir
<1>3. DueRight /\ Accounted /\ DiskSound(disk) /\ d.path \in DOMAIN disk /\ disk[d.path].type = "dir"
  BY <1>1 DEF ReportInv, RestoreInv, DueFits
<1>4. Wanted' = Wanted
  BY <1>1, AskPrime
<1> DEFINE q == d.path
           m == d.mode
           x == disk[q]
<1>5. /\ DOMAIN disk' = DOMAIN disk /\ \A p \in DOMAIN disk : p # q => disk'[p] = disk[p]
      /\ disk'[q].type = x.type /\ disk'[q].data = x.data
      /\ (disk'[q].mode = m /\ ~disk'[q].fresh) \/ q \in warned'
      /\ disk'[q] = disk[q] \/ (disk'[q].mode = m /\ ~disk'[q].fresh)
      /\ warned \subseteq warned'
  <2>1. CASE disk' = disk /\ warned' = warned \cup {d.path}
    BY <2>1
  <2>2. CASE disk' = [disk EXCEPT ![d.path].mode = d.mode, ![d.path].fresh = FALSE] /\ warned' = warned
    <3>1. /\ DOMAIN disk' = DOMAIN disk /\ \A p \in DOMAIN disk : p # q => disk'[p] = disk[p]
          /\ disk'[q] = [[x EXCEPT !.mode = m] EXCEPT !.fresh = FALSE]
      BY <1>3, <2>2
    <3> HIDE DEF q, m
    <3>2. x = Item(x.type, x.mode, x.data, x.fresh)
      BY <1>3 DEF DiskSound, ItemSound, q
    <3>3. disk'[q] = Item(x.type, m, x.data, FALSE)
      <4> DEFINE y == [x EXCEPT !.mode = m]
      <4>1. disk'[q] = [y EXCEPT !.fresh = FALSE]
        BY <3>1
      <4> HIDE DEF x
      <4>2. y = Item(x.type, m, x.data, x.fresh)
        BY <3>2 DEF Item
      <4> HIDE DEF y
      <4> QED  BY <4>1, <4>2 DEF Item
    <3> QED  BY <2>2, <3>1, <3>3 DEF Item
  <2> QED  BY <1>2, <2>1, <2>2
<1>6. DueRight'
  BY <1>2, <1>3, <1>4 DEF DueRight
<1> HIDE DEF x
<1>7. ASSUME NEW w \in Wanted
      PROVE  Below(w[1], failed) \/ InPlace(w)' \/ Finished(w)'
  <2>1. Below(w[1], failed) \/ InPlace(w) \/ Finished(w)
    BY <1>1, <1>3 DEF Accounted
  <2>2. Restored(w[1], w[2]) => Restored(w[1], w[2])'
    <3>1. w[1] \in DOMAIN disk =>
            /\ w[1] \in DOMAIN disk' /\ disk'[w[1]].type = disk[w[1]].type
            /\ disk'[w[1]].data = disk[w[1]].data
      BY <1>3, <1>5 DEF x
    <3> QED  BY <3>1 DEF Restored, Exists
  <2>3. CASE Restored(w[1], w[2]) /\ w[1] = q
    <3>1. w[2].mode = m
      BY <1>3, <2>3 DEF DueRight
    <3>2. CASE q \in warned'
      BY <2>2, <2>3, <3>2 DEF Finished
    <3>3. CASE disk'[q].mode = m /\ ~disk'[q].fresh
      BY <2>2, <2>3, <3>1, <3>3 DEF Finished, Attributed
    <3> QED  BY <1>5, <3>2, <3>3
  <2>4. CASE Restored(w[1], w[2]) /\ w[1] # q
    <3>1. disk'[w[1]] = disk[w[1]]
      BY <1>5, <2>4 DEF Restored, Exists
    <3>2. Attributed(w[1], w[2]) => Attributed(w[1], w[2])'
      BY <3>1 DEF Attributed
    <3>3. Due(w) \in dirMeta => Due(w) \in dirMeta'
      <4>1. Due(w).path = w[1]
        BY DEF Due
      <4> QED  BY <1>2, <2>4, <4>1
    <3>4. Finished(w) => Finished(w)'
      BY <1>5, <2>2, <3>2 DEF Finished
    <3>5. InPlace(w) => InPlace(w)'
      BY <2>2, <3>2, <3>3 DEF InPlace, Due
    <3> QED  BY <2>1, <3>4, <3>5
  <2> QED  BY <2>1, <2>3, <2>4 DEF InPlace, Finished
<1>8. Accounted'
  BY <1>1, <1>4, <1>7 DEF Accounted, Below
<1> QED  BY <1>1, <1>6, <1>8 DEF ReportInv

(* At first all that is wanted is pending.                                 *)
LEMMA ResolveReports ==
  ASSUME source \in Sources, RestoreInv, ReportInv, Resolve
  PROVE  ReportInv'
<1>1. SameRequest /\ dirMeta' = {}
  BY DEF Resolve, SameRequest, ReportInv
<1>2. CASE ~(Whole \/ Navigable)
  BY <1>2 DEF Resolve, ReportInv
<1>3. CASE Whole \/ Navigable
  <2>1. restore' = "walk"
    BY <1>3 DEF Resolve
  <2>2. Known /\ base \in Seq(Nat)
    BY DEF RestoreInv, RestoreTypeOK
  <2>3. PICK e \in IF Whole THEN {DirEntry(0, "open", root)} ELSE Recorded(base) :
          frames' = <<[path |-> <<>>, todo |-> {[e EXCEPT !.name = 0]}]>>
    BY <1>3 DEF Resolve
  <2> DEFINE g == [e EXCEPT !.name = 0]
             fr == [path |-> <<>>, todo |-> {g}]
             t == <<Target, g>>
  <2>4. g.name = 0 /\ Asks(<<0>>, g)
    BY <2>2, AsksTarget
  <2> HIDE DEF g
  <2>5. t[1] = Target /\ t[2] = g
    OBVIOUS
  <2>6. Held(fr) = {t}
    <3>1. fr.path = <<>> /\ fr.todo = {g} /\ Append(<<>>, 0) = Target
      BY DEF Target
    <3> HIDE DEF fr
    <3> QED  BY <2>4, <3>1 DEF Held
  <2>7. frames' = <<fr>> /\ Len(<<fr>>) = 1 /\ <<fr>>[1] = fr
    BY <2>3 DEF g
  <2> HIDE DEF fr, t
  <2>8. Todo(frames') = {t}
    BY <2>6, <2>7 DEF Todo
  <2>9. Asked(frames')
    BY <2>4, <2>5, <2>8 DEF Asked, Target
  <2>10. Wanted' = Wanted /\ \A path, h : Asks(path, h)' <=> Asks(path, h)
    BY <1>1, AskPrime
  <2>11. ASSUME NEW w \in Wanted
         PROVE  Pends(frames', w[1])
    <3>1. w[1] \in Seq(Nat) /\ w[1] # <<>> /\ w[1][1] = 0
      BY <2>2, WantedFacts
    <3> QED  BY <2>5, <2>8, <3>1, UnderTarget DEF Pends
  <2>12. Accounted'
    BY <2>1, <2>10, <2>11 DEF Accounted, Pends
  <2>13. Asked(frames)'
    BY <2>9, <2>10 DEF Asked
  <2> QED  BY <1>1, <2>1, <2>12, <2>13 DEF ReportInv, DueRight
<1> QED  BY <1>2, <1>3

(* A step that leaves the restore alone.                                   *)
LEMMA ReportSame ==
  ASSUME ReportInv, UNCHANGED <<scanVars, restoreVars>>
  PROVE  ReportInv'
<1>1. /\ SameRequest /\ restore' = restore /\ frames' = frames /\ disk' = disk
      /\ dirMeta' = dirMeta /\ failed' = failed /\ warned' = warned
  BY DEF restoreVars, SameRequest
<1>2. Wanted' = Wanted /\ \A path, e : Asks(path, e)' <=> Asks(path, e)
  BY <1>1, AskPrime
<1>3. (Asked(frames)' <=> Asked(frames)) /\ (DueRight' <=> DueRight)
  BY <1>1, <1>2 DEF Asked, DueRight
<1>4. \A w \in Wanted : (InPlace(w)' <=> InPlace(w)) /\ (Finished(w)' <=> Finished(w))
  BY <1>1 DEF InPlace, Finished, Restored, Exists, Attributed, Due
<1>5. Accounted' <=> Accounted
  BY <1>1, <1>2, <1>4 DEF Accounted, Below, Pends
<1> QED  BY <1>1, <1>3, <1>5 DEF ReportInv

(* What a restore begins with, and has from then on.                       *)
LEMMA TreeKnown ==
  ASSUME TreesInv, BooksKept, SkipsCounted, restore # "idle"
  PROVE  source \in Sources /\ RestoreInv /\ OneNode /\ OneEntry
<1>1. RestoreInv /\ source \in Sources /\ scan = "done" /\ Known
  BY DEF TreesInv, RestoreInv, RestoreTypeOK, ScanTypeOK
<1>2. ScanHonest
  BY <1>1, BooksTell
<1> QED  BY <1>1, <1>2, TreeIsOne

(* Every step keeps the account.                                           *)
LEMMA ReportStep ==
  ASSUME TreesInv, BooksKept, SkipsCounted, ReportInv, [Next]_vars
  PROVE  ReportInv'
<1>1. CASE ScanStep /\ UNCHANGED restoreVars
  <2>1. restore' = restore
    BY <1>1 DEF restoreVars
  <2>2. restore = "idle"
    <3> SUFFICES ASSUME restore # "idle" PROVE FALSE
      OBVIOUS
    <3>1. scan = "done"
      BY DEF TreesInv, RestoreInv, RestoreTypeOK
    <3> QED  BY <1>1, <3>1
             DEF ScanStep, ListDir, PassExcluded, VisitFails, VisitSpecial, VisitLink, VisitDir,
                 VisitFile, ScanChunk, ScanFails, EndFile, StoreNode, StoreNodeFails, PutRaises,
                 NewChunk, EndDir, Visiting, Reached
  <2> QED  BY <2>1, <2>2 DEF ReportInv
<1>2. CASE BeginRestore
  BY <1>2 DEF BeginRestore, TreesInv, NotBegun, ReportInv
<1>3. CASE RestoreStep /\ ~BeginRestore
  <2>1. restore # "idle"
    BY <1>3 DEF RestoreStep, Resolve, StatRaises, RefuseEntry, EntryRaises, RestoreDir, RestoreLink, OpenTemp,
          WriteChunk, FileRaises, PublishFile, LeaveDir, ApplyDir, ReturnReport, AtEntry, Restoring
  <2>2. source \in Sources /\ RestoreInv /\ OneNode /\ OneEntry
    BY <2>1, TreeKnown
  <2> QED  BY <1>3, <2>2, ResolveReports, StatReports, RefuseReports, DirReports, LinkReports, OpenReports,
              PublishReports, LeaveReports, ApplyReports, ReturnReports DEF RestoreStep
<1>4. CASE UNCHANGED <<scanVars, restoreVars>>
  BY <1>4, ReportSame
<1> QED  BY <1>1, <1>2, <1>3, <1>4, StepKinds

(* The account is kept in every behaviour.                                 *)
LEMMA ReportInvHolds == Spec => []ReportInv
<1>1. Init => ReportInv
  BY DEF Init, RestoreInit, ReportInv
<1>2. TreesInv /\ BooksKept /\ SkipsCounted /\ ReportInv /\ [Next]_vars => ReportInv'
  BY ReportStep
<1> QED  BY <1>1, <1>2, TreesInvHolds, BooksHold, PTL DEF Spec

(* Nothing is missing in silence: after a restore that returns, every      *)
(* entry asked for is there as it was recorded, with its mode and times,   *)
(* unless the report names it or a directory above it.                     *)
THEOREM NothingMissesSilently == Spec => []RestoreReports
<1>1. ReportInv => RestoreReports
  <2> SUFFICES ASSUME ReportInv, restore = "done", NEW w \in Wanted
               PROVE  \/ Below(w[1], failed)
                      \/ /\ Restored(w[1], w[2])
                         /\ Attributed(w[1], w[2]) \/ w[1] \in warned
    BY DEF RestoreReports
  <2>1. dirMeta = {} /\ (Below(w[1], failed) \/ InPlace(w) \/ Finished(w))
    BY DEF ReportInv, Accounted
  <2> QED  BY <2>1 DEF InPlace, Finished
<1> QED  BY <1>1, ReportInvHolds, PTL

-----------------------------------------------------------------------------
(* The stack goes down from the directory of the target, and nothing that  *)
(* is to be restored is at or below something else that is.                *)
Level(frs) == \A i \in 1 .. Len(frs) : Len(frs[i].path) = i - 1

Apart(frs) == \A t, u \in Todo(frs) : IsPrefix(t[1], u[1]) => t = u

(* With the innermost entry dropped, nothing is left at, above or below it. *)
LEMMA DropApart ==
  ASSUME RestoreInv, AtMember, Asked(frames), Level(frames), Apart(frames)
  PROVE  /\ Level(Dropped) /\ Apart(Dropped)
         /\ Dest \in Seq(Nat) /\ Len(Dest) = Len(frames) /\ Len(frames) \in Nat \ {0}
         /\ <<Dest, Member>> \in Todo(frames)
         /\ \A t \in Todo(Dropped) :
              t \in Todo(frames) /\ ~IsPrefix(t[1], Dest) /\ ~IsPrefix(Dest, t[1])
<1> DEFINE fr == [path |-> Inner.path, todo |-> Inner.todo \ {Member}]
           fs == Front(frames)
           n == Len(frames)
           m == <<Dest, Member>>
<1>1. /\ FramesFit(frames, disk) /\ n > 0 /\ IsSeq(frames) /\ n \in Nat
      /\ IsSeq(fs) /\ Len(fs) = n - 1 /\ \A i \in 1 .. n - 1 : fs[i] = frames[i]
      /\ Inner = frames[n]
  BY FrontFacts, SeqLength DEF RestoreInv, RestoreTypeOK, AtMember, FramesFit, Inner, Last
<1>2. /\ NodeFits(Inner, disk) /\ Member \in Inner.todo /\ Member.name \in Nat
      /\ Dest = Append(Inner.path, Member.name) /\ Inner.path \in Seq(Nat) /\ Dest \in Seq(Nat)
  BY MemberFacts DEF NodeFits, Dest
<1>3. /\ m \in Todo(frames) /\ Todo(frames) = Todo(Dropped) \cup {m}
      /\ Todo(Dropped) = Todo(fs) \cup {<<Append(Inner.path, e.name), e>> : e \in Inner.todo \ {Member}}
      /\ Dropped = Append(fs, fr)
  BY TodoDropped
<1>4. fr.path = Inner.path
  OBVIOUS
<1> HIDE DEF fr, fs, n
<1>5. Len(Inner.path) = n - 1
  BY <1>1 DEF Level, n
<1>6. Len(Dest) = n
  BY <1>1, <1>2, <1>5, PrefixSplit
<1>7. Level(Dropped)
  <2>1. /\ Len(Dropped) = n /\ Dropped[n] = fr /\ \A i \in 1 .. n - 1 : Dropped[i] = frames[i]
    BY <1>1, <1>3, AppendFacts
  <2> SUFFICES ASSUME NEW i \in 1 .. n
               PROVE  Len(Dropped[i].path) = i - 1
    BY <2>1 DEF Level
  <2>2. CASE i = n
    BY <1>4, <1>5, <2>1, <2>2
  <2>3. CASE i # n
    <3>1. i \in 1 .. n - 1
      BY <1>1, <2>3
    <3> QED  BY <2>1, <3>1 DEF Level, n
  <2> QED  BY <2>2, <2>3
<1>8. Apart(Dropped)
  BY <1>3 DEF Apart
<1>9. m \notin Todo(Dropped)
  <2>1. ASSUME NEW e \in Inner.todo \ {Member}
        PROVE  m # <<Append(Inner.path, e.name), e>>
    BY <2>1
  <2>2. ASSUME m \in Todo(fs)
        PROVE  FALSE
    <3>1. PICK i \in 1 .. Len(fs) : m \in Held(fs[i])
      BY <2>2 DEF Todo
    <3>2. i \in 1 .. n - 1 /\ i \in 1 .. n /\ fs[i] = frames[i] /\ i # n
      BY <1>1, <3>1
    <3>3. PICK e \in frames[i].todo : m = <<Append(frames[i].path, e.name), e>>
      BY <3>1, <3>2 DEF Held
    <3>4. frames[i].path \in Seq(Nat) /\ e.name \in Nat
      BY <1>1, <3>2 DEF FramesFit, NodeFits, EntrySound, n
    <3>5. Dest = Append(frames[i].path, e.name)
      BY ONLY <3>3
    <3>6. Len(Dest) = Len(frames[i].path) + 1
      BY <3>4, <3>5, PrefixSplit
    <3>7. Len(frames[i].path) = i - 1
      BY <3>2 DEF Level, n
    <3> QED  BY <1>6, <3>2, <3>6, <3>7
  <2> QED  BY <1>3, <2>1, <2>2
<1>10. m[1] = Dest
  OBVIOUS
<1> HIDE DEF m
<1>11. \A t \in Todo(Dropped) :
         t \in Todo(frames) /\ ~IsPrefix(t[1], Dest) /\ ~IsPrefix(Dest, t[1])
  BY <1>3, <1>9, <1>10 DEF Apart
<1> QED  BY <1>1, <1>2, <1>3, <1>6, <1>7, <1>8, <1>11 DEF m, n

(* What a directory lists comes to paths of its own, in its place.         *)
LEMMA PushApart ==
  ASSUME RestoreInv, OneEntry, AtMember, Asked(frames), Level(frames), Apart(frames),
         Member.type = "dir",
         NEW fr, fr.path = Dest, fr.todo = Entries(Subnode(Member)), NEW frs,
         frs = Append(Dropped, fr)
  PROVE  /\ Level(frs) /\ Apart(frs)
         /\ \A t \in Todo(frs) : t \in Todo(Dropped) \/ \E x \in Nat : t[1] = Append(Dest, x)
<1>1. /\ Level(Dropped) /\ Apart(Dropped)
      /\ Dest \in Seq(Nat) /\ Len(Dest) = Len(frames) /\ Len(frames) \in Nat \ {0}
      /\ \A t \in Todo(Dropped) : /\ t \in Todo(frames)
                                  /\ ~IsPrefix(t[1], Dest) /\ ~IsPrefix(Dest, t[1])
  BY DropApart
<1>2. IsSeq(Dropped) /\ Len(Dropped) = Len(frames)
  BY TodoDropped
<1>3. /\ Len(frs) = Len(frames) + 1 /\ frs[Len(frames) + 1] = fr
      /\ \A i \in 1 .. Len(frames) : frs[i] = Dropped[i]
  BY <1>2, AppendFacts
<1>4. Todo(frs) = Todo(Dropped) \cup Held(fr)
  BY <1>2, TodoPushed
<1>5. Level(frs)
  <2> SUFFICES ASSUME NEW i \in 1 .. Len(frames) + 1
               PROVE  Len(frs[i].path) = i - 1
    BY <1>3 DEF Level
  <2>1. CASE i = Len(frames) + 1
    BY <1>1, <1>3, <2>1
  <2>2. CASE i # Len(frames) + 1
    <3>1. i \in 1 .. Len(frames)
      BY <1>1, <2>2
    <3> QED  BY <1>1, <1>2, <1>3, <3>1 DEF Level
  <2> QED  BY <2>1, <2>2
<1>6. Known /\ base \in Seq(Nat) /\ Asks(Dest, Member)
  BY DropKeeps DEF RestoreInv, RestoreTypeOK
<1>7. ASSUME NEW t \in Held(fr)
      PROVE  /\ t[2].name \in Nat /\ t[1] = Append(Dest, t[2].name) /\ t[1] \in Seq(Nat)
             /\ t[2] \in Entries(Subnode(Member)) /\ Asks(t[1], t[2]) /\ t = <<t[1], t[2]>>
  <2>1. PICK g \in Entries(Subnode(Member)) : t = <<Append(Dest, g.name), g>>
    BY DEF Held
  <2>2. t[1] = Append(Dest, g.name) /\ t[2] = g /\ t = <<t[1], t[2]>>
    BY ONLY <2>1
  <2>3. Asks(Append(Dest, g.name), g)
    BY <1>6, AsksBelow
  <2>4. g.name \in Nat
    BY <2>3 DEF Asks, EntrySound
  <2> QED  BY <2>2, <2>3, <2>4 DEF Asks
<1>8. ASSUME NEW t \in Held(fr), NEW u \in Held(fr), IsPrefix(t[1], u[1])
      PROVE  t = u
  <2> DEFINE x == t[2].name
             y == u[2].name
  <2>1. x = y
    <3>1. x \in Nat /\ y \in Nat /\ t[1] = Append(Dest, x) /\ u[1] = Append(Dest, y)
      BY <1>7
    <3> HIDE DEF x, y
    <3>2. IsPrefix(Append(Dest, x), Append(Dest, y))
      BY <1>8, <3>1
    <3> QED  BY ONLY <1>1, <3>1, <3>2, PrefixSplit
  <2>2. t[1] = u[1]
    <3>1. t[1] = Append(Dest, x) /\ u[1] = Append(Dest, y)
      BY <1>7
    <3> QED  BY ONLY <2>1, <3>1
  <2>3. PICK e \in AskedFor(t[1]) : Alike(t[2], e)
    BY <1>7 DEF Asks
  <2>4. PICK f \in AskedFor(t[1]) : Alike(u[2], f)
    BY <1>7, <2>2 DEF Asks
  <2>5. t[1] # Target
    <3> DEFINE z == t[2].name
    <3>1. z \in Nat /\ t[1] = Append(Dest, z)
      BY <1>7
    <3> HIDE DEF z
    <3>2. Len(t[1]) = Len(Dest) + 1 /\ Len(Dest) > 0 /\ Len(Dest) \in Nat
      BY <1>1, <3>1, PrefixSplit
    <3> DEFINE l == Len(t[1])
               m == Len(Target)
    <3>3. m = 1
      BY DEF Target
    <3>4. l # m
      <4> HIDE DEF l, m
      <4>1. l = Len(Dest) + 1
        BY ONLY <3>2 DEF l
      <4> QED  BY ONLY <3>2, <3>3, <4>1
    <3> QED  BY ONLY <3>4
  <2>6. e = f
    <3>1. t[1] \in Seq(Nat) /\ t[1] # <<>> /\ t[1][1] = 0
      BY <1>7 DEF Asks
    <3>2. Sought(t[1]) # <<>>
      BY <1>6, <2>5, <3>1, RootOnly
    <3>3. Sought(t[1]) \in Seq(Nat) \ {<<>>}
      BY <1>6, <3>1, <3>2, SoughtStep
    <3> QED  BY <2>3, <2>4, <2>5, <3>3 DEF AskedFor, OneEntry
  <2>7. t[2] = u[2]
    <3>1. EntrySound(t[2]) /\ EntrySound(u[2])
      BY <1>7 DEF Asks
    <3>2. /\ t[2] = Entry(t[2].name, t[2].type, t[2].mode, t[2].content, t[2].hash)
          /\ u[2] = Entry(u[2].name, u[2].type, u[2].mode, u[2].content, u[2].hash)
      BY <3>1 DEF EntrySound
    <3>3. /\ t[2].type = u[2].type /\ t[2].mode = u[2].mode /\ t[2].content = u[2].content
          /\ t[2].hash = u[2].hash
      BY <2>3, <2>4, <2>6 DEF Alike
    <3> QED  BY <2>1, <3>2, <3>3
  <2> QED  BY <1>7, <2>2, <2>7
<1>9. ASSUME NEW t \in Todo(Dropped), NEW u \in Held(fr)
      PROVE  ~IsPrefix(t[1], u[1]) /\ ~IsPrefix(u[1], t[1])
  <2> DEFINE x == u[2].name
             q == t[1]
  <2>1. q \in Seq(Nat) /\ ~IsPrefix(q, Dest) /\ ~IsPrefix(Dest, q)
    BY <1>1 DEF Asked, Asks
  <2>2. x \in Nat /\ u[1] = Append(Dest, x)
    BY <1>7
  <2> HIDE DEF x, q
  <2>3. ~IsPrefix(Append(Dest, x), q)
    BY <1>1, <2>1, <2>2, PrefixSplit
  <2>4. q # Append(Dest, x)
    <3>1. IsPrefix(Dest, Append(Dest, x))
      BY <1>1, <2>2, PrefixSplit
    <3> QED  BY ONLY <2>1, <3>1
  <2>5. ~IsPrefix(q, Append(Dest, x))
    BY <1>1, <2>1, <2>2, <2>4, PrefixAppend
  <2> QED  BY <2>2, <2>3, <2>5 DEF q
<1>10. Apart(frs)
  BY <1>1, <1>4, <1>8, <1>9 DEF Apart
<1> QED  BY <1>4, <1>5, <1>7, <1>10

-----------------------------------------------------------------------------
(* Nothing was made at or below what is still to be restored, and no        *)
(* directory was closed above or below it.                                  *)
Untried(frs, fs) ==
  \A p \in DOMAIN fs, t \in Todo(frs) :
    /\ p \notin DOMAIN before => ~IsPrefix(t[1], p)
    /\ fs[p].mode # "open" /\ p \notin InTheWay => ~IsPrefix(p, t[1]) /\ ~IsPrefix(t[1], p)

(* A directory that is due its metadata is not below anything still to be  *)
(* restored, nor below a directory that the restore has closed.            *)
Reachable(due, frs, fs) ==
  \A d \in due :
    /\ \A t \in Todo(frs) : ~IsPrefix(t[1], d.path)
    /\ \A p \in DOMAIN fs :
         fs[p].mode # "open" /\ IsStrictPrefix(p, d.path) => p \in InTheWay

(* What excuses an entry that fails, or at the target the whole restore.   *)
Damaged(path) ==
  IF path = Target
  THEN \/ Target \in DOMAIN before \/ <<>> \in InTheWay \/ Target \in Lacking
       \/ Whole /\ root \notin chunks
  ELSE path \in Lacking \/ Below(path, InTheWay)

Excess == {d \in failed \ Lacking : ~Below(d, InTheWay)}

Contained ==
  /\ restore \in {"idle", "begun"} =>
       failed = {} /\ warned = {} /\ dirMeta = {} /\ frames = <<>> /\ disk = before
  /\ restore \in {"dirs", "done"} => Todo(frames) = {}
  /\ Level(frames) /\ Apart(frames) /\ DOMAIN disk \subseteq Seq(Nat)
  /\ restore # "raised" => Untried(frames, disk) /\ Reachable(dirMeta, frames, disk)
  /\ IsFiniteSet(Excess) /\ Cardinality(Excess) <= errors
  /\ warned # {} => InTheWay # {}
  /\ restore = "raised" =>
       errors > 0 \/ Damaged(Target) \/ ~(Whole \/ Navigable)

(* An entry asked for that needs a lost chunk is one of those.             *)
LEMMA AskedLacks ==
  ASSUME source \in Sources, base \in Seq(Nat), OneEntry, NEW path, NEW e, Asks(path, e),
         ~(Whole /\ path = Target), ~(Needs(e) \subseteq chunks)
  PROVE  path \in Lacking
<1> DEFINE p == Sought(path)
           t == Tail(path)
           b == Len(base)
           r == SubSeq(p, b + 1, Len(p))
<1>1. path \in Seq(Nat) /\ path # <<>> /\ path[1] = 0
  BY DEF Asks
<1>2. p # <<>>
  BY <1>1, RootOnly
<1>3. p \in Seq(Nat) \ {<<>>}
  BY <1>1, <1>2, SoughtStep
<1>4. PICK f \in Recorded(p) : Alike(e, f)
  BY DEF Asks, AskedFor
<1>5. p \in Paths
  BY <1>3, <1>4 DEF OneEntry
<1>6. /\ t \in Seq(Nat) /\ Len(t) = Len(path) - 1 /\ Len(path) \in Nat /\ Len(path) > 0
      /\ \A i \in 1 .. Len(t) : t[i] = path[i + 1]
  <2>1. Len(path) \in Nat /\ Len(path) > 0
    BY <1>1
  <2> QED  BY <1>1, <2>1, HeadTailProperties
<1> HIDE DEF t
<1>7. /\ Len(p) = b + Len(t) /\ b \in Nat /\ Len(t) \in Nat
      /\ \A i \in 1 .. b + Len(t) : p[i] = IF i <= b THEN base[i] ELSE t[i - b]
  <2>1. b \in Nat /\ Len(t) \in Nat
    BY <1>6
  <2>2. p = base \o t
    BY DEF Sought, t
  <2>3. /\ Len(base \o t) = Len(base) + Len(t)
        /\ \A i \in 1 .. Len(base) + Len(t) :
             (base \o t)[i] = IF i <= Len(base) THEN base[i] ELSE t[i - Len(base)]
    BY ONLY base \in Seq(Nat), <1>6, ConcatProperties
  <2> DEFINE c == base \o t
  <2>4. p = c /\ Len(c) = b + Len(t) /\ \A i \in 1 .. b + Len(t) : c[i] = IF i <= b THEN base[i] ELSE t[i - b]
    BY <2>2, <2>3
  <2> HIDE DEF p, b, c
  <2> QED  BY ONLY <2>1, <2>4
<1> HIDE DEF p, b
<1>8. IsPrefix(base, p)
  <2>1. b <= Len(p) /\ \A i \in 1 .. b : base[i] = p[i]
    BY <1>7
  <2> QED  BY <1>3, <2>1, PrefixElements DEF b
<1>9. r \in Seq(Nat) /\ Len(r) = Len(t) /\ \A i \in 1 .. Len(t) : r[i] = t[i]
  <2> DEFINE k == b + 1
             m == Len(p)
  <2>1. /\ r \in Seq(Nat) /\ Len(r) = m - k + 1
        /\ \A i \in 1 .. Len(r) : r[i] = p[(b + 1) + i - 1]
    <3>1. k \in Nat /\ k >= 1 /\ m \in Nat /\ k <= m + 1 /\ p \in Seq(Nat)
      BY ONLY <1>3, <1>7
    <3> HIDE DEF k
    <3>2. r = SubSeq(p, k, m)
      BY DEF k
    <3>3. SubSeq(p, k, m) \in Seq(Nat) /\ Len(SubSeq(p, k, m)) = m - k + 1
      BY ONLY <3>1
    <3>4. \A i \in 1 .. m - k + 1 : SubSeq(p, k, m)[i] = p[k + i - 1]
      BY ONLY <3>1
    <3> QED  BY ONLY <3>2, <3>3, <3>4 DEF k
  <2> HIDE DEF r
  <2>2. Len(r) = Len(t)
    BY <1>7, <2>1
  <2>3. ASSUME NEW i \in 1 .. Len(t)
        PROVE  r[i] = t[i]
    <3>1. (b + 1) + i - 1 = b + i /\ b + i \in 1 .. b + Len(t) /\ ~(b + i <= b) /\ (b + i) - b = i
      BY <1>7
    <3> QED  BY <1>7, <2>1, <2>2, <3>1
  <2> QED  BY <2>1, <2>2, <2>3
<1>10. r = t
  BY <1>6, <1>9, SeqEqual
<1> HIDE DEF r
<1>11. Target \o t = path
  <2> DEFINE d == Target \o t
  <2>1. /\ d \in Seq(Nat) /\ Len(d) = Len(t) + 1 /\ d[1] = 0
        /\ \A i \in 1 .. Len(t) : d[i + 1] = t[i]
    BY <1>6 DEF Target
  <2> HIDE DEF d
  <2>2. Len(d) = Len(path)
    BY <1>6, <2>1
  <2>3. ASSUME NEW i \in 1 .. Len(path)
        PROVE  d[i] = path[i]
    <3>1. CASE i = 1
      BY <1>1, <2>1, <3>1
    <3>2. CASE i # 1
      <4>1. i - 1 \in 1 .. Len(t) /\ (i - 1) + 1 = i
        BY <1>6, <3>2
      <4> QED  BY <1>6, <2>1, <4>1
    <3> QED  BY <3>1, <3>2
  <2> QED  BY <1>1, <2>1, <2>2, <2>3, SeqEqual DEF d
<1>12. <<path, f>> \in Wanted
  <2>1. p \in {q \in Paths \ {<<>>} : IsPrefix(base, q)}
    BY <1>3, <1>5, <1>8
  <2>2. <<path, f>> = <<Target \o SubSeq(p, Len(base) + 1, Len(p)), f>>
    BY <1>10, <1>11 DEF r, b
  <2>3. <<path, f>> \in {<<Target \o SubSeq(p, Len(base) + 1, Len(p)), g>> : g \in Recorded(p)}
    BY <1>4, <2>2
  <2> QED  BY <2>1, <2>3 DEF Wanted
<1>13. Needs(f) = Needs(e)
  BY <1>4 DEF Alike, Needs
<1> DEFINE w == <<path, f>>
<1>14. w[1] = path /\ w[2] = f /\ w \in Wanted
  BY <1>12
<1> HIDE DEF w
<1> QED  BY <1>13, <1>14 DEF Lacking

(* What is known of the path of the next entry.                            *)
LEMMA AtDest ==
  ASSUME RestoreInv, ReportInv, Contained, AtMember
  PROVE  /\ Asked(frames) /\ Level(frames) /\ Apart(frames)
         /\ Asks(Dest, Member) /\ Dest \in Seq(Nat) /\ Dest # <<>> /\ IsPrefix(Dest, Dest)
         /\ \A p \in DOMAIN disk :
              /\ p \in Seq(Nat)
              /\ p \notin DOMAIN before => ~IsPrefix(Dest, p)
              /\ disk[p].mode # "open" /\ p \notin InTheWay => ~IsPrefix(p, Dest) /\ ~IsPrefix(Dest, p)
         /\ \A d \in dirMeta : ~IsPrefix(Dest, d.path)
<1>1. Asked(frames) /\ Level(frames) /\ Apart(frames)
  BY DEF ReportInv, Contained, AtMember
<1>2. Asks(Dest, Member) /\ Dest \in Seq(Nat) /\ Dest # <<>>
  BY <1>1, DropKeeps DEF Asks
<1>3. IsPrefix(Dest, Dest)
  BY <1>2, PrefixElements
<1> DEFINE t == <<Dest, Member>>
<1>4. t \in Todo(frames) /\ t[1] = Dest
  BY TodoDropped
<1> HIDE DEF t
<1>5. DOMAIN disk \subseteq Seq(Nat) /\ Untried(frames, disk) /\ Reachable(dirMeta, frames, disk)
  BY DEF Contained, AtMember
<1>6. \A p \in DOMAIN disk :
        /\ p \notin DOMAIN before => ~IsPrefix(Dest, p)
        /\ disk[p].mode # "open" /\ p \notin InTheWay => ~IsPrefix(p, Dest) /\ ~IsPrefix(Dest, p)
  BY <1>4, <1>5 DEF Untried
<1>7. \A d \in dirMeta : ~IsPrefix(Dest, d.path)
  BY <1>4, <1>5 DEF Reachable
<1> QED  BY <1>1, <1>2, <1>3, <1>5, <1>6, <1>7

(* Nothing but this makes the next entry fail for sure.                    *)
LEMMA EntryDamaged ==
  ASSUME source \in Sources, RestoreInv, OneEntry, ReportInv, Contained, AtMember,
         Exists(Dest) \/ ~Open(Dest) \/ ~(Needs(Member) \subseteq chunks)
  PROVE  Damaged(Dest)
<1>1. /\ Asks(Dest, Member) /\ Dest \in Seq(Nat) /\ Dest # <<>> /\ IsPrefix(Dest, Dest)
      /\ \A p \in DOMAIN disk :
           /\ p \in Seq(Nat)
           /\ p \notin DOMAIN before => ~IsPrefix(Dest, p)
           /\ disk[p].mode # "open" /\ p \notin InTheWay => ~IsPrefix(p, Dest)
  BY AtDest
<1>2. CASE Exists(Dest)
  <2>1. Dest \in DOMAIN before
    BY <1>1, <1>2 DEF Exists
  <2>2. Dest # Target => Dest \in InTheWay
    BY <1>1, <2>1 DEF InTheWay
  <2> QED  BY <1>1, <2>1, <2>2 DEF Damaged, Below
<1>3. CASE ~Open(Dest)
  <2>1. PICK p \in DOMAIN disk : IsStrictPrefix(p, Dest) /\ disk[p].mode # "open"
    BY <1>3 DEF Open
  <2>2. IsPrefix(p, Dest) /\ p \in InTheWay
    BY <1>1, <2>1 DEF IsStrictPrefix
  <2>3. Dest = Target => p = <<>>
    <3> SUFFICES ASSUME Dest = Target PROVE p = <<>>
      OBVIOUS
    <3>1. Target = Append(<<>>, 0) /\ <<>> \in Seq(Nat)
      BY DEF Target
    <3>2. IsPrefix(p, <<>>)
      BY <1>1, <2>1, <3>1, PrefixAppend
    <3>3. Len(p) <= Len(<<>>)
      BY <1>1, <3>1, <3>2, PrefixElements
    <3> QED  BY <1>1, <3>3
  <2> QED  BY <2>2, <2>3 DEF Damaged, Below
<1>4. CASE ~(Needs(Member) \subseteq chunks)
  <2>1. base \in Seq(Nat)
    BY DEF RestoreInv, RestoreTypeOK
  <2>2. CASE Whole /\ Dest = Target
    <3>1. Alike(Member, DirEntry(0, "open", root))
      BY <1>1, <2>2 DEF Asks, AskedFor
    <3>2. Member.type = "dir" /\ Member.content = <<root>>
      BY <3>1 DEF Alike, DirEntry, Entry
    <3>3. Needs(Member) = {root}
      BY <3>2 DEF Needs
    <3> QED  BY <1>4, <2>2, <3>3 DEF Damaged
  <2>3. CASE ~(Whole /\ Dest = Target)
    <3>1. Dest \in Lacking
      BY <1>1, <1>4, <2>1, <2>3, AskedLacks
    <3> QED  BY <3>1 DEF Damaged
  <2> QED  BY <2>2, <2>3
<1> QED  BY <1>2, <1>3, <1>4

(* With the entry dropped, what it has changed concerns nothing that is    *)
(* still to be done.                                                       *)
LEMMA DropContained ==
  ASSUME RestoreInv, ReportInv, Contained, AtMember, NEW fs, Alters(disk, fs, Dest),
         NEW due, due \subseteq dirMeta \cup {[path |-> Dest, mode |-> Member.mode]}
  PROVE  /\ Untried(Dropped, fs) /\ Reachable(due, Dropped, fs) /\ DOMAIN fs \subseteq Seq(Nat)
         /\ \A d \in due : d.path = Dest \/ d \in dirMeta
<1>1. /\ Asked(frames) /\ Level(frames) /\ Apart(frames)
      /\ Dest \in Seq(Nat) /\ IsPrefix(Dest, Dest)
      /\ \A p \in DOMAIN disk :
           /\ p \in Seq(Nat)
           /\ p \notin DOMAIN before => ~IsPrefix(Dest, p)
           /\ disk[p].mode # "open" /\ p \notin InTheWay => ~IsPrefix(p, Dest) /\ ~IsPrefix(Dest, p)
      /\ \A d \in dirMeta : ~IsPrefix(Dest, d.path)
  BY AtDest
<1>2. \A t \in Todo(Dropped) : t \in Todo(frames) /\ ~IsPrefix(t[1], Dest) /\ ~IsPrefix(Dest, t[1])
  BY <1>1, DropApart
<1>3. Untried(frames, disk) /\ Reachable(dirMeta, frames, disk)
  BY DEF Contained, AtMember
<1>4. \A p \in DOMAIN fs : p = Dest \/ (p \in DOMAIN disk /\ fs[p].mode = disk[p].mode)
  BY DEF Alters
<1>5. Untried(Dropped, fs)
  BY <1>2, <1>3, <1>4 DEF Untried
<1> DEFINE new == [path |-> Dest, mode |-> Member.mode]
<1>6. new.path = Dest
  OBVIOUS
<1> HIDE DEF new
<1>7. \A d \in due : d \in dirMeta \/ d = new
  BY DEF new
<1>8. ASSUME NEW d \in due
      PROVE  /\ \A t \in Todo(Dropped) : ~IsPrefix(t[1], d.path)
             /\ \A p \in DOMAIN fs :
                  fs[p].mode # "open" /\ IsStrictPrefix(p, d.path) => p \in InTheWay
  <2>1. CASE d \in dirMeta
    BY <1>1, <1>2, <1>3, <1>4, <2>1 DEF Reachable, IsStrictPrefix
  <2>2. CASE d = new
    BY <1>1, <1>2, <1>4, <1>6, <2>2 DEF IsStrictPrefix
  <2> QED  BY <1>7, <2>1, <2>2
<1> QED  BY <1>1, <1>4, <1>5, <1>6, <1>7, <1>8 DEF Reachable

(* With the request also what it meets stays as it is.                     *)
LEMMA DamagePrime ==
  ASSUME SameRequest
  PROVE  /\ InTheWay' = InTheWay /\ Lacking' = Lacking
         /\ (Whole \/ Navigable)' <=> (Whole \/ Navigable)
         /\ \A path : Damaged(path)' <=> Damaged(path)
         /\ \A frs, fs : Untried(frs, fs)' <=> Untried(frs, fs)
         /\ \A due, frs, fs : Reachable(due, frs, fs)' <=> Reachable(due, frs, fs)
<1>1. base' = base /\ before' = before /\ root' = root /\ source' = source /\ chunks' = chunks
  BY DEF SameRequest, scanVars
<1>2. InTheWay' = InTheWay
  BY <1>1 DEF InTheWay
<1>3. Lacking' = Lacking
  BY AskPrime, <1>1 DEF Lacking
<1>4. (Whole \/ Navigable)' <=> (Whole \/ Navigable)
  BY <1>1 DEF Whole, Navigable, Recorded
<1>5. \A path : Damaged(path)' <=> Damaged(path)
  BY <1>1, <1>2, <1>3 DEF Damaged, Below, Whole
<1>6. \A frs, fs : Untried(frs, fs)' <=> Untried(frs, fs)
  BY <1>1, <1>2 DEF Untried
<1>7. \A due, frs, fs : Reachable(due, frs, fs)' <=> Reachable(due, frs, fs)
  BY <1>2 DEF Reachable
<1> QED  BY <1>2, <1>3, <1>4, <1>5, <1>6, <1>7

(* One more path fails: it is excused, or a call has raised.               *)
LEMMA ExcessCounted ==
  ASSUME SameRequest, IsFiniteSet(Excess), Cardinality(Excess) <= errors, errors \in Nat,
         NEW d, failed' \subseteq failed \cup {d},
         \/ errors' = errors /\ (failed' = failed \/ d \in Lacking \/ Below(d, InTheWay))
         \/ errors' = errors + 1
  PROVE  IsFiniteSet(Excess)' /\ (Cardinality(Excess) <= errors)'
<1>1. InTheWay' = InTheWay /\ Lacking' = Lacking
  BY DamagePrime
<1>2. Excess' = {x \in failed' \ Lacking : ~Below(x, InTheWay)}
  BY <1>1 DEF Excess, Below
<1>3. Excess' \subseteq Excess \cup {d}
  BY <1>2 DEF Excess
<1>4. /\ IsFiniteSet(Excess \cup {d}) /\ Cardinality(Excess \cup {d}) <= Cardinality(Excess) + 1
      /\ Cardinality(Excess) \in Nat /\ Cardinality(Excess \cup {d}) \in Nat
  BY FS_AddElement, FS_CardinalityType
<1>5. IsFiniteSet(Excess') /\ Cardinality(Excess') <= Cardinality(Excess \cup {d}) /\ Cardinality(Excess') \in Nat
  BY <1>3, <1>4, FS_Subset, FS_CardinalityType
<1>6. CASE errors' = errors /\ (failed' = failed \/ d \in Lacking \/ Below(d, InTheWay))
  <2>1. Excess' \subseteq Excess
    BY <1>2, <1>6 DEF Excess
  <2>2. Cardinality(Excess') <= Cardinality(Excess)
    BY <2>1, FS_Subset
  <2> QED  BY <1>4, <1>5, <1>6, <2>2
<1>7. CASE errors' = errors + 1
  BY <1>4, <1>5, <1>7
<1> QED  BY <1>6, <1>7

-----------------------------------------------------------------------------
(* The entry fails, and the restore goes on unless it is the target.       *)
LEMMA FailContained ==
  ASSUME source \in Sources, RestoreInv, OneEntry, ReportInv, Contained, SameRequest, AtMember,
         FailEntry, warned' = warned, Alters(disk, disk', Dest),
         dirMeta' \subseteq dirMeta \cup {[path |-> Dest, mode |-> Member.mode]},
         \/ errors' = errors /\ Damaged(Dest)
         \/ errors' = errors + 1
  PROVE  Contained'
<1>1. errors \in Nat
  BY RestoreAssumption DEF RestoreInv, RestoreTypeOK
<1>2. /\ Untried(Dropped, disk') /\ Reachable(dirMeta', Dropped, disk') /\ DOMAIN disk' \subseteq Seq(Nat)
      /\ Asked(frames) /\ Level(frames) /\ Apart(frames)
  BY DropContained, AtDest
<1>3. Level(Dropped) /\ Apart(Dropped)
  BY <1>2, DropApart
<1>4. warned' # {} => InTheWay' # {}
  BY DamagePrime DEF Contained
<1>5. CASE Dest = Target
  <2>1. restore' = "raised" /\ frames' = frames /\ failed' = failed
    BY <1>5 DEF FailEntry
  <2>2. IsFiniteSet(Excess)' /\ (Cardinality(Excess) <= errors)'
    BY <1>1, <2>1, ExcessCounted DEF Contained
  <2>3. errors' > 0 \/ Damaged(Target)'
    BY <1>1, <1>5, DamagePrime
  <2> QED  BY <1>2, <1>4, <2>1, <2>2, <2>3 DEF Contained
<1>6. CASE Dest # Target
  <2>1. restore' = "walk" /\ frames' = Dropped /\ failed' = failed \cup {Dest}
    BY <1>6 DEF FailEntry
  <2>2. Damaged(Dest) => Dest \in Lacking \/ Below(Dest, InTheWay)
    BY <1>6 DEF Damaged
  <2>3. IsFiniteSet(Excess)' /\ (Cardinality(Excess) <= errors)'
    BY <1>1, <2>1, <2>2, ExcessCounted DEF Contained
  <2>4. Untried(frames, disk)' /\ Reachable(dirMeta, frames, disk)'
    BY <1>2, <2>1, DamagePrime DEF Untried, Reachable
  <2> QED  BY <1>2, <1>3, <1>4, <2>1, <2>3, <2>4 DEF Contained
<1> QED  BY <1>5, <1>6

(* A step that fails nothing keeps the count.                              *)
LEMMA GoesOn ==
  ASSUME RestoreInv, Contained, SameRequest, failed' = failed, errors' = errors, warned' = warned,
         restore' \in {"walk", "file"} \/ (restore' \in {"dirs", "done"} /\ Todo(frames') = {}),
         Level(frames'), Apart(frames'), DOMAIN disk' \subseteq Seq(Nat),
         Untried(frames', disk'), Reachable(dirMeta', frames', disk')
  PROVE  Contained'
<1>1. errors \in Nat
  BY RestoreAssumption DEF RestoreInv, RestoreTypeOK
<1>2. IsFiniteSet(Excess)' /\ (Cardinality(Excess) <= errors)'
  BY <1>1, ExcessCounted DEF Contained
<1>3. Untried(frames, disk)' /\ Reachable(dirMeta, frames, disk)'
  BY DamagePrime DEF Untried, Reachable
<1>4. warned' # {} => InTheWay' # {}
  BY DamagePrime DEF Contained
<1> QED  BY <1>2, <1>3, <1>4 DEF Contained

(* An entry refused had something in its place.                            *)
LEMMA RefuseContained ==
  ASSUME source \in Sources, RestoreInv, OneEntry, ReportInv, Contained,
         RefuseEntry \/ EntryRaises \/ FileRaises
  PROVE  Contained'
<1>1. /\ AtMember /\ FailEntry /\ SameRequest /\ disk' = disk /\ dirMeta' = dirMeta
      /\ warned' = warned
  BY DEF RefuseEntry, EntryRaises, FileRaises, AtEntry, AtMember, RestoreInv, TempSound, SameRequest
<1>2. CASE RefuseEntry
  <2>1. Exists(Dest) /\ errors' = errors
    BY <1>2 DEF RefuseEntry, Refused
  <2>2. Damaged(Dest)
    BY <1>1, <2>1, EntryDamaged
  <2> QED  BY <1>1, <2>1, <2>2, SameAlters, FailContained
<1>3. CASE EntryRaises \/ FileRaises
  <2>1. errors' = errors + 1
    BY <1>3 DEF EntryRaises, FileRaises, Raising
  <2> QED  BY <1>1, <2>1, SameAlters, FailContained
<1> QED  BY <1>2, <1>3

(* A directory whose node is left has a closed one above it, or a call has *)
(* raised.                                                                 *)
LEMMA StatContained ==
  ASSUME source \in Sources, RestoreInv, ReportInv, Contained, StatRaises
  PROVE  Contained'
<1>1. /\ AtMember /\ SameRequest /\ restore = "walk" /\ FailNode
      /\ disk' = disk /\ dirMeta' = dirMeta /\ warned' = warned
      /\ (~Open(Dest) /\ errors' = errors) \/ errors' = errors + 1
  BY DEF StatRaises, AtEntry, AtMember, Raising, SameRequest
<1>2. errors \in Nat
  BY RestoreAssumption DEF RestoreInv, RestoreTypeOK
<1>3. /\ IsSeq(frames) /\ Len(frames) > 0 /\ Level(frames) /\ Apart(frames)
      /\ DOMAIN disk \subseteq Seq(Nat) /\ Untried(frames, disk) /\ Reachable(dirMeta, frames, disk)
      /\ IsFiniteSet(Excess) /\ Cardinality(Excess) <= errors
  BY <1>1 DEF RestoreInv, RestoreTypeOK, FramesFit, Contained
<1>4. /\ Member.name \in Nat /\ Inner.path \in Seq(Nat) /\ Dest = Append(Inner.path, Member.name)
  BY <1>1, MemberFacts DEF NodeFits, Dest
<1>5. warned' # {} => InTheWay' # {}
  BY <1>1, DamagePrime DEF Contained
<1>6. ASSUME errors' = errors
      PROVE  \E p \in InTheWay : p \in Seq(Nat) /\ IsPrefix(p, Inner.path)
  <2>1. PICK p \in DOMAIN disk : IsStrictPrefix(p, Dest) /\ disk[p].mode # "open"
    BY <1>1, <1>2, <1>6 DEF Open
  <2>2. p \in InTheWay /\ p \in Seq(Nat)
    BY <1>1, <2>1, AtDest DEF IsStrictPrefix
  <2> HIDE DEF Dest
  <2>3. IsPrefix(p, Inner.path)
    BY <1>4, <2>1, <2>2, PrefixAppend
  <2> QED  BY <2>2, <2>3
<1>7. CASE Inner.path \in {<<>>, Target}
  <2>1. restore' = "raised" /\ frames' = frames /\ failed' = failed
    BY <1>1, <1>7 DEF FailNode
  <2>2. IsFiniteSet(Excess)' /\ (Cardinality(Excess) <= errors)'
    BY <1>1, <1>2, <1>3, <2>1, ExcessCounted
  <2>3. ASSUME errors' = errors PROVE Damaged(Target)
    <3>1. PICK p \in InTheWay : p \in Seq(Nat) /\ IsPrefix(p, Inner.path)
      BY <1>6, <2>3
    <3>2. p = <<>> \/ p = Target
      <4>1. Target = Append(<<>>, 0) /\ <<>> \in Seq(Nat)
        BY DEF Target
      <4>2. IsPrefix(p, Target) => p = Target \/ IsPrefix(p, <<>>)
        BY <3>1, <4>1, PrefixAppend
      <4>3. IsPrefix(p, <<>>) => p = <<>>
        <5>1. IsPrefix(p, <<>>) => Len(p) <= Len(<<>>)
          BY <3>1, <4>1, PrefixElements
        <5> QED  BY <3>1, <5>1
      <4> QED  BY <1>7, <3>1, <4>2, <4>3
    <3>3. p \in DOMAIN before
      BY DEF InTheWay
    <3> QED  BY <3>2, <3>3 DEF Damaged
  <2>4. errors' > 0 \/ Damaged(Target)'
    BY <1>1, <1>2, <2>3, DamagePrime
  <2> QED  BY <1>1, <1>3, <1>5, <2>1, <2>2, <2>4 DEF Contained
<1>8. CASE Inner.path \notin {<<>>, Target}
  <2>1. restore' = "walk" /\ frames' = Front(frames) /\ failed' = failed \cup {Inner.path}
    BY <1>1, <1>8 DEF FailNode
  <2>2. errors' = errors => Below(Inner.path, InTheWay)
    BY <1>6 DEF Below
  <2>3. IsFiniteSet(Excess)' /\ (Cardinality(Excess) <= errors)'
    BY <1>1, <1>2, <1>3, <2>1, <2>2, ExcessCounted
  <2>4. /\ Len(frames') = Len(frames) - 1 /\ Len(frames) \in Nat
        /\ \A i \in 1 .. Len(frames) - 1 : frames'[i] = frames[i]
    BY <1>3, <2>1, FrontFacts, SeqLength
  <2>5. Todo(frames') \subseteq Todo(frames)
    BY <1>3, <2>1, TodoPopped
  <2>6. Level(frames')
    <3> SUFFICES ASSUME NEW i \in 1 .. Len(frames) - 1
                 PROVE  Len(frames'[i].path) = i - 1
      BY <2>4 DEF Level
    <3>1. i \in 1 .. Len(frames)
      BY <2>4
    <3> QED  BY <1>3, <2>4, <3>1 DEF Level
  <2>7. Apart(frames') /\ Untried(frames', disk') /\ Reachable(dirMeta', frames', disk')
    BY <1>1, <1>3, <2>5 DEF Apart, Untried, Reachable
  <2>8. Untried(frames, disk)' /\ Reachable(dirMeta, frames, disk)'
    BY <1>1, <2>7, DamagePrime DEF Untried, Reachable
  <2> QED  BY <1>1, <1>3, <1>5, <2>1, <2>3, <2>6, <2>7, <2>8 DEF Contained
<1> QED  BY <1>7, <1>8

(* What a directory lists joins what is to be restored, below a directory  *)
(* that was there and may be entered, or that was made just now.           *)
LEMMA PushContained ==
  ASSUME source \in Sources, RestoreInv, OneEntry, ReportInv, Contained, SameRequest, AtMember,
         Member.type = "dir", Alters(disk, disk', Dest),
         disk' = disk \/ (Dest \in DOMAIN disk' /\ disk'[Dest].mode = "open"),
         dirMeta' \subseteq dirMeta \cup {[path |-> Dest, mode |-> Member.mode]},
         NEW fr, fr.path = Dest, fr.todo = Entries(Subnode(Member)),
         frames' = Append(Dropped, fr), restore' = "walk",
         failed' = failed, errors' = errors, warned' = warned
  PROVE  Contained'
<1>1. /\ Asked(frames) /\ Level(frames) /\ Apart(frames)
      /\ Dest \in Seq(Nat) /\ IsPrefix(Dest, Dest)
      /\ \A p \in DOMAIN disk :
           /\ p \in Seq(Nat)
           /\ p \notin DOMAIN before => ~IsPrefix(Dest, p)
           /\ disk[p].mode # "open" /\ p \notin InTheWay => ~IsPrefix(p, Dest) /\ ~IsPrefix(Dest, p)
      /\ \A d \in dirMeta : ~IsPrefix(Dest, d.path)
  BY AtDest
<1>2. /\ Level(frames') /\ Apart(frames')
      /\ \A t \in Todo(frames') : t \in Todo(Dropped) \/ \E x \in Nat : t[1] = Append(Dest, x)
  BY <1>1, PushApart
<1>3. /\ Untried(Dropped, disk') /\ Reachable(dirMeta', Dropped, disk') /\ DOMAIN disk' \subseteq Seq(Nat)
      /\ \A d \in dirMeta' : d.path = Dest \/ d \in dirMeta
  BY DropContained
<1>4. \A p \in DOMAIN disk' :
        \/ p = Dest /\ (disk'[p].mode = "open" \/ (p \in DOMAIN disk /\ disk'[p].mode = disk[p].mode))
        \/ p # Dest /\ p \in DOMAIN disk /\ disk'[p].mode = disk[p].mode
  BY DEF Alters
<1>5. ASSUME NEW x \in Nat, NEW p \in DOMAIN disk'
      PROVE  /\ p \notin DOMAIN before => ~IsPrefix(Append(Dest, x), p)
             /\ disk'[p].mode # "open" /\ p \notin InTheWay =>
                  ~IsPrefix(p, Append(Dest, x)) /\ ~IsPrefix(Append(Dest, x), p)
  <2> DEFINE u == Append(Dest, x)
  <2>1. /\ p \in Seq(Nat) /\ ~IsPrefix(u, Dest) /\ IsPrefix(Dest, u)
        /\ IsPrefix(u, p) => IsPrefix(Dest, p)
        /\ IsPrefix(p, u) => p = u \/ IsPrefix(p, Dest)
    BY <1>1, <1>3, PrefixSplit, PrefixAppend
  <2> HIDE DEF u
  <2>2. p \notin DOMAIN before => ~IsPrefix(u, p)
    BY <1>1, <1>4, <2>1
  <2>3. disk'[p].mode # "open" /\ p \notin InTheWay => ~IsPrefix(p, Dest) /\ ~IsPrefix(Dest, p)
    BY <1>1, <1>4
  <2> QED  BY <2>1, <2>2, <2>3 DEF u
<1>6. Untried(frames', disk')
  BY <1>2, <1>3, <1>5 DEF Untried
<1>7. ASSUME NEW x \in Nat, NEW d \in dirMeta'
      PROVE  ~IsPrefix(Append(Dest, x), d.path)
  <2>1. CASE d.path = Dest
    BY <1>1, <2>1, PrefixSplit
  <2>2. CASE d.path # Dest
    <3>1. d \in dirMeta /\ ~IsPrefix(Dest, d.path)
      BY <1>1, <1>3, <2>2
    <3>2. d.path \in Seq(Nat)
      BY <1>1, <3>1 DEF RestoreInv, DueFits
    <3> QED  BY <1>1, <3>1, <3>2, PrefixSplit
  <2> QED  BY <2>1, <2>2
<1>8. Reachable(dirMeta', frames', disk')
  BY <1>2, <1>3, <1>7 DEF Reachable
<1> QED  BY <1>2, <1>3, <1>6, <1>8, GoesOn

(* A directory is made or was there, or fails.                             *)
LEMMA DirContained ==
  ASSUME source \in Sources, RestoreInv, OneEntry, ReportInv, Contained, RestoreDir
  PROVE  Contained'
<1>1. /\ AtMember /\ Member.type = "dir" /\ restore = "walk" /\ SameRequest
      /\ warned' = warned /\ errors' = errors
  BY DEF RestoreDir, Restoring, AtEntry, AtMember, SameRequest
<1>2. /\ Dest \in Seq(Nat) /\ IsDir(Front(Dest)) /\ DiskSound(disk) /\ EntrySound(Member)
  BY <1>1, MemberFacts DEF RestoreInv
<1> DEFINE due   == [path |-> Dest, mode |-> Member.mode]
           below == [path |-> Dest, todo |-> Entries(Subnode(Member))]
<1>3. CASE Open(Dest) /\ (IsDir(Dest) \/ ~Exists(Dest))
  <2>1. /\ disk' = IF IsDir(Dest) THEN disk ELSE Made(Dest, Item("dir", "open", <<>>, TRUE))
        /\ dirMeta' = IF Whole /\ Dest = Target THEN dirMeta ELSE dirMeta \cup {due}
        /\ IF Subnode(Member) \in chunks
           THEN frames' = Append(Dropped, below) /\ restore' = restore /\ failed' = failed
           ELSE FailEntry
    BY <1>3 DEF RestoreDir
  <2>2. /\ Alters(disk, disk', Dest)
        /\ disk' = disk \/ (Dest \in DOMAIN disk' /\ disk'[Dest].mode = "open")
    <3>1. CASE IsDir(Dest)
      <4>1. disk' = disk
        BY <2>1, <3>1
      <4> QED  BY <4>1, SameAlters
    <3>2. CASE ~IsDir(Dest)
      <4> DEFINE item == Item("dir", "open", <<>>, TRUE)
      <4>1. item.mode = "open"
        BY DEF Item
      <4>2. disk' = Made(Dest, item)
        BY <2>1, <3>2
      <4> HIDE DEF item
      <4> QED  BY <1>2, <4>1, <4>2, MadeAlters
    <3> QED  BY <3>1, <3>2
  <2>3. dirMeta' \subseteq dirMeta \cup {due}
    BY <2>1
  <2>4. CASE Subnode(Member) \notin chunks
    <3>1. FailEntry
      BY <2>1, <2>4
    <3>2. ~(Needs(Member) \subseteq chunks)
      BY <1>1, <1>2, <2>4 DEF EntrySound
    <3>3. Damaged(Dest)
      BY <1>1, <3>2, EntryDamaged
    <3> QED  BY <1>1, <2>2, <2>3, <3>1, <3>3, FailContained
  <2>5. CASE Subnode(Member) \in chunks
    <3>1. frames' = Append(Dropped, below) /\ restore' = "walk" /\ failed' = failed
      BY <1>1, <2>1, <2>5
    <3>2. below.path = Dest /\ below.todo = Entries(Subnode(Member))
      OBVIOUS
    <3> HIDE DEF below
    <3> QED  BY <1>1, <2>2, <2>3, <3>1, <3>2, PushContained
  <2> QED  BY <2>4, <2>5
<1>4. CASE ~(Open(Dest) /\ (IsDir(Dest) \/ ~Exists(Dest)))
  <2>1. FailEntry /\ disk' = disk /\ dirMeta' = dirMeta
    BY <1>4 DEF RestoreDir
  <2>2. Damaged(Dest)
    BY <1>1, <1>4, EntryDamaged
  <2> QED  BY <1>1, <2>1, <2>2, SameAlters, FailContained
<1> QED  BY <1>3, <1>4

(* A file or a link is there.                                              *)
LEMMA LeafContained ==
  ASSUME RestoreInv, ReportInv, Contained, SameRequest, AtMember,
         restore' = "walk", frames' = Dropped, NEW item, disk' = Made(Dest, item),
         dirMeta' = dirMeta, failed' = failed, errors' = errors, warned' = warned
  PROVE  Contained'
<1>1. Alters(disk, disk', Dest)
  BY MemberFacts, MadeAlters DEF RestoreInv
<1>2. /\ Untried(Dropped, disk') /\ Reachable(dirMeta', Dropped, disk') /\ DOMAIN disk' \subseteq Seq(Nat)
  BY <1>1, DropContained
<1>3. Level(Dropped) /\ Apart(Dropped)
  BY AtDest, DropApart
<1> QED  BY <1>2, <1>3, GoesOn

(* A link is made, or fails.                                               *)
LEMMA LinkContained ==
  ASSUME source \in Sources, RestoreInv, OneEntry, ReportInv, Contained, RestoreLink
  PROVE  Contained'
<1>1. /\ AtMember /\ SameRequest /\ dirMeta' = dirMeta /\ warned' = warned /\ errors' = errors
      /\ restore = "walk"
  BY DEF RestoreLink, Restoring, AtEntry, AtMember, SameRequest
<1>2. CASE Open(Dest) /\ ~IsDir(Dest) /\ ~(Exists(Dest) /\ Dest = Target)
  <2> DEFINE item == Item("link", "open", <<Member.content[1][2]>>, FALSE)
  <2>1. disk' = Made(Dest, item) /\ frames' = Dropped /\ restore' = "walk" /\ failed' = failed
    BY <1>1, <1>2 DEF RestoreLink
  <2> HIDE DEF item
  <2> QED  BY <1>1, <2>1, LeafContained
<1>3. CASE ~(Open(Dest) /\ ~IsDir(Dest) /\ ~(Exists(Dest) /\ Dest = Target))
  <2>1. FailEntry /\ disk' = disk
    BY <1>3 DEF RestoreLink
  <2>2. Exists(Dest) \/ ~Open(Dest)
    BY <1>3 DEF IsDir
  <2>3. Damaged(Dest)
    BY <1>1, <2>2, EntryDamaged
  <2> QED  BY <1>1, <2>1, <2>3, SameAlters, FailContained
<1> QED  BY <1>2, <1>3

(* A file is opened, or fails.                                             *)
LEMMA OpenContained ==
  ASSUME source \in Sources, RestoreInv, OneEntry, ReportInv, Contained, OpenTemp
  PROVE  Contained'
<1>1. /\ AtMember /\ SameRequest /\ dirMeta' = dirMeta /\ warned' = warned /\ errors' = errors
      /\ restore = "walk"
  BY DEF OpenTemp, Restoring, AtEntry, AtMember, SameRequest
<1>2. CASE Open(Dest)
  <2>1. restore' = "file" /\ disk' = Touched(Dest) /\ frames' = frames /\ failed' = failed
    BY <1>2 DEF OpenTemp
  <2>2. DOMAIN disk' = DOMAIN disk /\ \A p \in DOMAIN disk : disk'[p].mode = disk[p].mode
    <3>1. IsDir(Front(Dest)) /\ DiskSound(disk)
      BY <1>1, MemberFacts DEF RestoreInv
    <3>2. Alters(disk, disk', <<>>) /\ Alters(disk, disk', <<0>>) /\ DOMAIN disk' = DOMAIN disk
      BY <2>1, <3>1, TouchedAlters
    <3>3. <<>> # <<0>>
      OBVIOUS
    <3> QED  BY <3>2, <3>3 DEF Alters
  <2>3. /\ Untried(frames', disk') /\ Reachable(dirMeta', frames', disk')
        /\ Level(frames') /\ Apart(frames') /\ DOMAIN disk' \subseteq Seq(Nat)
    BY <1>1, <2>1, <2>2 DEF Contained, Untried, Reachable
  <2> QED  BY <1>1, <2>1, <2>3, GoesOn
<1>3. CASE ~Open(Dest)
  <2>1. FailEntry /\ disk' = disk
    BY <1>3 DEF OpenTemp
  <2>2. Damaged(Dest)
    BY <1>1, <1>3, EntryDamaged
  <2> QED  BY <1>1, <2>1, <2>2, SameAlters, FailContained
<1> QED  BY <1>2, <1>3

(* A chunk of the file is written, or was lost.                            *)
LEMMA WriteContained ==
  ASSUME source \in Sources, RestoreInv, OneEntry, ReportInv, Contained, WriteChunk
  PROVE  Contained'
<1>1. /\ AtMember /\ SameRequest /\ dirMeta' = dirMeta /\ warned' = warned /\ errors' = errors
      /\ disk' = disk /\ restore = "file" /\ Member.type = "file" /\ IsSeq(temp)
      /\ Len(temp) < Len(Member.content)
  BY DEF WriteChunk, AtMember, SameRequest, RestoreInv, TempSound
<1> DEFINE k  == Len(temp) + 1
           id == Member.content[k]
<1>2. CASE id \in chunks
  <2>1. restore' = "file" /\ frames' = frames /\ failed' = failed
    BY <1>1, <1>2 DEF WriteChunk
  <2>2. /\ Untried(frames', disk') /\ Reachable(dirMeta', frames', disk')
        /\ Level(frames') /\ Apart(frames') /\ DOMAIN disk' \subseteq Seq(Nat)
    BY <1>1, <2>1 DEF Contained
  <2> QED  BY <1>1, <2>1, <2>2, GoesOn
<1>3. CASE id \notin chunks
  <2>1. FailEntry
    BY <1>3 DEF WriteChunk
  <2>2. EntrySound(Member)
    BY <1>1, MemberFacts
  <2>3. IsSeq(Member.hash) /\ Len(Member.content) = Len(Member.hash) /\ Len(Member.hash) \in Nat
    BY <1>1, <2>2, FileContent
  <2>4. DOMAIN Member.content = 1 .. Len(Member.hash)
    <3>1. DOMAIN Member.hash = 1 .. Len(Member.hash)
      BY <2>3 DEF IsSeq
    <3> QED  BY <1>1, <2>2, <3>1 DEF EntrySound
  <2>5. k \in DOMAIN Member.content
    <3>1. Len(temp) \in Nat
      BY <1>1, SeqLength
    <3> QED  BY <1>1, <2>3, <2>4, <3>1
  <2> HIDE DEF k
  <2>6. ~(Needs(Member) \subseteq chunks)
    BY <1>1, <1>3, <2>5 DEF Needs
  <2>7. Damaged(Dest)
    BY <1>1, <2>6, EntryDamaged
  <2> QED  BY <1>1, <2>1, <2>7, SameAlters, FailContained
<1> QED  BY <1>2, <1>3

(* What was written is what was recorded; only a directory is in its way.  *)
LEMMA PublishContained ==
  ASSUME source \in Sources, RestoreInv, OneEntry, ReportInv, Contained, PublishFile
  PROVE  Contained'
<1>1. /\ AtMember /\ SameRequest /\ dirMeta' = dirMeta /\ warned' = warned /\ errors' = errors
      /\ Member.type = "file" /\ IsSeq(temp) /\ IsPrefix(temp, Member.hash)
      /\ Len(temp) = Len(Member.content)
  BY DEF PublishFile, AtMember, SameRequest, RestoreInv, TempSound
<1>2. CASE temp = Member.hash /\ ~IsDir(Dest)
  <2> DEFINE item == Item("file", Member.mode, temp, FALSE)
  <2>1. disk' = Made(Dest, item) /\ frames' = Dropped /\ restore' = "walk" /\ failed' = failed
    BY <1>2 DEF PublishFile
  <2> HIDE DEF item
  <2> QED  BY <1>1, <2>1, LeafContained
<1>3. CASE ~(temp = Member.hash /\ ~IsDir(Dest))
  <2>1. FailEntry /\ disk' = disk
    BY <1>3 DEF PublishFile
  <2>2. temp = Member.hash
    <3>1. IsSeq(Member.hash) /\ Len(Member.content) = Len(Member.hash) /\ Len(Member.hash) \in Nat
      BY <1>1, MemberFacts, FileContent
    <3> DEFINE h == Member.hash
    <3>2. IsSeq(h) /\ Len(temp) = Len(h) /\ IsPrefix(temp, h) /\ IsSeq(temp)
      BY <1>1, <3>1
    <3> HIDE DEF h
    <3>3. PICK X : temp \in Seq(X)
      BY <3>2 DEF IsSeq
    <3>4. PICK Y : h \in Seq(Y)
      BY <3>2 DEF IsSeq
    <3>5. SubSeq(temp, 1, Len(temp)) = SubSeq(h, 1, Len(h))
      BY <3>2 DEF IsPrefix
    <3>6. SubSeq(temp, 1, Len(temp)) = temp
      BY <3>3
    <3>7. SubSeq(h, 1, Len(h)) = h
      BY <3>4
    <3> QED  BY <3>5, <3>6, <3>7 DEF h
  <2>3. Exists(Dest)
    BY <1>3, <2>2 DEF IsDir
  <2>4. Damaged(Dest)
    BY <1>1, <2>3, EntryDamaged
  <2> QED  BY <1>1, <2>1, <2>4, SameAlters, FailContained
<1> QED  BY <1>2, <1>3

(* A node is done; when the outermost is, nothing is left to do.           *)
LEMMA LeaveContained ==
  ASSUME RestoreInv, Contained, LeaveDir
  PROVE  Contained'
<1>1. /\ SameRequest /\ restore = "walk" /\ Inner.todo = {} /\ frames' = Front(frames)
      /\ restore' = IF Len(frames) = 1 THEN "dirs" ELSE "walk"
      /\ disk' = disk /\ dirMeta' = dirMeta /\ failed' = failed /\ warned' = warned /\ errors' = errors
  BY DEF LeaveDir, SameRequest
<1>2. /\ IsSeq(frames) /\ Len(frames) > 0 /\ Level(frames) /\ Apart(frames)
      /\ DOMAIN disk \subseteq Seq(Nat) /\ Untried(frames, disk) /\ Reachable(dirMeta, frames, disk)
  BY <1>1 DEF RestoreInv, RestoreTypeOK, FramesFit, Contained
<1>3. /\ Len(frames') = Len(frames) - 1 /\ Len(frames) \in Nat
      /\ \A i \in 1 .. Len(frames) - 1 : frames'[i] = frames[i]
  BY <1>1, <1>2, FrontFacts, SeqLength
<1>4. Todo(frames') = Todo(frames)
  <2>1. Held(Last(frames)) = {}
    BY ONLY <1>1 DEF Inner, Held
  <2>2. Todo(frames) = Todo(Front(frames)) \cup Held(Last(frames))
    BY ONLY <1>2, TodoPopped
  <2> QED  BY ONLY <1>1, <2>1, <2>2
<1>5. Len(frames) = 1 => Todo(frames') = {}
  <2> SUFFICES ASSUME Len(frames) = 1
               PROVE  Todo(frames') = {}
    OBVIOUS
  <2>1. Len(frames') = 0
    BY <1>3
  <2> QED  BY <2>1 DEF Todo
<1>6. Level(frames')
  <2> SUFFICES ASSUME NEW i \in 1 .. Len(frames) - 1
               PROVE  Len(frames'[i].path) = i - 1
    BY <1>3 DEF Level
  <2>1. i \in 1 .. Len(frames)
    BY <1>3
  <2> QED  BY <1>2, <1>3, <2>1 DEF Level
<1>7. Apart(frames') /\ Untried(frames', disk') /\ Reachable(dirMeta', frames', disk')
  BY <1>1, <1>2, <1>4 DEF Apart, Untried, Reachable
<1> QED  BY <1>1, <1>2, <1>5, <1>6, <1>7, GoesOn

(* The restore returns.                                                    *)
LEMMA ReturnContained ==
  ASSUME RestoreInv, Contained, ReturnReport
  PROVE  Contained'
<1>1. /\ SameRequest /\ restore = "dirs" /\ restore' = "done" /\ frames' = frames
      /\ disk' = disk /\ dirMeta' = dirMeta /\ failed' = failed /\ warned' = warned /\ errors' = errors
  BY DEF ReturnReport, SameRequest
<1>2. /\ Level(frames) /\ Apart(frames) /\ DOMAIN disk \subseteq Seq(Nat) /\ Todo(frames) = {}
      /\ Untried(frames, disk) /\ Reachable(dirMeta, frames, disk)
  BY <1>1 DEF Contained
<1> QED  BY <1>1, <1>2, GoesOn

(* The deepest directory gets its metadata: none that is still due is      *)
(* below it, and what keeps it from being reached was there before.        *)
LEMMA ApplyContained ==
  ASSUME RestoreInv, Contained, ApplyDir
  PROVE  Contained'
<1>1. /\ SameRequest /\ restore = "dirs" /\ restore' = "dirs" /\ frames' = frames
      /\ failed' = failed /\ errors' = errors
  BY DEF ApplyDir, SameRequest
<1>2. PICK d \in dirMeta :
        /\ \A o \in dirMeta : Len(o.path) <= Len(d.path)
        /\ dirMeta' = dirMeta \ {d}
        /\ IF Open(d.path)
           THEN /\ disk' = [disk EXCEPT ![d.path].mode = d.mode, ![d.path].fresh = FALSE]
                /\ warned' = warned
           ELSE warned' = warned \cup {d.path} /\ disk' = disk
  BY DEF ApplyDir
<1>3. /\ Level(frames) /\ Apart(frames) /\ DOMAIN disk \subseteq Seq(Nat) /\ Todo(frames) = {}
      /\ Reachable(dirMeta, frames, disk) /\ IsFiniteSet(Excess) /\ Cardinality(Excess) <= errors
      /\ warned # {} => InTheWay # {}
  BY <1>1 DEF Contained
<1>4. CASE Open(d.path)
  <2>1. /\ DOMAIN disk' = DOMAIN disk /\ warned' = warned
        /\ \A p \in DOMAIN disk : p # d.path => disk'[p] = disk[p]
    BY <1>2, <1>4
  <2>2. ASSUME NEW o \in dirMeta, IsStrictPrefix(d.path, o.path)
        PROVE  FALSE
    <3>1. d.path \in Seq(Nat) /\ o.path \in Seq(Nat) /\ Len(o.path) <= Len(d.path)
      BY <1>2, <1>3 DEF RestoreInv, DueFits
    <3> DEFINE s == d.path
               t == o.path
    <3>2. s \in Seq(Nat) /\ t \in Seq(Nat) /\ Len(t) <= Len(s) /\ IsPrefix(s, t) /\ s # t
      BY <2>2, <3>1 DEF IsStrictPrefix
    <3> HIDE DEF s, t
    <3>3. Len(s) <= Len(t) /\ \A i \in 1 .. Len(s) : s[i] = t[i]
      BY <3>2, PrefixElements
    <3>4. Len(s) = Len(t)
      <4>1. Len(s) \in Nat /\ Len(t) \in Nat
        BY ONLY <3>2
      <4> QED  BY ONLY <3>2, <3>3, <4>1
    <3> QED  BY <3>2, <3>3, <3>4, SeqEqual
  <2>3. Reachable(dirMeta', frames', disk') /\ Untried(frames', disk')
    BY <1>1, <1>2, <1>3, <2>1, <2>2 DEF Reachable, Untried
  <2> QED  BY <1>1, <1>3, <2>1, <2>3, GoesOn
<1>5. CASE ~Open(d.path)
  <2>1. dirMeta' \subseteq dirMeta /\ disk' = disk
    BY <1>2, <1>5
  <2>2. PICK p \in DOMAIN disk : IsStrictPrefix(p, d.path) /\ disk[p].mode # "open"
    BY <1>5 DEF Open
  <2>3. InTheWay # {}
    BY <1>3, <2>2 DEF Reachable
  <2>4. InTheWay' # {}
    BY <1>1, <2>3, DamagePrime
  <2>5. errors \in Nat
    BY RestoreAssumption DEF RestoreInv, RestoreTypeOK
  <2>6. IsFiniteSet(Excess)' /\ (Cardinality(Excess) <= errors)'
    BY <1>1, <1>3, <2>5, ExcessCounted
  <2>7. Untried(frames, disk)' /\ Reachable(dirMeta, frames, disk)'
    BY <1>1, <1>3, <2>1, DamagePrime DEF Untried, Reachable
  <2> QED  BY <1>1, <1>3, <2>1, <2>4, <2>6, <2>7 DEF Contained
<1> QED  BY <1>4, <1>5

(* The target is the first entry to be restored, or nothing is.            *)
LEMMA ResolveContained ==
  ASSUME RestoreInv, Contained, Resolve
  PROVE  Contained'
<1>1. /\ SameRequest /\ restore = "begun" /\ disk' = disk /\ dirMeta' = dirMeta
      /\ failed' = failed /\ warned' = warned /\ errors' = errors
  BY DEF Resolve, SameRequest
<1>2. /\ frames = <<>> /\ dirMeta = {} /\ disk = before /\ DOMAIN disk \subseteq Seq(Nat)
      /\ Level(frames) /\ Apart(frames)
  BY <1>1 DEF Contained
<1>3. CASE ~(Whole \/ Navigable)
  <2>1. restore' = "raised" /\ frames' = frames
    BY <1>3 DEF Resolve
  <2>2. errors \in Nat
    BY RestoreAssumption DEF RestoreInv, RestoreTypeOK
  <2>3. IsFiniteSet(Excess)' /\ (Cardinality(Excess) <= errors)'
    BY <1>1, <2>2, ExcessCounted DEF Contained
  <2>4. ~(Whole \/ Navigable)' /\ (warned' # {} => InTheWay' # {})
    BY <1>1, <1>3, DamagePrime DEF Contained
  <2> QED  BY <1>1, <1>2, <2>1, <2>3, <2>4 DEF Contained
<1>4. CASE Whole \/ Navigable
  <2>1. restore' = "walk"
    BY <1>4 DEF Resolve
  <2>2. PICK e : frames' = <<[path |-> <<>>, todo |-> {[e EXCEPT !.name = 0]}]>>
    BY <1>4 DEF Resolve
  <2> DEFINE g == [e EXCEPT !.name = 0]
             fr == [path |-> <<>>, todo |-> {g}]
             t == <<Append(<<>>, g.name), g>>
  <2>3. fr.path = <<>> /\ fr.todo = {g}
    OBVIOUS
  <2>4. frames' = <<fr>> /\ Len(<<fr>>) = 1 /\ <<fr>>[1] = fr
    BY <2>2
  <2> HIDE DEF fr, g
  <2>5. Held(fr) = {t}
    BY <2>3 DEF Held
  <2> HIDE DEF t
  <2>6. Todo(frames') = {t}
    BY <2>4, <2>5 DEF Todo
  <2>7. Level(frames')
    BY <2>3, <2>4 DEF Level
  <2>8. Apart(frames')
    BY <2>6 DEF Apart
  <2>9. \A p \in DOMAIN disk : p \in DOMAIN before /\ (disk[p].mode # "open" => p \in InTheWay)
    BY <1>2 DEF InTheWay
  <2>10. Untried(frames', disk') /\ Reachable(dirMeta', frames', disk')
    BY <1>1, <1>2, <2>9 DEF Untried, Reachable
  <2> QED  BY <1>1, <1>2, <2>1, <2>7, <2>8, <2>10, GoesOn
<1> QED  BY <1>3, <1>4

(* Before the restore has resolved the path, it has done nothing.          *)
LEMMA RestContained ==
  ASSUME restore' \in {"idle", "begun"}, failed' = {}, warned' = {}, dirMeta' = {},
         frames' = <<>>, disk' = before', DOMAIN disk' \subseteq Seq(Nat), errors' \in Nat
  PROVE  Contained'
<1>1. Excess' = {}
  BY DEF Excess
<1>2. IsFiniteSet(Excess') /\ Cardinality(Excess') = 0
  BY <1>1, FS_EmptySet
<1>3. Todo(<<>>) = {} /\ Len(<<>>) = 0
  BY DEF Todo
<1>4. Level(frames') /\ Apart(frames')
  BY <1>3 DEF Level, Apart
<1>5. Untried(frames, disk)' /\ Reachable(dirMeta, frames, disk)'
  BY <1>3 DEF Untried, Reachable
<1> QED  BY <1>2, <1>4, <1>5 DEF Contained

(* Every step contains the damage.                                         *)
LEMMA ContainedStep ==
  ASSUME TreesInv, BooksKept, SkipsCounted, ReportInv, Contained, [Next]_vars
  PROVE  Contained'
<1>1. CASE ScanStep /\ UNCHANGED restoreVars
  <2>1. restore = "idle"
    <3> SUFFICES ASSUME restore # "idle" PROVE FALSE
      OBVIOUS
    <3>1. scan = "done"
      BY DEF TreesInv, RestoreInv, RestoreTypeOK
    <3> QED  BY <1>1, <3>1
             DEF ScanStep, ListDir, PassExcluded, VisitFails, VisitSpecial, VisitLink, VisitDir,
                 VisitFile, ScanChunk, ScanFails, EndFile, StoreNode, StoreNodeFails, PutRaises,
                 NewChunk, EndDir, Visiting, Reached
  <2>2. /\ restore' = restore /\ failed' = failed /\ warned' = warned /\ dirMeta' = dirMeta
        /\ frames' = frames /\ disk' = disk /\ before' = before /\ errors' = errors
    BY <1>1 DEF restoreVars
  <2>3. /\ failed = {} /\ warned = {} /\ dirMeta = {} /\ frames = <<>> /\ disk = before
        /\ DOMAIN disk \subseteq Seq(Nat) /\ errors = 0
    BY <2>1 DEF Contained, TreesInv, NotBegun
  <2> QED  BY <2>1, <2>2, <2>3, RestContained
<1>2. CASE BeginRestore
  <2>1. /\ failed = {} /\ warned = {} /\ dirMeta = {} /\ frames = <<>> /\ errors = 0
    BY <1>2 DEF BeginRestore, Contained, TreesInv, NotBegun
  <2>2. /\ restore' = "begun" /\ failed' = failed /\ warned' = warned /\ dirMeta' = dirMeta
        /\ frames' = frames /\ errors' = errors
    BY <1>2 DEF BeginRestore
  <2>3. disk' = before' /\ DOMAIN disk' \subseteq Seq(Nat)
    BY <1>2, RestoreAssumption DEF BeginRestore
  <2> QED  BY <2>1, <2>2, <2>3, RestContained
<1>3. CASE RestoreStep /\ ~BeginRestore
  <2>1. restore # "idle"
    BY <1>3 DEF RestoreStep, Resolve, StatRaises, RefuseEntry, EntryRaises, RestoreDir, RestoreLink, OpenTemp,
          WriteChunk, FileRaises, PublishFile, LeaveDir, ApplyDir, ReturnReport, AtEntry, Restoring
  <2>2. source \in Sources /\ RestoreInv /\ OneEntry
    BY <2>1, TreeKnown
  <2> QED  BY <1>3, <2>2, ResolveContained, StatContained, RefuseContained, DirContained, LinkContained,
              OpenContained, WriteContained, PublishContained, LeaveContained, ApplyContained,
              ReturnContained DEF RestoreStep
<1>4. CASE UNCHANGED <<scanVars, restoreVars>>
  <2>1. /\ SameRequest /\ restore' = restore /\ frames' = frames /\ disk' = disk
        /\ dirMeta' = dirMeta /\ failed' = failed /\ warned' = warned /\ errors' = errors
        /\ before' = before
    BY <1>4 DEF restoreVars, SameRequest
  <2>2. Excess' = Excess /\ InTheWay' = InTheWay
    BY <2>1, DamagePrime DEF Excess, Below
  <2>3. /\ Damaged(Target)' <=> Damaged(Target)
        /\ (Whole \/ Navigable)' <=> (Whole \/ Navigable)
        /\ Untried(frames, disk)' <=> Untried(frames, disk)
        /\ Reachable(dirMeta, frames, disk)' <=> Reachable(dirMeta, frames, disk)
    BY <2>1, DamagePrime DEF Untried, Reachable
  <2> QED  BY <2>1, <2>2, <2>3 DEF Contained
<1> QED  BY <1>1, <1>2, <1>3, <1>4, StepKinds

(* One bad chunk costs what needs it and nothing else: an entry fails only *)
(* if something was in its way, a chunk it needs is lost, or a call raised *)
(* for it; a restore that raises has such a reason at its target or on the *)
(* way to what was asked for; and metadata that cannot be applied was kept *)
(* from it by what had been there before.                                  *)
THEOREM DamageStaysWhereItIs == Spec => []DamageContained
<1>1. Init => Contained
  <2> SUFFICES ASSUME Init PROVE Contained
    OBVIOUS
  <2>1. /\ restore = "idle" /\ failed = {} /\ warned = {} /\ dirMeta = {} /\ frames = <<>>
        /\ disk = <<>> /\ before = <<>> /\ errors = 0
    BY DEF Init, RestoreInit
  <2>2. Excess = {} /\ IsFiniteSet({}) /\ Cardinality({}) = 0
    BY <2>1, FS_EmptySet DEF Excess
  <2>3. Todo(<<>>) = {} /\ Len(<<>>) = 0 /\ DOMAIN <<>> = {}
    BY DEF Todo
  <2>4. Level(frames) /\ Apart(frames) /\ Untried(frames, disk) /\ Reachable(dirMeta, frames, disk)
    BY <2>1, <2>3 DEF Level, Apart, Untried, Reachable
  <2> QED  BY <2>1, <2>2, <2>3, <2>4 DEF Contained
<1>2. TreesInv /\ BooksKept /\ SkipsCounted /\ ReportInv /\ Contained /\ [Next]_vars => Contained'
  BY ContainedStep
<1>3. Contained => DamageContained
  BY DEF Contained, DamageContained, Excess, Damaged
<1> QED  BY <1>1, <1>2, <1>3, TreesInvHolds, BooksHold, ReportInvHolds, PTL DEF Spec


-----------------------------------------------------------------------------
(* The walk. *)

(* A proper prefix, one name further.                                      *)
LEMMA PrefixOneMore ==
  ASSUME NEW s \in Seq(Nat), NEW path \in Seq(Nat), IsPrefix(s, path), s # path
  PROVE  \E x \in Nat : /\ Append(s, x) \in Seq(Nat) /\ IsPrefix(Append(s, x), path)
                        /\ Len(Append(s, x)) = Len(s) + 1 /\ Append(s, x) # <<>>
<1>1. Len(s) \in Nat /\ Len(path) \in Nat /\ Len(s) < Len(path)
  <2>1. Len(s) <= Len(path) /\ \A i \in 1 .. Len(s) : s[i] = path[i]
    BY PrefixElements
  <2>2. Len(s) # Len(path)
    BY <2>1, SeqEqual
  <2> QED  BY <2>1, <2>2
<1> DEFINE x == path[Len(s) + 1]
<1>2. x \in Nat
  <2>1. Len(s) + 1 \in 1 .. Len(path)
    BY ONLY <1>1
  <2> QED  BY ONLY <2>1, path \in Seq(Nat)
<1>3. IsPrefix(Append(s, x), path)
  <2>1. IsSeq(s) /\ IsSeq(path)
    BY DEF IsSeq
  <2> QED  BY <1>1, <2>1, PrefixGrows
<1> HIDE DEF x
<1>4. Append(s, x) \in Seq(Nat) /\ Len(Append(s, x)) = Len(s) + 1
  BY <1>2
<1>5. Append(s, x) # <<>>
  BY <1>2, EntryAt
<1> QED  BY <1>2, <1>3, <1>4, <1>5

(* What is on the way to an entry of the tree is in the tree.              *)
LEMMA WayRecorded ==
  ASSUME NEW path \in Seq(Nat), Recorded(path) # {}, NEW r \in Seq(Nat), r # <<>>, IsPrefix(r, path)
  PROVE  Recorded(r) # {}
<1> DEFINE Bad(s) == s \in Seq(Nat) /\ s # <<>> /\ IsPrefix(s, path) /\ Recorded(s) = {}
           S == {Len(path) - Len(s) : s \in {t \in Seq(Nat) : Bad(t)}}
<1> SUFFICES ASSUME S # {} PROVE FALSE
  OBVIOUS
<1>1. \A s \in Seq(Nat) : Bad(s) => Len(path) - Len(s) \in Nat /\ Len(s) \in Nat
  <2> SUFFICES ASSUME NEW s \in Seq(Nat), Bad(s)
               PROVE  Len(path) - Len(s) \in Nat /\ Len(s) \in Nat
    OBVIOUS
  <2>1. Len(s) <= Len(path)
    BY PrefixElements
  <2> QED  BY <2>1
<1>2. PICK n \in S : \A k \in S : n <= k
  <2>1. S \in SUBSET Nat
    BY <1>1
  <2> HIDE DEF S
  <2> QED  BY <2>1, LeastOf
<1>3. PICK s \in Seq(Nat) : Bad(s) /\ n = Len(path) - Len(s)
  OBVIOUS
<1>4. /\ s \in Seq(Nat) /\ s # <<>> /\ IsPrefix(s, path) /\ Recorded(s) = {} /\ s # path
      /\ Len(s) \in Nat
  BY <1>3
<1>5. PICK x \in Nat : Append(s, x) \in Seq(Nat) /\ IsPrefix(Append(s, x), path)
                       /\ Len(Append(s, x)) = Len(s) + 1 /\ Append(s, x) # <<>>
  BY <1>4, PrefixOneMore
<1>6. Len(path) - Len(Append(s, x)) \notin S
  <2> DEFINE a == Len(path)
             b == Len(s)
             c == Len(Append(s, x))
  <2>1. a \in Nat /\ b \in Nat /\ c = b + 1 /\ n = a - b
    BY <1>3, <1>4, <1>5
  <2>2. ~(n <= a - c)
    <3> HIDE DEF a, b, c
    <3> QED  BY <2>1
  <2> HIDE DEF S
  <2> QED  BY <1>2, <2>2
<1>7. Recorded(Append(s, x)) # {}
  BY <1>5, <1>6
<1>8. PICK m \in NodesAt(root, s) : TRUE
  BY <1>4, <1>7, EntryAt
<1>9. /\ Front(s) \in Seq(Nat) /\ Last(s) \in Nat /\ s = Append(Front(s), Last(s))
  BY <1>4, FrontLast
<1> DEFINE f == Front(s)
           l == Last(s)
<1>10. m \in NodesAt(root, Append(f, l)) /\ f \in Seq(Nat) /\ l \in Nat /\ s = Append(f, l)
  BY <1>8, <1>9
<1> HIDE DEF f, l
<1> QED  BY <1>4, <1>10, EntryAt

(* The pairs of the tree.                                                  *)
LEMMA InTree ==
  ASSUME source \in Sources, OneEntry
  PROVE  /\ \A p, e : <<p, e>> \in Tree <=> p \in Seq(Nat) \ {<<>>} /\ e \in Recorded(p)
         /\ \A w \in Tree : w = <<w[1], w[2]>>
<1>1. \A w : w \in Tree <=> \E p \in Paths \ {<<>>} : \E e \in Recorded(p) : w = <<p, e>>
  BY DEF Tree, Paths
<1>2. Paths \subseteq Seq(Nat)
  BY PathFacts
<1>3. \A p \in Seq(Nat) \ {<<>>} : \A e \in Recorded(p) : p \in Paths
  BY DEF OneEntry
<1> QED  BY <1>1, <1>2, <1>3

(* What is below a path of the tree is below an entry of its node.         *)
LEMMA TreeBelow ==
  ASSUME source \in Sources, OneEntry, NEW w \in Tree,
         NEW path \in Seq(Nat), IsPrefix(path, w[1]), path # w[1]
  PROVE  \E n \in NodesAt(root, path) : \E g \in Entries(n) :
           g.name \in Nat /\ IsPrefix(Append(path, g.name), w[1])
<1>1. w[1] \in Seq(Nat) /\ Recorded(w[1]) # {}
  BY InTree
<1>2. PICK x \in Nat : /\ Append(path, x) \in Seq(Nat) /\ IsPrefix(Append(path, x), w[1])
                       /\ Append(path, x) # <<>>
  BY <1>1, PrefixOneMore
<1>3. Recorded(Append(path, x)) # {}
  BY <1>1, <1>2, WayRecorded
<1>4. PICK n \in NodesAt(root, path) : \E g \in Entries(n) : g.name = x
  BY <1>3, EntryAt
<1> QED  BY <1>2, <1>4

-----------------------------------------------------------------------------
(* A node being walked has a path of the tree, and so has what it lists.   *)
WalkFits(fr) ==
  /\ fr = [path |-> fr.path, todo |-> fr.todo] /\ fr.path \in Seq(Nat)
  /\ \A e \in fr.todo : e.name \in Nat /\ e \in Recorded(Append(fr.path, e.name))

TrailFits(frs) == IsSeq(frs) /\ \A i \in 1 .. Len(frs) : WalkFits(frs[i])

(* What the tree holds was yielded or is still to be, and the nodes of     *)
(* what was yielded were there.                                            *)
Walked(seen, frs) == \A w \in Tree : w \in seen \/ Pends(frs, w[1])

Loaded(seen) == root \in intact /\ \A w \in seen : IsDirEntry(w[2]) => Subnode(w[2]) \in intact

WalkSound ==
  /\ walk \in {"begun", "walk", "done", "raised"}
  /\ walk = "begun" => listed = {} /\ trail = <<>>
  /\ walk = "walk" => Len(trail) > 0
  /\ walk = "done" => Todo(trail) = {}
  /\ TrailFits(trail) /\ listed \subseteq Tree
  /\ walk \in {"walk", "done"} => Walked(listed, trail) /\ Loaded(listed)
  /\ walk = "raised" => ~(Named \subseteq intact)

(* What a walk begins with: the books of the scan are closed, and nothing  *)
(* has been restored.                                                      *)
WalkInv ==
  \/ walk = "idle" /\ intact = {} /\ trail = <<>> /\ listed = {}
  \/ /\ scan = "done" /\ restore = "idle" /\ source \in Sources /\ Known
     /\ intact \subseteq chunks /\ WalkSound

(* A node more.                                                            *)
LEMMA TrailPushed ==
  ASSUME Known, NEW frs, TrailFits(frs), NEW path \in Seq(Nat), NEW n \in NodesAt(root, path)
  PROVE  LET fr == [path |-> path, todo |-> Entries(n)] IN
         /\ TrailFits(Append(frs, fr)) /\ Len(Append(frs, fr)) > 0
         /\ Todo(Append(frs, fr)) = Todo(frs) \cup {<<Append(path, e.name), e>> : e \in Entries(n)}
<1> DEFINE fr == [path |-> path, todo |-> Entries(n)]
           t == Append(frs, fr)
<1>1. fr.path = path /\ fr.todo = Entries(n) /\ fr = [path |-> fr.path, todo |-> fr.todo]
  OBVIOUS
<1> HIDE DEF fr
<1>2. WalkFits(fr)
  <2>1. \A e \in Entries(n) : EntrySound(e)
    BY KnownBelow
  <2>2. \A e \in Entries(n) : e.name \in Nat
    BY <2>1 DEF EntrySound
  <2>3. \A e \in Entries(n) : e \in Recorded(Append(path, e.name))
    BY <2>2, EntryAt
  <2> QED  BY <1>1, <2>2, <2>3 DEF WalkFits
<1>3. IsSeq(frs) /\ Len(frs) \in Nat
  BY SeqLength DEF TrailFits
<1>4. IsSeq(t) /\ Len(t) = Len(frs) + 1 /\ t[Len(frs) + 1] = fr
      /\ \A i \in 1 .. Len(frs) : t[i] = frs[i]
  BY <1>3, AppendFacts
<1>5. Todo(t) = Todo(frs) \cup Held(fr)
  BY <1>3, TodoPushed
<1> HIDE DEF t
<1>6. \A i \in 1 .. Len(t) : i = Len(frs) + 1 \/ i \in 1 .. Len(frs)
  BY <1>3, <1>4
<1>7. TrailFits(t) /\ Len(t) > 0
  BY <1>2, <1>3, <1>4, <1>6 DEF TrailFits
<1>8. Held(fr) = {<<Append(path, e.name), e>> : e \in Entries(n)}
  BY <1>1 DEF Held
<1> QED  BY <1>5, <1>7, <1>8 DEF t, fr

LEMMA TrailPopped ==
  ASSUME NEW frs, TrailFits(frs), Len(frs) > 0
  PROVE  /\ TrailFits(Front(frs)) /\ WalkFits(Last(frs)) /\ Len(frs) \in Nat
         /\ Len(Front(frs)) = Len(frs) - 1
         /\ Todo(frs) = Todo(Front(frs)) \cup Held(Last(frs))
<1>1. IsSeq(frs) /\ Len(frs) \in Nat
  BY SeqLength DEF TrailFits
<1>2. /\ IsSeq(Front(frs)) /\ Len(Front(frs)) = Len(frs) - 1
      /\ \A i \in 1 .. Len(frs) - 1 : Front(frs)[i] = frs[i]
  BY <1>1, FrontFacts
<1>3. \A i \in 1 .. Len(Front(frs)) : i \in 1 .. Len(frs) /\ Front(frs)[i] = frs[i]
  BY <1>1, <1>2
<1>4. TrailFits(Front(frs))
  BY <1>2, <1>3 DEF TrailFits
<1>5. WalkFits(Last(frs))
  <2>1. Len(frs) \in 1 .. Len(frs)
    BY <1>1
  <2> QED  BY <2>1 DEF TrailFits, Last
<1> QED  BY <1>1, <1>2, <1>4, <1>5, TodoPopped

(* The entry that is yielded next, and what is left then.                  *)
LEMMA Yielding ==
  ASSUME TrailFits(trail), Len(trail) > 0, Deepest.todo # {}
  PROVE  /\ Spot \in Seq(Nat) \ {<<>>} /\ Foremost \in Recorded(Spot)
         /\ TrailFits(Onward) /\ Len(Onward) > 0
         /\ Todo(trail) = Todo(Onward) \cup {<<Spot, Foremost>>}
<1>1. /\ TrailFits(Front(trail)) /\ WalkFits(Deepest) /\ Len(trail) \in Nat
      /\ Len(Front(trail)) = Len(trail) - 1 /\ IsSeq(Front(trail))
      /\ Todo(trail) = Todo(Front(trail)) \cup Held(Deepest)
  BY TrailPopped DEF Deepest, TrailFits
<1>2. Foremost \in Deepest.todo
  <2> DEFINE T == Deepest.todo
             names == {e.name : e \in T}
  <2>1. names \in SUBSET Nat /\ names # {}
    BY <1>1 DEF WalkFits
  <2>2. Min(names) \in names /\ \A k \in names : Min(names) <= k
    <3> HIDE DEF names
    <3> QED  BY <2>1, LeastOf
  <2>3. \E e \in T : \A f \in T : e.name <= f.name
    BY <2>2
  <2>4. Foremost = CHOOSE e \in T : \A f \in T : e.name <= f.name
    BY DEF Foremost, T
  <2> QED  BY <2>3, <2>4
<1>3. Spot \in Seq(Nat) \ {<<>>} /\ Foremost \in Recorded(Spot)
  BY <1>1, <1>2, EntryAt DEF WalkFits, Spot
<1> DEFINE fr == [path |-> Deepest.path, todo |-> Deepest.todo \ {Foremost}]
<1>4. [Deepest EXCEPT !.todo = @ \ {Foremost}] = fr
  <2>1. \A g, x : g = [path |-> g.path, todo |-> g.todo] =>
                   [g EXCEPT !.todo = @ \ {x}] = [path |-> g.path, todo |-> g.todo \ {x}]
    BY ONLY TRUE
  <2> QED  BY <1>1, <2>1 DEF WalkFits
<1>5. /\ fr.path = Deepest.path /\ fr.todo = Deepest.todo \ {Foremost}
      /\ fr = [path |-> fr.path, todo |-> fr.todo]
  OBVIOUS
<1> HIDE DEF fr
<1>6. WalkFits(fr)
  BY <1>1, <1>5 DEF WalkFits
<1>7. Onward = Append(Front(trail), fr)
  <2>1. PICK X : Front(trail) \in Seq(X)
    BY <1>1 DEF IsSeq
  <2> DEFINE Y == X \cup {fr}
  <2>2. Front(trail) \in Seq(Y) /\ fr \in Y
    BY <2>1
  <2> HIDE DEF Y
  <2> QED  BY <1>4, <2>2, AppendIsConcat DEF Onward
<1>8. /\ IsSeq(Onward) /\ Len(Onward) = Len(trail) /\ Onward[Len(trail)] = fr
      /\ \A i \in 1 .. Len(trail) - 1 : Onward[i] = Front(trail)[i]
  BY <1>1, <1>7, AppendFacts
<1>9. TrailFits(Onward) /\ Len(Onward) > 0
  <2>1. \A i \in 1 .. Len(Onward) : i = Len(trail) \/ i \in 1 .. Len(trail) - 1
    BY <1>1, <1>8
  <2> QED  BY <1>1, <1>6, <1>8, <2>1 DEF TrailFits
<1>10. Todo(Onward) = Todo(Front(trail)) \cup Held(fr)
  BY <1>1, <1>7, TodoPushed
<1>11. Held(Deepest) = Held(fr) \cup {<<Spot, Foremost>>}
  BY <1>2, <1>5 DEF Held, Spot
<1> QED  BY <1>1, <1>3, <1>9, <1>10, <1>11

-----------------------------------------------------------------------------
(* Steps. *)

(* The tree of a snapshot does not change while it is walked.              *)
LEMMA TreePrime ==
  ASSUME UNCHANGED <<source, root>>
  PROVE  /\ Tree' = Tree /\ Named' = Named
         /\ \A p : Recorded(p)' = Recorded(p)
         /\ \A fr : WalkFits(fr)' <=> WalkFits(fr)
         /\ Known' <=> Known
<1>1. \A p : Recorded(p)' = Recorded(p)
  BY DEF Recorded
<1>2. Tree' = Tree
  BY <1>1 DEF Tree
<1>3. Named' = Named
  BY <1>2 DEF Named
<1> QED  BY <1>1, <1>2, <1>3 DEF WalkFits, Known

(* Nodes that entries of the tree lead to are among what it names.         *)
LEMMA SubnodesNamed ==
  ASSUME source \in Sources, OneEntry, NEW w \in Tree, IsDirEntry(w[2])
  PROVE  Subnode(w[2]) \in Named /\ Subnode(w[2]) \in NodesAt(root, w[1])
<1>1. w[1] \in Seq(Nat) \ {<<>>} /\ w[2] \in Recorded(w[1])
  BY InTree
<1>2. EntrySound(w[2])
  BY <1>1 DEF OneEntry
<1>3. Needs(w[2]) = {Subnode(w[2])}
  BY <1>2 DEF EntrySound, IsDirEntry
<1>4. Subnode(w[2]) \in Named
  BY <1>3 DEF Named, IdsOf
<1>5. /\ Front(w[1]) \in Seq(Nat) /\ Last(w[1]) \in Nat
      /\ w[1] = Append(Front(w[1]), Last(w[1]))
  BY <1>1, FrontLast
<1> DEFINE f == Front(w[1])
           l == Last(w[1])
<1>6. w[2] \in Recorded(Append(f, l)) /\ f \in Seq(Nat) /\ l \in Nat /\ w[1] = Append(f, l)
  BY <1>1, <1>5
<1> HIDE DEF f, l
<1>7. Subnode(w[2]) \in NodesAt(root, w[1])
  BY <1>6, EntryAt
<1> QED  BY <1>4, <1>7

(* A node is loaded, or its loss ends the walk.                            *)
LEMMA LoadKeeps ==
  ASSUME source \in Sources, Known, OneNode, OneEntry, UNCHANGED <<scanVars, intact>>,
         TrailFits(trail),
         NEW above, TrailFits(above), NEW path \in Seq(Nat), NEW node \in NodesAt(root, path),
         Load(above, path, node), node \in Named, listed' \subseteq Tree,
         \A w \in Tree : \/ w \in listed' \/ Pends(above, w[1])
                         \/ IsPrefix(path, w[1]) /\ path # w[1],
         root \in intact \/ root = node,
         \A w \in listed' : IsDirEntry(w[2]) => Subnode(w[2]) \in intact \/ Subnode(w[2]) = node
  PROVE  WalkSound'
<1>1. /\ Tree' = Tree /\ Named' = Named /\ intact' = intact /\ root' = root
      /\ \A fr : WalkFits(fr)' <=> WalkFits(fr)
  BY TreePrime DEF scanVars
<1>2. CASE node \in intact
  <2> DEFINE t == Append(above, [path |-> path, todo |-> Entries(node)])
  <2>1. walk' = "walk" /\ trail' = t
    BY <1>2 DEF Load
  <2>2. /\ TrailFits(t) /\ Len(t) > 0
        /\ Todo(t) = Todo(above) \cup {<<Append(path, e.name), e>> : e \in Entries(node)}
    BY TrailPushed
  <2> HIDE DEF t
  <2>3. ASSUME NEW w \in Tree
        PROVE  w \in listed' \/ Pends(t, w[1])
    <3>1. CASE w \in listed' \/ Pends(above, w[1])
      BY <2>2, <3>1 DEF Pends
    <3>2. CASE IsPrefix(path, w[1]) /\ path # w[1]
      <4>0. PICK n \in NodesAt(root, path) : \E g \in Entries(n) : IsPrefix(Append(path, g.name), w[1])
        BY <3>2, TreeBelow
      <4>1. PICK g \in Entries(n) : IsPrefix(Append(path, g.name), w[1])
        BY <4>0
      <4>2. n = node
        BY DEF OneNode
      <4>3. <<Append(path, g.name), g>> \in Todo(t) /\ <<Append(path, g.name), g>>[1] = Append(path, g.name)
        BY <2>2, <4>2
      <4> QED  BY <4>1, <4>3 DEF Pends
    <3> QED  BY <3>1, <3>2
  <2>4. Walked(listed, trail)'
    BY <1>1, <2>1, <2>3 DEF Walked, Pends
  <2>5. Loaded(listed)'
    BY <1>1, <1>2 DEF Loaded
  <2>6. TrailFits(trail)'
    BY <1>1, <2>1, <2>2 DEF TrailFits
  <2> QED  BY <1>1, <2>1, <2>2, <2>4, <2>5, <2>6 DEF WalkSound
<1>3. CASE node \notin intact
  <2>1. walk' = "raised" /\ trail' = trail
    BY <1>3 DEF Load
  <2>2. ~(Named \subseteq intact)'
    BY <1>1, <1>3
  <2>3. TrailFits(trail)'
    BY <1>1, <2>1 DEF TrailFits
  <2> QED  BY <1>1, <2>1, <2>2, <2>3 DEF WalkSound
<1> QED  BY <1>2, <1>3

LEMMA RootKeeps ==
  ASSUME source \in Sources, Known, OneNode, OneEntry, WalkSound, LoadRoot
  PROVE  WalkSound'
<1>1. /\ listed = {} /\ trail = <<>> /\ listed' = listed /\ UNCHANGED <<scanVars, intact>>
      /\ TrailFits(trail) /\ Load(<<>>, <<>>, root)
  BY DEF WalkSound, LoadRoot
<1>2. <<>> \in Seq(Nat) /\ IsSeq(<<>>)
  BY DEF IsSeq
<1>3. root \in NodesAt(root, <<>>) /\ root \in Named
  BY <1>2, NodesAtStep DEF Named
<1>4. ASSUME NEW w \in Tree
      PROVE  IsPrefix(<<>>, w[1]) /\ <<>> # w[1]
  <2>1. w[1] \in Seq(Nat) \ {<<>>}
    BY InTree
  <2>2. Len(<<>>) <= Len(w[1]) /\ \A i \in 1 .. Len(<<>>) : <<>>[i] = w[1][i]
    BY <2>1
  <2>3. IsPrefix(<<>>, w[1])
    BY <1>2, <2>1, <2>2, PrefixElements
  <2> QED  BY <2>1, <2>3
<1> QED  BY <1>1, <1>2, <1>3, <1>4, LoadKeeps

LEMMA YieldKeeps ==
  ASSUME source \in Sources, Known, OneNode, OneEntry, WalkSound, YieldEntry
  PROVE  WalkSound'
<1> DEFINE y == <<Spot, Foremost>>
<1>1. /\ walk = "walk" /\ Deepest.todo # {} /\ UNCHANGED <<scanVars, intact>> /\ listed' = listed \cup {y}
  BY DEF YieldEntry
<1>2. /\ TrailFits(trail) /\ Len(trail) > 0 /\ listed \subseteq Tree
      /\ Walked(listed, trail) /\ Loaded(listed)
  BY <1>1 DEF WalkSound
<1>3. /\ Spot \in Seq(Nat) \ {<<>>} /\ Foremost \in Recorded(Spot)
      /\ TrailFits(Onward) /\ Len(Onward) > 0
      /\ Todo(trail) = Todo(Onward) \cup {y}
  BY <1>1, <1>2, Yielding
<1>4. y \in Tree /\ y[1] = Spot /\ y[2] = Foremost
  BY <1>3, InTree
<1> HIDE DEF y
<1>5. ASSUME NEW w \in Tree
      PROVE  w \in listed' \/ Pends(Onward, w[1]) \/ (IsPrefix(Spot, w[1]) /\ Spot # w[1])
  <2>1. CASE w \in listed \/ Pends(Onward, w[1])
    BY <1>1, <2>1
  <2>2. CASE IsPrefix(Spot, w[1])
    <3>1. CASE Spot = w[1]
      <4>1. w[2] = Foremost /\ w = <<w[1], w[2]>>
        BY <1>3, <3>1, InTree DEF OneEntry
      <4> QED  BY <1>1, <3>1, <4>1 DEF y
    <3> QED  BY <2>2, <3>1
  <2> QED  BY <1>2, <1>3, <1>4, <2>1, <2>2 DEF Walked, Pends
<1>6. CASE IsDirEntry(Foremost)
  <2>1. Subnode(Foremost) \in Named /\ Subnode(Foremost) \in NodesAt(root, Spot)
    BY <1>4, <1>6, SubnodesNamed
  <2>2. Load(Onward, Spot, Subnode(Foremost))
    BY <1>6 DEF YieldEntry
  <2>3. \A w \in listed' : IsDirEntry(w[2]) =>
          Subnode(w[2]) \in intact \/ Subnode(w[2]) = Subnode(Foremost)
    BY <1>1, <1>2, <1>4 DEF Loaded
  <2>4. root \in intact /\ listed' \subseteq Tree
    BY <1>1, <1>2, <1>4 DEF Loaded
  <2> QED  BY <1>1, <1>2, <1>3, <1>5, <2>1, <2>2, <2>3, <2>4, LoadKeeps
<1>7. CASE ~IsDirEntry(Foremost)
  <2>1. trail' = Onward /\ walk' = "walk"
    BY <1>1, <1>7 DEF YieldEntry
  <2>2. /\ Tree' = Tree /\ intact' = intact /\ root' = root
        /\ \A fr : WalkFits(fr)' <=> WalkFits(fr)
    BY <1>1, TreePrime DEF scanVars
  <2>3. ASSUME NEW w \in Tree
        PROVE  w \in listed' \/ Pends(Onward, w[1])
    <3>1. CASE IsPrefix(Spot, w[1]) /\ Spot # w[1]
      <4>1. PICK n \in NodesAt(root, Spot) : TRUE
        BY <1>3, <3>1, TreeBelow
      <4>2. /\ Front(Spot) \in Seq(Nat) /\ Last(Spot) \in Nat
            /\ Spot = Append(Front(Spot), Last(Spot))
        BY <1>3, FrontLast
      <4> DEFINE f == Front(Spot)
                 l == Last(Spot)
      <4>3. n \in NodesAt(root, Append(f, l)) /\ f \in Seq(Nat) /\ l \in Nat /\ Spot = Append(f, l)
        BY <4>1, <4>2
      <4> HIDE DEF f, l
      <4>4. PICK e \in Recorded(Spot) : IsDirEntry(e)
        BY <4>3, EntryAt
      <4>5. e = Foremost
        BY <1>3, <4>4 DEF OneEntry
      <4> QED  BY <1>7, <4>4, <4>5
    <3> QED  BY <1>5, <3>1
  <2>4. Walked(listed, trail)'
    BY <2>1, <2>2, <2>3 DEF Walked, Pends
  <2>5. Loaded(listed)' /\ (listed \subseteq Tree)'
    BY <1>1, <1>2, <1>4, <1>7, <2>2 DEF Loaded
  <2>6. TrailFits(trail)' /\ Len(trail') > 0
    BY <1>3, <2>1, <2>2 DEF TrailFits
  <2> QED  BY <2>1, <2>4, <2>5, <2>6 DEF WalkSound
<1> QED  BY <1>6, <1>7

LEMMA LeaveNodeKeeps ==
  ASSUME WalkSound, LeaveNode
  PROVE  WalkSound'
<1>1. /\ walk = "walk" /\ Deepest.todo = {} /\ UNCHANGED <<scanVars, intact>> /\ listed' = listed
      /\ trail' = Front(trail) /\ walk' = IF Len(trail) = 1 THEN "done" ELSE "walk"
  BY DEF LeaveNode
<1>2. /\ TrailFits(trail) /\ Len(trail) > 0 /\ listed \subseteq Tree
      /\ Walked(listed, trail) /\ Loaded(listed)
  BY <1>1 DEF WalkSound
<1>3. /\ TrailFits(Front(trail)) /\ Len(trail) \in Nat /\ Len(Front(trail)) = Len(trail) - 1
      /\ Todo(trail) = Todo(Front(trail)) \cup Held(Deepest)
  BY <1>2, TrailPopped DEF Deepest
<1>4. Todo(trail) = Todo(Front(trail))
  BY <1>1, <1>3 DEF Held
<1>5. /\ Tree' = Tree /\ intact' = intact /\ root' = root
      /\ \A fr : WalkFits(fr)' <=> WalkFits(fr)
  BY <1>1, TreePrime DEF scanVars
<1>6. Walked(listed, trail)' /\ Loaded(listed)' /\ (listed \subseteq Tree)'
  BY <1>1, <1>2, <1>4, <1>5 DEF Walked, Loaded, Pends
<1>7. TrailFits(trail)'
  BY <1>1, <1>3, <1>5 DEF TrailFits
<1>8. CASE Len(trail) = 1
  <2>1. Len(Front(trail)) = 0
    BY <1>3, <1>8
  <2>2. Todo(Front(trail)) = {}
    BY <2>1 DEF Todo
  <2> QED  BY <1>1, <1>6, <1>7, <1>8, <2>2 DEF WalkSound, Todo
<1>9. CASE Len(trail) # 1
  <2>1. Len(Front(trail)) > 0
    BY <1>2, <1>3, <1>9
  <2> QED  BY <1>1, <1>6, <1>7, <1>9, <2>1 DEF WalkSound
<1> QED  BY <1>8, <1>9

LEMMA BeginWalkKeeps ==
  ASSUME ScanInv, restore' = "idle", trail = <<>>, listed = {}, BeginWalk
  PROVE  WalkInv'
<1>1. /\ UNCHANGED <<scanVars, trail, listed>> /\ scan = "done" /\ walk' = "begun"
      /\ intact' \subseteq chunks
  BY DEF BeginWalk
<1>2. source \in Sources /\ Known
  <2>1. root \in chunks /\ root[1] = "node" /\ NodesComplete(chunks) /\ \A id \in chunks : NodeSound(id)
    BY <1>1 DEF ScanInv, StoreSound
  <2> QED  BY <2>1 DEF ScanInv, ScanTypeOK, Known
<1>3. /\ Known' /\ source' \in Sources /\ scan' = "done" /\ intact' \subseteq chunks'
  BY <1>1, <1>2, TreePrime DEF scanVars
<1>4. TrailFits(trail)' /\ Len(trail') = 0
  <2>1. IsSeq(<<>>) /\ Len(<<>>) = 0
    BY DEF IsSeq
  <2> QED  BY <1>1, <2>1 DEF TrailFits
<1>5. WalkSound'
  BY <1>1, <1>4 DEF WalkSound
<1> QED  BY <1>3, <1>5 DEF WalkInv

(* The scan is over when a walk begins, and no restore takes from the      *)
(* store what the walk has begun with.                                     *)
LEMMA WalkKeeps ==
  ASSUME TreesInv, BooksKept, SkipsCounted, WalkInv, [Next]_vars
  PROVE  WalkInv'
<1>1. CASE walk = "idle" /\ UNCHANGED walkVars
  BY <1>1 DEF WalkInv, WalkSound, walkVars
<1>2. CASE ScanStep /\ UNCHANGED walkVars
  <2>1. scan # "done"
    BY <1>2
       DEF ScanStep, ListDir, PassExcluded, VisitFails, VisitSpecial, VisitLink, VisitDir,
           VisitFile, ScanChunk, ScanFails, EndFile, StoreNode, StoreNodeFails, PutRaises,
           NewChunk, EndDir, Visiting, Reached
  <2> QED  BY <1>1, <1>2, <2>1 DEF WalkInv
<1>3. CASE BeginWalk /\ restore = "idle" /\ UNCHANGED restoreVars
  <2>1. trail = <<>> /\ listed = {}
    BY <1>3 DEF BeginWalk, WalkInv, WalkSound
  <2>2. ScanInv /\ restore' = "idle"
    BY <1>3 DEF TreesInv, restoreVars
  <2> QED  BY <1>3, <2>1, <2>2, BeginWalkKeeps
<1>4. CASE (LoadRoot \/ YieldEntry \/ LeaveNode) /\ UNCHANGED restoreVars
  <2>1. walk # "idle" /\ UNCHANGED <<scanVars, intact>>
    BY <1>4 DEF LoadRoot, YieldEntry, LeaveNode
  <2>2. /\ scan = "done" /\ restore = "idle" /\ source \in Sources /\ Known
        /\ intact \subseteq chunks /\ WalkSound
    BY <2>1 DEF WalkInv
  <2>3. ScanHonest
    BY <2>2, BooksTell
  <2>4. OneNode /\ OneEntry
    BY <2>2, <2>3, TreeIsOne
  <2>5. WalkSound'
    BY <1>4, <2>2, <2>4, RootKeeps, YieldKeeps, LeaveNodeKeeps
  <2>6. /\ Known' /\ (scan = "done" /\ source \in Sources /\ intact \subseteq chunks)'
        /\ restore' = "idle"
    BY <1>4, <2>1, <2>2, TreePrime DEF scanVars, restoreVars
  <2> QED  BY <2>5, <2>6 DEF WalkInv
<1>5. CASE UNCHANGED vars
  <2>1. /\ UNCHANGED <<scanVars, intact>> /\ walk' = walk /\ trail' = trail /\ listed' = listed
        /\ restore' = restore
    BY <1>5 DEF vars, walkVars, restoreVars
  <2>2. CASE walk = "idle"
    BY <1>1, <1>5, <2>2 DEF vars
  <2>3. CASE walk # "idle"
    <3>1. /\ scan = "done" /\ restore = "idle" /\ source \in Sources /\ Known
          /\ intact \subseteq chunks /\ WalkSound
      BY <2>3 DEF WalkInv
    <3>2. /\ Tree' = Tree /\ Named' = Named /\ Known' /\ intact' = intact /\ root' = root
          /\ \A fr : WalkFits(fr)' <=> WalkFits(fr)
      BY <2>1, <3>1, TreePrime DEF scanVars
    <3>3. WalkSound'
      BY <2>1, <3>1, <3>2 DEF WalkSound, TrailFits, Walked, Loaded, Pends
    <3>4. (scan = "done" /\ restore = "idle" /\ source \in Sources /\ intact \subseteq chunks)'
      BY <2>1, <3>1 DEF scanVars
    <3> QED  BY <3>2, <3>3, <3>4 DEF WalkInv
  <2> QED  BY <2>2, <2>3
<1> QED  BY <1>1, <1>2, <1>3, <1>4, <1>5 DEF Next, WalkStep, Over

LEMMA WalkInvHolds == Spec => [](TreesInv /\ BooksKept /\ SkipsCounted /\ WalkInv)
<1>1. Init => WalkInv
  BY DEF Init, WalkInit, WalkInv
<1>2. TreesInv /\ BooksKept /\ SkipsCounted /\ WalkInv /\ [Next]_vars => WalkInv'
  BY WalkKeeps
<1> QED  BY <1>1, <1>2, TreesInvHolds, BooksHold, PTL DEF Spec

(* What the invariant says of a walk that is over.                         *)
LEMMA WalkEnd ==
  ASSUME WalkInv, BooksKept, SkipsCounted, walk \in {"done", "raised"}
  PROVE  /\ source \in Sources /\ OneEntry
         /\ walk = "done" => listed = Tree /\ Loaded(Tree)
         /\ walk = "raised" => ~(Named \subseteq intact)
<1>1. scan = "done" /\ source \in Sources /\ Known /\ WalkSound
  BY DEF WalkInv
<1>2. ScanHonest
  BY <1>1, BooksTell
<1>3. OneEntry
  BY <1>1, <1>2, TreeIsOne
<1>4. walk = "done" => listed = Tree /\ Loaded(Tree)
  <2> SUFFICES ASSUME walk = "done" PROVE listed = Tree /\ Loaded(Tree)
    OBVIOUS
  <2>1. listed \subseteq Tree /\ Walked(listed, trail) /\ Loaded(listed) /\ Todo(trail) = {}
    BY <1>1 DEF WalkSound
  <2>2. Tree \subseteq listed
    BY <2>1 DEF Walked, Pends
  <2> QED  BY <2>1, <2>2
<1> QED  BY <1>1, <1>3, <1>4 DEF WalkSound

(* A walk that ends has yielded what a restore finds by path, each entry   *)
(* at its path, and nothing else.                                          *)
THEOREM WalksListTrees == Spec => []WalkListsTree
<1>1. BooksKept /\ SkipsCounted /\ WalkInv => WalkListsTree
  BY WalkEnd DEF WalkListsTree
<1> QED  BY <1>1, WalkInvHolds, PTL

(* The mark phase keeps what a restore goes for and nothing else.          *)
THEOREM MarksAreExact == Spec => []MarkExact
<1>1. BooksKept /\ SkipsCounted /\ WalkInv => MarkExact
  BY WalkEnd DEF MarkExact, Marked, Named
<1> QED  BY <1>1, WalkInvHolds, PTL

(* A check of references is clean if and only if nothing that a restore    *)
(* goes for is lost.                                                       *)
THEOREM ChecksFindDamage == Spec => []CheckFindsDamage
<1>1. BooksKept /\ SkipsCounted /\ WalkInv => CheckFindsDamage
  <2> SUFFICES ASSUME WalkInv, BooksKept, SkipsCounted, walk \in {"done", "raised"}
               PROVE  CheckClean <=> Named \subseteq intact
    BY DEF CheckFindsDamage
  <2>1. CASE walk = "raised"
    BY <2>1, WalkEnd DEF CheckClean
  <2>2. CASE walk = "done"
    <3>1. listed = Tree /\ Loaded(Tree) /\ source \in Sources /\ OneEntry
      BY <2>2, WalkEnd
    <3>2. Referenced \subseteq Named
      BY <3>1 DEF Referenced, Named, IdsOf
    <3>3. ASSUME Referenced \subseteq intact
          PROVE  Named \subseteq intact
      <4> SUFFICES ASSUME NEW w \in Tree, NEW id \in Needs(w[2])
                   PROVE  id \in intact
        BY <3>1 DEF Named, IdsOf, Loaded
      <4>1. EntrySound(w[2])
        <5>1. w[1] \in Seq(Nat) \ {<<>>} /\ w[2] \in Recorded(w[1])
          BY <3>1, InTree
        <5> QED  BY <3>1, <5>1 DEF OneEntry
      <4>2. CASE w[2].type = "file"
        <5>1. w[2] \in {e \in {v[2] : v \in listed} : e.type = "file"}
          BY <3>1, <4>2
        <5> QED  BY <3>3, <5>1 DEF Referenced, IdsOf
      <4>3. CASE w[2].type = "dir"
        <5>1. Needs(w[2]) = {Subnode(w[2])} /\ IsDirEntry(w[2])
          BY <4>1, <4>3 DEF EntrySound, IsDirEntry
        <5> QED  BY <3>1, <5>1 DEF Loaded
      <4>4. CASE w[2].type = "link"
        BY <4>4 DEF Needs
      <4> QED  BY <4>1, <4>2, <4>3, <4>4 DEF EntrySound
    <3> QED  BY <2>2, <3>2, <3>3 DEF CheckClean
  <2> QED  BY <2>1, <2>2
<1> QED  BY <1>1, WalkInvHolds, PTL

(* Type correctness, of the scan and of the restore or the walk after it:  *)
(* a pending directory exists, what has been written of a file is a prefix *)
(* of what was recorded, and a walk is in some node.                       *)
THEOREM TreesTypeCorrect == Spec => []TreesTypeOK
<1>1. TreesInv /\ WalkInv => TreesTypeOK
  <2> SUFFICES ASSUME TreesInv, WalkInv PROVE TreesTypeOK
    OBVIOUS
  <2>0. /\ walk \in {"idle", "begun", "walk", "done", "raised"} /\ intact \subseteq chunks
        /\ walk # "idle" => scan = "done" /\ restore = "idle"
        /\ walk = "walk" => trail # <<>>
    <3>1. Len(<<>>) = 0
      OBVIOUS
    <3> QED  BY <3>1 DEF WalkInv, WalkSound
  <2>1. CASE restore = "idle"
    <3>1. ScanInv /\ NotBegun
      BY <2>1 DEF TreesInv
    <3>2. \A i \in DOMAIN stack :
            /\ stack[i].path \in Paths /\ stack[i].todo \subseteq Listing(stack[i].path)
            /\ {e.name : e \in stack[i].entries} \subseteq Listing(stack[i].path) \ stack[i].todo
      <4>1. IsSeq(stack) /\ \A i \in 1 .. Len(stack) : FrameSound(stack[i], chunks)
        BY <3>1 DEF ScanInv, StackSound
      <4>2. DOMAIN stack = 1 .. Len(stack)
        BY <4>1 DEF IsSeq
      <4> QED  BY <4>1, <4>2 DEF FrameSound
    <3>3. scan = "file" => IsPrefix(file, source[Here].data)
      BY <3>1 DEF ScanInv, FileSound
    <3>4. ScanTypeOK
      BY <3>1 DEF ScanInv
    <3>5. frames = <<>> /\ dirMeta = {} /\ errors \in 0 .. MaxRestoreFailures
      BY <3>1, RestoreAssumption DEF NotBegun
    <3> QED  BY <2>0, <2>1, <3>2, <3>3, <3>4, <3>5 DEF TreesTypeOK, ScanTypeOK
  <2>2. CASE restore # "idle"
    <3>1. RestoreTypeOK /\ TempSound /\ DueFits(dirMeta, disk)
      BY <2>2 DEF TreesInv, RestoreInv
    <3> QED  BY <2>0, <3>1 DEF TreesTypeOK, RestoreTypeOK, StackTyped, ScanTypeOK, TempSound, DueFits,
                   IsDir, Exists
  <2> QED  BY <2>1, <2>2
<1> QED  BY <1>1, WalkInvHolds, PTL
=============================================================================

--------------------------- MODULE ProcessesProofs ---------------------------
(***************************************************************************)
(* Proofs about the three programs of MCProcesses: the committed index is  *)
(* what one complete rebuild makes of what it collected, the provider      *)
(* worker gives every request it starts at most one outcome, and           *)
(* run_command returns exactly what its child and the child's descendants  *)
(* wrote, up to the limit; for any indexers, sources and documents, any    *)
(* requests, and any limit, read size, pipe size and output.               *)
(***************************************************************************)
EXTENDS Retrieval, ProviderWorker, ToolRunner, WellFoundedInduction, TLAPS

-----------------------------------------------------------------------------
(* sentia-retrieval *)

Docs == [path : STRING, body : STRING]
Founds == UNION {UNION {[D -> Docs] : D \in SUBSET (1..n)} : n \in Nat}
Rows == [source : STRING, label : STRING, body : STRING]
Tables == UNION {[P -> Rows] : P \in SUBSET STRING}
Collections == Seq([name : STRING, found : Founds])
Rebuilds == [pc : {"idle", "collect", "apply", "finish"}, sources : Seq(Entries), found : Founds,
             table : Tables, read : BOOLEAN, stale : BOOLEAN, collected : Collections]

\* The values of the rebuilds' variables; a source that is left was in a configuration.
RetrievalTypeOK ==
    /\ world \in Worlds /\ config \in Configs
    /\ index \in Tables /\ built \in Collections /\ writer \in Indexers \cup {NoOne}
    /\ tx \in [Indexers -> Rebuilds]
    /\ \A i \in Indexers : \A k \in 1..Len(tx[i].sources) : \A w \in Worlds :
          w[tx[i].sources[k].name].items \in Seq(Items)

Claims(c, k, p) == \E n \in DOMAIN c[k].found : c[k].found[n].path = p

\* The table t is what the first m sources of the collection c make of a table.
Exact(t, c, m) ==
    /\ \A k \in 1..m : \A n \in DOMAIN c[k].found : c[k].found[n].path \in DOMAIN t
    /\ \A p \in DOMAIN t :
        \/ \E k \in 1..m :
              /\ \A j \in 1..m : Claims(c, j, p) => j <= k
              /\ t[p].source = c[k].name
              /\ \E n \in DOMAIN c[k].found : c[k].found[n] = [path |-> p, body |-> t[p].body]
        \/ \A k \in 1..m : ~Claims(c, k, p) /\ c[k].name # t[p].source

\* How many of the collected sources were applied.
Upto(i) == Len(tx[i].collected) - (IF tx[i].pc = "apply" THEN 1 ELSE 0)

\* The sources of a rebuild that were collected and those that are left have different
\* names, but for the one that is collected and not applied yet.
NamesOK(i) ==
    /\ Valid(tx[i].sources) \/ tx[i].sources = <<>>
    /\ \A k \in 1..Len(tx[i].sources), j \in 1..Len(tx[i].collected) :
          tx[i].sources[k].name = tx[i].collected[j].name =>
              tx[i].pc = "apply" /\ k = 1 /\ j = Len(tx[i].collected)
    /\ tx[i].pc = "apply" =>
          /\ tx[i].sources # <<>> /\ tx[i].collected # <<>>
          /\ tx[i].collected[Len(tx[i].collected)] =
                 [name |-> Head(tx[i].sources).name, found |-> tx[i].found]

\* A rebuild before its first read has applied nothing and has something to apply; later
\* its table is exact, and it is the committed one unless the rebuild has written or
\* another one has committed.
TableOK(i) ==
    /\ tx[i].pc \in {"idle", "finish"} => ~tx[i].read
    /\ ~tx[i].read => Upto(i) = 0 /\ (tx[i].pc = "collect" => tx[i].sources # <<>>)
    /\ tx[i].read => Upto(i) > 0 /\ Exact(tx[i].table, tx[i].collected, Upto(i))
    /\ writer = i => tx[i].read
    /\ tx[i].read /\ ~tx[i].stale /\ writer # i => tx[i].table = index

RetrievalInv ==
    /\ RetrievalTypeOK
    /\ \A i \in Indexers : NamesOK(i) /\ TableOK(i)
    /\ Exact(index, built, Len(built))
    /\ built = <<>> => index = Empty

\* The library states well-founded induction with an operator as a parameter; its form
\* with a least element needs none.
LEMMA LeastNatural ==
    ASSUME NEW T, T \subseteq Nat, T # {}
    PROVE  \E n \in T : \A m \in T : n <= m
<1> DEFINE R == {p \in Nat \X Nat : p[1] < p[2]}
<1>1. IsWellFoundedOn(R, Nat)
  BY NatLessThanWellFounded DEF OpToRel
<1>2. PICK n \in T : \A m \in T : ~(<<m, n>> \in R)
  <2> HIDE DEF R
  <2> QED
    BY <1>1, WFMin
<1>3. ASSUME NEW m \in T, ~(n <= m) PROVE FALSE
  <2>1. m \in Nat /\ n \in Nat /\ m < n
    BY <1>3
  <2>2. <<m, n>> \in R
    BY <2>1
  <2> QED
    BY <1>2, <2>2
<1> QED
  BY <1>3

LEMMA HighestMember ==
    ASSUME NEW n \in Nat, NEW S \in SUBSET (1..n), S # {}
    PROVE  \E m \in S : \A k \in S : k <= m
<1> DEFINE T == {n - k : k \in S}
<1>1. T \subseteq Nat /\ T # {}
  <2>1. \A k \in S : n - k \in Nat
    OBVIOUS
  <2> QED
    BY <2>1
<1>2. PICK l \in T : \A x \in T : l <= x
  BY <1>1, LeastNatural
<1>3. PICK m \in S : l = n - m
  BY <1>2
<1>4. ASSUME NEW k \in S PROVE k <= m
  <2>1. n - k \in T
    OBVIOUS
  <2>2. n - m <= n - k
    BY <1>2, <1>3, <2>1
  <2> QED
    BY <2>2
<1> QED
  BY <1>4

LEMMA FoundFacts ==
    ASSUME NEW f \in Founds
    PROVE  /\ f \in [DOMAIN f -> Docs]
           /\ \E n \in Nat : DOMAIN f \in SUBSET (1..n)
           /\ \A n \in DOMAIN f : f[n] \in Docs
<1>1. PICK n \in Nat : f \in UNION {[D -> Docs] : D \in SUBSET (1..n)}
  BY DEF Founds
<1>2. PICK D \in SUBSET (1..n) : f \in [D -> Docs]
  BY <1>1
<1>3. DOMAIN f = D
  BY <1>2
<1> QED
  BY <1>2, <1>3

LEMMA InFounds ==
    ASSUME NEW n \in Nat, NEW D \in SUBSET (1..n), NEW f \in [D -> Docs]
    PROVE  f \in Founds
<1>1. f \in UNION {[E -> Docs] : E \in SUBSET (1..n)}
  OBVIOUS
<1> QED
  BY <1>1 DEF Founds

LEMMA TableFacts ==
    ASSUME NEW t \in Tables
    PROVE  /\ DOMAIN t \in SUBSET STRING /\ t \in [DOMAIN t -> Rows]
           /\ \A p \in DOMAIN t : t[p] \in Rows
           /\ t = [p \in DOMAIN t |-> t[p]]
  BY DEF Tables

\* What apply_source_documents makes of a table.
LEMMA AppliedFacts ==
    ASSUME NEW t \in Tables, NEW entry \in Entries, NEW found \in Founds,
           NEW u, u = Applied(t, entry, found)
    PROVE  /\ u \in Tables
           /\ \A p \in Paths(found) :
                 /\ p \in DOMAIN u /\ u[p].source = entry.name
                 /\ \E n \in DOMAIN found : found[n] = [path |-> p, body |-> u[p].body]
           /\ \A p : p \notin Paths(found) =>
                 /\ p \in DOMAIN u <=> p \in DOMAIN t /\ t[p].source # entry.name
                 /\ p \in DOMAIN u => u[p] = t[p]
           /\ ~Writes(t, entry, found) => u = t
<1> DEFINE existing == Existing(t, entry.name)
           changed == Changed(found, existing)
           Ups(p) == {n \in changed : found[n].path = p}
           Final(p) == CHOOSE n \in Ups(p) : \A m \in Ups(p) : m <= n
           gone == {p \in Stale(found, existing) : t[p].source = entry.name}
           New(p) == [source |-> entry.name, label |-> entry.label, body |-> found[Final(p)].body]
<1>1. u = [p \in (DOMAIN t \cup {found[n].path : n \in changed}) \ gone |->
              IF Ups(p) = {} THEN t[p] ELSE New(p)]
  BY DEF Applied
<1>2. /\ DOMAIN existing = {p \in DOMAIN t : t[p].source = entry.name}
      /\ \A p \in DOMAIN existing : existing[p] = t[p].body
  BY DEF Existing
<1>3. changed = {n \in DOMAIN found : \/ found[n].path \notin DOMAIN existing
                                      \/ existing[found[n].path] # found[n].body}
  BY DEF Changed
<1>4. gone = {p \in DOMAIN t : t[p].source = entry.name} \ Paths(found)
  BY <1>2 DEF Stale
<1> HIDE DEF existing, changed, gone
<1>5. \A n \in DOMAIN found : found[n] \in Docs /\ found[n].path \in Paths(found)
  BY FoundFacts DEF Paths
<1>6. ASSUME NEW p, Ups(p) # {}
      PROVE  /\ Final(p) \in DOMAIN found /\ found[Final(p)] \in Docs
             /\ found[Final(p)].path = p /\ p \in Paths(found)
  <2>1. PICK n \in Nat : DOMAIN found \in SUBSET (1..n)
    BY FoundFacts
  <2>2. Ups(p) \in SUBSET (1..n)
    BY <1>3, <2>1
  <2>3. \E k \in Ups(p) : \A m \in Ups(p) : m <= k
    BY <1>6, <2>2, HighestMember
  <2>4. Final(p) \in Ups(p)
    BY <2>3
  <2> HIDE DEF Final
  <2>5. Final(p) \in DOMAIN found /\ found[Final(p)].path = p
    BY <1>3, <2>4
  <2> QED
    BY <1>5, <2>5
<1>7. \A p : p \notin Paths(found) => Ups(p) = {}
  BY <1>6
<1>8. ASSUME NEW p \in Paths(found), Ups(p) = {}
      PROVE  /\ p \in DOMAIN t /\ t[p].source = entry.name
             /\ \E n \in DOMAIN found : found[n] = [path |-> p, body |-> t[p].body]
  <2>1. PICK n \in DOMAIN found : found[n].path = p
    BY DEF Paths
  <2>2. n \notin changed
    BY <1>8, <2>1
  <2>3. p \in DOMAIN existing /\ existing[p] = found[n].body
    BY <1>3, <2>1, <2>2
  <2>4. p \in DOMAIN t /\ t[p].source = entry.name /\ t[p].body = found[n].body
    BY <1>2, <2>3
  <2>5. found[n] = [path |-> p, body |-> t[p].body]
    BY <1>5, <2>1, <2>4 DEF Docs
  <2> QED
    BY <2>4, <2>5
<1>9. ASSUME NEW p \in DOMAIN u PROVE u[p] = IF Ups(p) = {} THEN t[p] ELSE New(p)
  BY <1>1
<1>10. DOMAIN u = (DOMAIN t \cup {found[n].path : n \in changed}) \ gone
  BY <1>1
<1> HIDE DEF Final
<1>11. ASSUME NEW p \in Paths(found)
       PROVE  /\ p \in DOMAIN u /\ u[p].source = entry.name
              /\ \E n \in DOMAIN found : found[n] = [path |-> p, body |-> u[p].body]
  <2>1. CASE Ups(p) = {}
    <3>1. p \in DOMAIN u /\ u[p] = t[p]
      BY <1>4, <1>8, <1>9, <1>10, <2>1
    <3> QED
      BY <1>8, <2>1, <3>1
  <2>2. CASE Ups(p) # {}
    <3>1. p \in {found[n].path : n \in changed} /\ p \notin gone
      BY <1>4, <2>2
    <3>2. p \in DOMAIN u /\ u[p] = New(p)
      BY <1>9, <1>10, <2>2, <3>1
    <3>3. found[Final(p)] = [path |-> p, body |-> found[Final(p)].body]
      BY <1>6, <2>2 DEF Docs
    <3> QED
      BY <1>6, <2>2, <3>2, <3>3
  <2> QED
    BY <2>1, <2>2
<1>12. ASSUME NEW p, p \notin Paths(found)
       PROVE  /\ p \in DOMAIN u <=> p \in DOMAIN t /\ t[p].source # entry.name
              /\ p \in DOMAIN u => u[p] = t[p]
  <2>1. p \notin {found[n].path : n \in changed}
    BY <1>3, <1>5, <1>12
  <2>2. p \in DOMAIN u <=> p \in DOMAIN t /\ p \notin gone
    BY <1>10, <2>1
  <2>3. p \in gone <=> p \in DOMAIN t /\ t[p].source = entry.name
    BY <1>4, <1>12
  <2>4. Ups(p) = {}
    BY <1>7, <1>12
  <2>5. p \in DOMAIN u => u[p] = t[p]
    BY <1>9, <2>4
  <2> QED
    BY <2>2, <2>3, <2>5
<1>13. u \in Tables
  <2>1. DOMAIN u \in SUBSET STRING
    <3>1. {found[n].path : n \in changed} \subseteq STRING
      BY <1>3, <1>5 DEF Docs
    <3> QED
      BY <1>10, <3>1, TableFacts
  <2>2. ASSUME NEW p \in DOMAIN u PROVE u[p] \in Rows
    <3>1. CASE Ups(p) = {}
      <4>1. p \in DOMAIN t
        BY <1>10, <3>1
      <4> QED
        BY <1>9, <3>1, <4>1, TableFacts
    <3>2. CASE Ups(p) # {}
      <4>1. found[Final(p)].body \in STRING /\ entry.name \in STRING /\ entry.label \in STRING
        BY <1>6, <3>2 DEF Docs, Entries
      <4> QED
        BY <1>9, <3>2, <4>1 DEF Rows
    <3> QED
      BY <3>1, <3>2
  <2>3. u \in [DOMAIN u -> Rows]
    BY <1>1, <2>2
  <2> QED
    BY <2>1, <2>3 DEF Tables
<1>14. ~Writes(t, entry, found) => u = t
  <2> HAVE ~Writes(t, entry, found)
  <2>1. changed = {} /\ Stale(found, existing) = {}
    BY DEF Writes, existing, changed
  <2>2. gone = {}
    BY <2>1 DEF gone
  <2>3. DOMAIN u = DOMAIN t /\ \A p \in DOMAIN t : u[p] = t[p]
    BY <1>9, <1>10, <2>1, <2>2
  <2>4. u = [p \in DOMAIN u |-> u[p]]
    BY <1>13, TableFacts
  <2> QED
    BY <2>3, <2>4, TableFacts
<1> QED
  BY <1>11, <1>12, <1>13, <1>14

LEMMA ExactApplied ==
    ASSUME NEW t \in Tables, NEW entry \in Entries, NEW found \in Founds,
           NEW u, u = Applied(t, entry, found),
           NEW c, NEW m \in Nat, c[m + 1] = [name |-> entry.name, found |-> found],
           \A j \in 1..m : c[j].name # entry.name,
           Exact(t, c, m)
    PROVE  Exact(u, c, m + 1)
<1>1. /\ \A p \in Paths(found) :
            /\ p \in DOMAIN u /\ u[p].source = entry.name
            /\ \E n \in DOMAIN found : found[n] = [path |-> p, body |-> u[p].body]
      /\ \A p : p \notin Paths(found) =>
            /\ p \in DOMAIN u <=> p \in DOMAIN t /\ t[p].source # entry.name
            /\ p \in DOMAIN u => u[p] = t[p]
  BY AppliedFacts
<1>2. /\ \A k \in 1..(m + 1) : k \in 1..m \/ k = m + 1
      /\ \A k \in 1..m : k \in 1..(m + 1) /\ k <= m + 1
      /\ m + 1 \in 1..(m + 1) /\ m + 1 <= m + 1
  OBVIOUS
<1>3. /\ c[m + 1].found = found /\ c[m + 1].name = entry.name
      /\ \A p : Claims(c, m + 1, p) <=> p \in Paths(found)
  BY DEF Claims, Paths
<1>4. ASSUME NEW k \in 1..(m + 1), NEW n \in DOMAIN c[k].found
      PROVE  c[k].found[n].path \in DOMAIN u
  <2>1. CASE k = m + 1
    BY <1>1, <1>3, <1>4, <2>1 DEF Paths
  <2>2. CASE k \in 1..m /\ c[k].found[n].path \notin Paths(found)
    <3>1. PICK p : p = c[k].found[n].path
      OBVIOUS
    <3>2. p \in DOMAIN t /\ Claims(c, k, p)
      BY <1>4, <2>2, <3>1 DEF Exact, Claims
    <3>3. \E j \in 1..m : t[p].source = c[j].name
      BY <2>2, <3>2 DEF Exact
    <3> QED
      BY <1>1, <2>2, <3>1, <3>2, <3>3
  <2>3. CASE c[k].found[n].path \in Paths(found)
    BY <1>1, <2>3
  <2> QED
    BY <1>2, <2>1, <2>2, <2>3
<1>5. ASSUME NEW p \in DOMAIN u
      PROVE  \/ \E k \in 1..(m + 1) :
                   /\ \A j \in 1..(m + 1) : Claims(c, j, p) => j <= k
                   /\ u[p].source = c[k].name
                   /\ \E n \in DOMAIN c[k].found :
                         c[k].found[n] = [path |-> p, body |-> u[p].body]
             \/ \A k \in 1..(m + 1) : ~Claims(c, k, p) /\ c[k].name # u[p].source
  <2>1. CASE p \in Paths(found)
    <3>1. \A j \in 1..(m + 1) : j <= m + 1
      BY <1>2
    <3>2. /\ u[p].source = c[m + 1].name
          /\ \E n \in DOMAIN c[m + 1].found :
                c[m + 1].found[n] = [path |-> p, body |-> u[p].body]
      BY <1>1, <1>3, <2>1
    <3> QED
      BY <1>2, <3>1, <3>2
  <2>2. CASE p \notin Paths(found)
    <3>1. p \in DOMAIN t /\ t[p].source # entry.name /\ u[p] = t[p] /\ ~Claims(c, m + 1, p)
      BY <1>1, <1>3, <1>5, <2>2
    <3>2. CASE \A k \in 1..m : ~Claims(c, k, p) /\ c[k].name # t[p].source
      BY <1>2, <1>3, <3>1, <3>2
    <3>3. ASSUME NEW k \in 1..m,
                 \A j \in 1..m : Claims(c, j, p) => j <= k,
                 t[p].source = c[k].name,
                 \E n \in DOMAIN c[k].found : c[k].found[n] = [path |-> p, body |-> t[p].body]
          PROVE  \E l \in 1..(m + 1) :
                    /\ \A j \in 1..(m + 1) : Claims(c, j, p) => j <= l
                    /\ u[p].source = c[l].name
                    /\ \E n \in DOMAIN c[l].found :
                          c[l].found[n] = [path |-> p, body |-> u[p].body]
      <4>1. k \in 1..(m + 1) /\ \A j \in 1..(m + 1) : Claims(c, j, p) => j <= k
        BY <1>2, <3>1, <3>3
      <4> QED
        BY <3>1, <3>3, <4>1
    <3> QED
      BY <3>1, <3>2, <3>3 DEF Exact
  <2> QED
    BY <2>1, <2>2
<1> QED
  BY <1>4, <1>5 DEF Exact

\* The first m sources are all that Exact looks at.
LEMMA ExactPrefix ==
    ASSUME NEW t, NEW c, NEW d, NEW m \in Nat, \A k \in 1..m : d[k] = c[k], Exact(t, c, m)
    PROVE  Exact(t, d, m)
<1>1. \A p : \A k \in 1..m : Claims(d, k, p) <=> Claims(c, k, p)
  BY DEF Claims
<1> QED
  BY <1>1 DEF Exact

\* What the walk of a source collects.
LEMMA CollectFacts ==
    ASSUME RetrievalTypeOK, NEW entry \in Entries, NEW spent,
           \A w \in Worlds : w[entry.name].items \in Seq(Items)
    PROVE  Collect(entry, spent).found \in Founds
<1>1. PICK items : items = Candidates(entry)
  OBVIOUS
<1>2. items \in Seq(Items)
  <2>1. world[entry.name].items \in Seq(Items)
    BY DEF RetrievalTypeOK
  <2> QED
    BY <1>1, <2>1 DEF Candidates, Packages
<1>3. PICK D : D = {k \in 1..Len(items) : Takes(entry, items[k], Budgets(entry, spent)[k - 1])}
  OBVIOUS
<1>4. Collect(entry, spent).found = [n \in D |-> [path |-> items[n].path, body |-> items[n].body]]
  BY <1>1, <1>3 DEF Collect
<1>5. Len(items) \in Nat /\ D \in SUBSET (1..Len(items))
  BY <1>2, <1>3
<1>6. ASSUME NEW n \in D PROVE [path |-> items[n].path, body |-> items[n].body] \in Docs
  <2>1. items[n] \in Items
    BY <1>2, <1>5
  <2> QED
    BY <2>1 DEF Items, Docs
<1>7. [n \in D |-> [path |-> items[n].path, body |-> items[n].body]] \in [D -> Docs]
  BY <1>6
<1> QED
  BY <1>4, <1>5, <1>7, InFounds

LEMMA EmptyTable == Empty \in Tables /\ <<>> \in Founds
<1>1. Empty \in [{} -> Rows]
  BY DEF Empty
<1>2. <<>> \in [{} -> Docs]
  OBVIOUS
<1>3. {} \in SUBSET (1..0) /\ {} \in SUBSET STRING
  OBVIOUS
<1>4. <<>> \in Founds
  BY <1>2, <1>3, InFounds
<1> QED
  BY <1>1, <1>3, <1>4 DEF Tables

LEMMA IdleFacts ==
    /\ Idle \in Rebuilds
    /\ Idle.pc = "idle" /\ Idle.sources = <<>> /\ Idle.collected = <<>> /\ Idle.read = FALSE
<1>1. <<>> \in Seq(Entries) /\ <<>> \in Collections
  BY DEF Collections
<1> QED
  BY <1>1, EmptyTable DEF Idle, Rebuilds

LEMMA RetrievalInitInv == RetrievalInit => RetrievalInv
<1> SUFFICES ASSUME RetrievalInit PROVE RetrievalInv
  OBVIOUS
<1>1. /\ world \in Worlds /\ config \in Configs /\ index = Empty /\ writer = NoOne
      /\ tx = [i \in Indexers |-> Idle] /\ built = <<>> /\ Len(built) = 0
  BY DEF RetrievalInit
<1>2. ASSUME NEW i \in Indexers
      PROVE  /\ tx[i].pc = "idle" /\ tx[i].sources = <<>> /\ tx[i].collected = <<>>
             /\ tx[i].read = FALSE /\ Len(tx[i].sources) = 0 /\ Len(tx[i].collected) = 0
  BY <1>1, IdleFacts
<1>3. RetrievalTypeOK
  BY <1>1, <1>2, IdleFacts, EmptyTable DEF RetrievalTypeOK, Collections
<1>4. ASSUME NEW i \in Indexers PROVE NamesOK(i) /\ TableOK(i)
  <2>1. writer # i
    BY <1>1, RetrievalAssumption DEF NoOne
  <2>0. tx[i].pc = "idle" /\ Len(tx[i].sources) = 0 /\ Len(tx[i].collected) = 0
    BY <1>2
  <2>2. Upto(i) = 0
    BY <2>0 DEF Upto
  <2>3. TableOK(i)
    BY <1>2, <2>1, <2>2 DEF TableOK
  <2>4. \A k \in 1..Len(tx[i].sources) : FALSE
    BY <2>0
  <2>5. NamesOK(i)
    BY <1>2, <2>4 DEF NamesOK
  <2> QED
    BY <2>3, <2>5
<1>5. Exact(index, built, Len(built))
  BY <1>1 DEF Exact
<1> QED
  BY <1>1, <1>3, <1>4, <1>5 DEF RetrievalInv

\* An indexer that a step leaves alone.
LEMMA OthersKept ==
    ASSUME NEW j \in Indexers, NamesOK(j), TableOK(j), tx'[j] = tx[j], index' = index,
           (writer' = j) = (writer = j)
    PROVE  NamesOK(j)' /\ TableOK(j)'
<1>1. NamesOK(j)'
  BY DEF NamesOK
<1>2. Upto(j)' = Upto(j)
  BY DEF Upto
<1>3. TableOK(j)'
  BY <1>2 DEF TableOK
<1> QED
  BY <1>1, <1>3

\* A rebuild that is over.
LEMMA OverFacts ==
    ASSUME NEW i \in Indexers, tx'[i] \in {Idle, [Idle EXCEPT !.pc = "finish"]}, writer' # i
    PROVE  /\ tx'[i] \in Rebuilds /\ NamesOK(i)' /\ TableOK(i)'
           /\ \A k \in 1..Len(tx'[i].sources) : FALSE
<1>1. /\ tx'[i] \in Rebuilds /\ tx'[i].pc \in {"idle", "finish"}
      /\ tx'[i].sources = <<>> /\ tx'[i].collected = <<>> /\ tx'[i].read = FALSE
  BY IdleFacts DEF Rebuilds
<1>2. Len(tx'[i].sources) = 0 /\ Len(tx'[i].collected) = 0
  BY <1>1
<1>3. \A k \in 1..Len(tx'[i].sources) : FALSE
  BY <1>2
<1>4. Upto(i)' = 0
  BY <1>1, <1>2 DEF Upto
<1>5. NamesOK(i)'
  BY <1>1, <1>3 DEF NamesOK
<1>6. TableOK(i)'
  BY <1>1, <1>4 DEF TableOK
<1> QED
  BY <1>1, <1>3, <1>5, <1>6

\* Only the rebuild of i changes, and not what is committed.
LEMMA OneRebuild ==
    ASSUME RetrievalInv, NEW i \in Indexers, tx' = [tx EXCEPT ![i] = tx'[i]],
           tx'[i] \in Rebuilds, NamesOK(i)', TableOK(i)',
           \A k \in 1..Len(tx'[i].sources) : \A w \in Worlds :
              w[tx'[i].sources[k].name].items \in Seq(Items),
           UNCHANGED <<world, config, index, built>>, writer' \in Indexers \cup {NoOne},
           \A j \in Indexers \ {i} : (writer' = j) = (writer = j)
    PROVE  RetrievalInv'
<1>1. tx \in [Indexers -> Rebuilds] /\ \A j \in Indexers \ {i} : tx'[j] = tx[j]
  BY DEF RetrievalInv, RetrievalTypeOK
<1>2. tx' \in [Indexers -> Rebuilds]
  BY <1>1
<1>3. RetrievalTypeOK'
  BY <1>1, <1>2 DEF RetrievalInv, RetrievalTypeOK
<1>4. ASSUME NEW j \in Indexers PROVE NamesOK(j)' /\ TableOK(j)'
  BY <1>1, OthersKept DEF RetrievalInv
<1> QED
  BY <1>3, <1>4 DEF RetrievalInv

LEMMA BeginStep ==
    ASSUME RetrievalInv, NEW i \in Indexers, Begin(i)
    PROVE  RetrievalInv'
<1>1. /\ Valid(config) /\ writer = NoOne /\ UNCHANGED <<world, config, index, built, writer>>
      /\ tx' = [tx EXCEPT ![i] = [Idle EXCEPT !.pc = "collect", !.sources = config]]
  BY DEF Begin
<1>2. DOMAIN tx = Indexers /\ config \in Configs /\ config \in Seq(Entries)
  BY RetrievalAssumption DEF RetrievalInv, RetrievalTypeOK
<1>3. tx'[i] = [Idle EXCEPT !.pc = "collect", !.sources = config]
  BY <1>1, <1>2
<1>4. /\ tx'[i] \in Rebuilds /\ tx'[i].pc = "collect" /\ tx'[i].sources = config
      /\ tx'[i].collected = <<>> /\ tx'[i].read = FALSE
  BY <1>2, <1>3, IdleFacts DEF Rebuilds
<1>5. Len(tx'[i].collected) = 0
  BY <1>4
<1>6. \A j \in 1..Len(tx'[i].collected) : FALSE
  BY <1>5
<1>7. NamesOK(i)'
  BY <1>1, <1>4, <1>6 DEF NamesOK, Valid
<1>8. Upto(i)' = 0
  BY <1>4, <1>5 DEF Upto
<1>9. writer' # i
  BY <1>1, RetrievalAssumption DEF NoOne
<1>10. TableOK(i)'
  BY <1>1, <1>4, <1>8, <1>9 DEF TableOK, Valid
<1>11. \A k \in 1..Len(tx'[i].sources) : \A w \in Worlds :
          w[tx'[i].sources[k].name].items \in Seq(Items)
  BY <1>2, <1>4, RetrievalAssumption
<1>12. tx' = [tx EXCEPT ![i] = tx'[i]]
  BY <1>1, <1>3
<1> QED
  BY <1>1, <1>4, <1>7, <1>10, <1>11, <1>12, OneRebuild DEF RetrievalInv, RetrievalTypeOK

LEMMA CollectStep ==
    ASSUME RetrievalInv, NEW i \in Indexers, CollectSource(i)
    PROVE  RetrievalInv'
<1> PICK s : s = tx[i].sources
  OBVIOUS
<1> PICK c : c = tx[i].collected
  OBVIOUS
<1> PICK f : f = Collect(Head(s), budget[i]).found
  OBVIOUS
<1> PICK x : x = [name |-> Head(s).name, found |-> f]
  OBVIOUS
<1>1. /\ tx[i].pc = "collect" /\ s # <<>>
      /\ UNCHANGED <<world, config, index, built, writer>>
      /\ tx' = [tx EXCEPT ![i].pc = "apply", ![i].found = f, ![i].collected = Append(@, x)]
  BY DEF CollectSource
<1>2. /\ tx \in [Indexers -> Rebuilds] /\ tx[i] \in Rebuilds
      /\ s \in Seq(Entries) /\ c \in Collections /\ NamesOK(i) /\ TableOK(i)
  BY DEF RetrievalInv, RetrievalTypeOK, Rebuilds
<1>3. /\ Head(s) \in Entries /\ Head(s) = s[1] /\ 1 \in 1..Len(s) /\ Len(s) \in Nat
  BY <1>1, <1>2
<1>4. f \in Founds
  <2>1. \A w \in Worlds : w[Head(s).name].items \in Seq(Items)
    BY <1>3 DEF RetrievalInv, RetrievalTypeOK
  <2> QED
    BY <1>3, <2>1, CollectFacts DEF RetrievalInv
<1>5. x \in [name : STRING, found : Founds]
  BY <1>3, <1>4 DEF Entries
<1>6. PICK d : d = Append(c, x)
  OBVIOUS
<1>7. /\ d \in Collections /\ Len(c) \in Nat /\ Len(d) = Len(c) + 1 /\ d # <<>>
      /\ d[Len(c) + 1] = x /\ \A k \in 1..Len(c) : d[k] = c[k]
  BY <1>2, <1>5, <1>6 DEF Collections
<1>8. tx'[i] = [tx[i] EXCEPT !.pc = "apply", !.found = f, !.collected = d]
  BY <1>1, <1>2, <1>6
<1>9. /\ tx'[i] \in Rebuilds /\ tx'[i].pc = "apply" /\ tx'[i].found = f
      /\ tx'[i].collected = d /\ tx'[i].sources = s /\ tx'[i].read = tx[i].read
      /\ tx'[i].stale = tx[i].stale /\ tx'[i].table = tx[i].table
  BY <1>2, <1>4, <1>7, <1>8 DEF Rebuilds
<1>10. Upto(i)' = Len(c) /\ Upto(i) = Len(c)
  <2>1. Upto(i)' = Len(d) - 1
    BY <1>9 DEF Upto
  <2>2. Upto(i) = Len(c)
    BY <1>1, <1>7 DEF Upto
  <2> QED
    BY <1>7, <2>1, <2>2
<1>11. NamesOK(i)'
  <2>1. Valid(s)
    BY <1>1, <1>2 DEF NamesOK
  <2>2. ASSUME NEW k \in 1..Len(s), NEW j \in 1..Len(d), s[k].name = d[j].name
        PROVE  k = 1 /\ j = Len(d)
    <3>1. CASE j \in 1..Len(c)
      <4>1. s[k].name = c[j].name
        BY <1>7, <2>2, <3>1
      <4> QED
        BY <1>1, <1>2, <3>1, <4>1 DEF NamesOK
    <3>2. CASE j = Len(c) + 1
      <4>1. s[k].name = s[1].name
        BY <1>3, <1>7, <2>2, <3>2
      <4>2. k \in DOMAIN s /\ 1 \in DOMAIN s
        BY <1>2, <1>3
      <4> QED
        BY <1>7, <2>1, <3>2, <4>1, <4>2 DEF Valid
    <3> QED
      BY <1>7, <3>1, <3>2, SMTT(30)
  <2>3. d[Len(d)] = [name |-> Head(s).name, found |-> f]
    BY <1>7
  <2>4. Valid(tx[i].sources)'
    BY <1>9, <2>1 DEF Valid
  <2>5. (\A k \in 1..Len(tx[i].sources), j \in 1..Len(tx[i].collected) :
            tx[i].sources[k].name = tx[i].collected[j].name =>
                tx[i].pc = "apply" /\ k = 1 /\ j = Len(tx[i].collected))'
    BY <1>9, <2>2
  <2>6. (tx[i].pc = "apply" =>
            /\ tx[i].sources # <<>> /\ tx[i].collected # <<>>
            /\ tx[i].collected[Len(tx[i].collected)] =
                   [name |-> Head(tx[i].sources).name, found |-> tx[i].found])'
    BY <1>1, <1>7, <1>9, <2>3
  <2> QED
    BY <2>4, <2>5, <2>6 DEF NamesOK
<1>12. TableOK(i)'
  <2>1. tx[i].read => Exact(tx[i].table, d, Len(c))
    BY <1>2, <1>7, <1>10, ExactPrefix DEF TableOK
  <2>2. (tx[i].read => Exact(tx[i].table, tx[i].collected, Upto(i)))'
    BY <1>9, <1>10, <2>1
  <2> QED
    BY <1>1, <1>2, <1>9, <1>10, <2>2 DEF TableOK
<1>13. tx' = [tx EXCEPT ![i] = tx'[i]]
  BY <1>1, <1>2, <1>6, <1>8
<1>14. \A k \in 1..Len(tx'[i].sources) : \A w \in Worlds :
          w[tx'[i].sources[k].name].items \in Seq(Items)
  BY <1>9 DEF RetrievalInv, RetrievalTypeOK
<1> QED
  BY <1>1, <1>9, <1>11, <1>12, <1>13, <1>14, OneRebuild DEF RetrievalInv, RetrievalTypeOK

LEMMA ApplyStep ==
    ASSUME RetrievalInv, NEW i \in Indexers, ApplySource(i)
    PROVE  RetrievalInv'
<1>0. PICK s, c, f, t, u :
         /\ s = tx[i].sources /\ c = tx[i].collected /\ f = tx[i].found /\ t = Table(i)
         /\ u = Applied(t, Head(s), f)
  OBVIOUS
<1>1. /\ tx[i].pc = "apply" /\ UNCHANGED <<world, config, index, built>>
      /\ Writes(t, Head(s), f) => MayWrite(i)
      /\ writer' = IF Writes(t, Head(s), f) THEN i ELSE writer
      /\ tx' = [tx EXCEPT ![i].pc = "collect", ![i].sources = Tail(@), ![i].found = <<>>,
                          ![i].read = TRUE, ![i].table = u]
  BY <1>0 DEF ApplySource
<1>2. /\ tx \in [Indexers -> Rebuilds] /\ tx[i] \in Rebuilds /\ s \in Seq(Entries)
      /\ c \in Collections /\ f \in Founds /\ t \in Tables /\ NamesOK(i) /\ TableOK(i)
  BY <1>0 DEF RetrievalInv, RetrievalTypeOK, Rebuilds, Table
<1>3. s # <<>> /\ c # <<>> /\ c[Len(c)] = [name |-> Head(s).name, found |-> f]
  BY <1>0, <1>1, <1>2 DEF NamesOK
<1>4. /\ Head(s) \in Entries /\ Head(s) = s[1] /\ 1 \in 1..Len(s) /\ Len(s) \in Nat
      /\ Tail(s) \in Seq(Entries) /\ Len(Tail(s)) = Len(s) - 1
      /\ \A k \in 1..Len(Tail(s)) : k + 1 \in 1..Len(s) /\ Tail(s)[k] = s[k + 1]
  BY <1>2, <1>3
<1>5. PICK m \in Nat : Len(c) = m + 1
  <2>1. Len(c) \in Nat /\ Len(c) # 0
    BY <1>2, <1>3 DEF Collections
  <2>2. Len(c) - 1 \in Nat /\ Len(c) = (Len(c) - 1) + 1
    BY <2>1
  <2> QED
    BY <2>2
<1>6. Upto(i) = m
  BY <1>0, <1>1, <1>5 DEF Upto
<1>7. u \in Tables /\ (~Writes(t, Head(s), f) => u = t)
  BY <1>0, <1>2, <1>4, AppliedFacts
<1>8. tx'[i] = [tx[i] EXCEPT !.pc = "collect", !.sources = Tail(s), !.found = <<>>,
                             !.read = TRUE, !.table = u]
  BY <1>0, <1>1, <1>2
<1>9. /\ tx'[i] \in Rebuilds /\ tx'[i].pc = "collect" /\ tx'[i].sources = Tail(s)
      /\ tx'[i].collected = c /\ tx'[i].read = TRUE /\ tx'[i].stale = tx[i].stale
      /\ tx'[i].table = u
  BY <1>0, <1>2, <1>4, <1>7, <1>8, EmptyTable DEF Rebuilds
<1>10. Upto(i)' = m + 1
  BY <1>5, <1>9 DEF Upto
<1>11. NamesOK(i)'
  <2>1. \A k \in 1..Len(s), j \in 1..Len(c) : s[k].name = c[j].name => k = 1
    BY <1>0, <1>2 DEF NamesOK
  <2>2. \A k \in 1..Len(Tail(s)), j \in 1..Len(c) : Tail(s)[k].name # c[j].name
    BY <1>4, <2>1
  <2>3. Valid(s)
    BY <1>0, <1>2, <1>3 DEF NamesOK
  <2>4. \A j, k \in 1..Len(Tail(s)) : j # k => Tail(s)[j].name # Tail(s)[k].name
    <3>1. \A j, k \in 1..Len(s) : j # k => s[j].name # s[k].name
      BY <1>2, <2>3 DEF Valid
    <3> QED
      BY <1>4, <3>1
  <2>5. DOMAIN Tail(s) = 1..Len(Tail(s))
    BY <1>4
  <2>6. Valid(Tail(s)) \/ Tail(s) = <<>>
    BY <2>4, <2>5 DEF Valid
  <2>7. (Valid(tx[i].sources) \/ tx[i].sources = <<>>)'
    BY <1>9, <2>6 DEF Valid
  <2>8. (\A k \in 1..Len(tx[i].sources), j \in 1..Len(tx[i].collected) :
            tx[i].sources[k].name = tx[i].collected[j].name =>
                tx[i].pc = "apply" /\ k = 1 /\ j = Len(tx[i].collected))'
    BY <1>9, <2>2
  <2> QED
    BY <1>9, <2>7, <2>8 DEF NamesOK
<1>12. Exact(u, c, m + 1)
  <2>1. Exact(t, c, m)
    <3>1. CASE tx[i].read
      BY <1>0, <1>2, <1>6, <3>1 DEF TableOK, Table
    <3>2. CASE ~tx[i].read
      <4>1. m = 0
        BY <1>2, <1>6, <3>2 DEF TableOK
      <4> QED
        BY <4>1 DEF Exact
    <3> QED
      BY <3>1, <3>2
  <2>2. ASSUME NEW j \in 1..m PROVE c[j].name # Head(s).name
    <3>1. j \in 1..Len(c) /\ j # Len(c)
      BY <1>5
    <3>2. s[1].name # c[j].name
      BY <1>0, <1>2, <1>4, <3>1 DEF NamesOK
    <3> QED
      BY <1>4, <3>2
  <2>3. c[m + 1] = [name |-> Head(s).name, found |-> f]
    BY <1>3, <1>5
  <2> QED
    BY <1>0, <1>2, <1>4, <2>1, <2>2, <2>3, ExactApplied
<1>13. TableOK(i)'
  <2>1. (tx[i].read => Upto(i) > 0 /\ Exact(tx[i].table, tx[i].collected, Upto(i)))'
    BY <1>9, <1>10, <1>12
  <2>2. (tx[i].read /\ ~tx[i].stale /\ writer # i => tx[i].table = index)'
    <3>1. CASE Writes(t, Head(s), f)
      BY <1>1, <3>1
    <3>2. CASE ~Writes(t, Head(s), f)
      <4>1. writer' = writer /\ u = t
        BY <1>1, <1>7, <3>2
      <4>2. ~tx[i].stale /\ writer # i => t = index
        BY <1>0, <1>2 DEF TableOK, Table
      <4> QED
        BY <1>1, <1>9, <4>1, <4>2
    <3> QED
      BY <3>1, <3>2
  <2> QED
    BY <1>9, <2>1, <2>2 DEF TableOK
<1>14. tx' = [tx EXCEPT ![i] = tx'[i]]
  BY <1>0, <1>1, <1>2, <1>8
<1>15. \A k \in 1..Len(tx'[i].sources) : \A w \in Worlds :
          w[tx'[i].sources[k].name].items \in Seq(Items)
  BY <1>0, <1>4, <1>9 DEF RetrievalInv, RetrievalTypeOK
<1>16. /\ writer' \in Indexers \cup {NoOne}
       /\ \A j \in Indexers \ {i} : (writer' = j) = (writer = j)
  <2>1. writer \in Indexers \cup {NoOne} /\ NoOne \notin Indexers
    BY RetrievalAssumption DEF RetrievalInv, RetrievalTypeOK, NoOne
  <2>2. CASE Writes(t, Head(s), f)
    <3>1. writer' = i /\ writer \in {i, NoOne}
      BY <1>1, <2>2 DEF MayWrite
    <3> QED
      BY <2>1, <3>1
  <2>3. CASE ~Writes(t, Head(s), f)
    BY <1>1, <2>1, <2>3
  <2> QED
    BY <2>2, <2>3
<1> QED
  BY <1>1, <1>9, <1>11, <1>13, <1>14, <1>15, <1>16, OneRebuild

\* The end of a rebuild that commits nothing: refused, secured or killed.
LEMMA ResetStep ==
    ASSUME RetrievalInv, NEW i \in Indexers, ApplyFails(i) \/ Secure(i) \/ Kill(i)
    PROVE  RetrievalInv'
<1>1. /\ tx' = [tx EXCEPT ![i] = Idle] /\ UNCHANGED <<world, config, index, built>>
  BY DEF ApplyFails, Secure, Kill, Reset
<1>2. /\ tx \in [Indexers -> Rebuilds] /\ TableOK(i) /\ writer \in Indexers \cup {NoOne}
      /\ NoOne \notin Indexers
  BY RetrievalAssumption DEF RetrievalInv, RetrievalTypeOK, NoOne
<1>3. tx'[i] = Idle
  BY <1>1, <1>2
<1>4. /\ writer' # i /\ writer' \in Indexers \cup {NoOne}
      /\ \A j \in Indexers \ {i} : (writer' = j) = (writer = j)
  <2>1. CASE ApplyFails(i)
    BY <1>2, <2>1 DEF ApplyFails, MayWrite
  <2>2. CASE Secure(i)
    BY <1>2, <2>2 DEF Secure, TableOK
  <2>3. CASE Kill(i)
    BY <1>2, <2>3 DEF Kill
  <2> QED
    BY <2>1, <2>2, <2>3
<1>5. /\ tx'[i] \in Rebuilds /\ NamesOK(i)' /\ TableOK(i)'
      /\ \A k \in 1..Len(tx'[i].sources) : FALSE
  BY <1>3, <1>4, OverFacts
<1>6. tx' = [tx EXCEPT ![i] = tx'[i]]
  BY <1>1, <1>3
<1> QED
  BY <1>1, <1>4, <1>5, <1>6, OneRebuild

LEMMA CommitStep ==
    ASSUME RetrievalInv, NEW i \in Indexers, Commit(i)
    PROVE  RetrievalInv'
<1>1. /\ tx[i].pc = "collect" /\ tx[i].sources = <<>> /\ UNCHANGED <<world, config>>
      /\ index' = IF writer = i THEN tx[i].table ELSE index
      /\ built' = IF writer = i \/ ~tx[i].stale THEN tx[i].collected ELSE built
      /\ writer' = IF writer = i THEN NoOne ELSE writer
  BY DEF Commit
<1>2. /\ tx \in [Indexers -> Rebuilds] /\ tx[i] \in Rebuilds /\ TableOK(i)
      /\ writer \in Indexers \cup {NoOne} /\ NoOne \notin Indexers
      /\ tx[i].table \in Tables /\ tx[i].collected \in Collections
      /\ index \in Tables /\ built \in Collections
  BY RetrievalAssumption DEF RetrievalInv, RetrievalTypeOK, NoOne, Rebuilds
<1>3. tx[i].read /\ Len(tx[i].collected) > 0 /\ tx[i].collected # <<>>
      /\ Exact(tx[i].table, tx[i].collected, Len(tx[i].collected))
  <2>1. tx[i].read
    BY <1>1, <1>2 DEF TableOK
  <2>2. Upto(i) = Len(tx[i].collected)
    BY <1>1, <1>2 DEF Upto, Collections
  <2>3. Len(tx[i].collected) > 0 /\ Exact(tx[i].table, tx[i].collected, Len(tx[i].collected))
    BY <1>2, <2>1, <2>2 DEF TableOK
  <2> QED
    BY <2>1, <2>3
<1>4. /\ index' \in Tables /\ built' \in Collections
      /\ Exact(index, built, Len(built))'
      /\ (built = <<>> => index = Empty)'
  <2>1. CASE writer = i
    BY <1>1, <1>2, <1>3, <2>1
  <2>2. CASE writer # i /\ ~tx[i].stale
    <3>1. index' = tx[i].table /\ built' = tx[i].collected
      BY <1>1, <1>2, <1>3, <2>2 DEF TableOK
    <3> QED
      BY <1>2, <1>3, <3>1
  <2>3. CASE writer # i /\ tx[i].stale
    <3>1. index' = index /\ built' = built
      BY <1>1, <2>3
    <3> QED
      BY <1>2, <3>1 DEF RetrievalInv
  <2> QED
    BY <2>1, <2>2, <2>3
<1>5. tx'[i] = [Idle EXCEPT !.pc = "finish"]
  BY DEF Commit
<1>6. writer' # i /\ writer' \in Indexers \cup {NoOne}
  BY <1>1, <1>2
<1>7. /\ tx'[i] \in Rebuilds /\ NamesOK(i)' /\ TableOK(i)'
      /\ \A k \in 1..Len(tx'[i].sources) : FALSE
  BY <1>5, <1>6, OverFacts
<1>8. ASSUME NEW j \in Indexers, j # i
      PROVE  /\ tx'[j] \in Rebuilds /\ NamesOK(j)' /\ TableOK(j)'
             /\ tx'[j].sources = tx[j].sources
  <2>1. tx[j] \in Rebuilds /\ NamesOK(j) /\ TableOK(j)
    BY <1>2 DEF RetrievalInv
  <2>2. tx'[j] = IF writer = i /\ tx[j].read THEN [tx[j] EXCEPT !.stale = TRUE] ELSE tx[j]
    BY <1>8 DEF Commit
  <2>3. CASE writer = i /\ tx[j].read
    <3>1. /\ tx'[j] \in Rebuilds /\ tx'[j].pc = tx[j].pc /\ tx'[j].sources = tx[j].sources
          /\ tx'[j].found = tx[j].found /\ tx'[j].table = tx[j].table
          /\ tx'[j].read = tx[j].read /\ tx'[j].stale = TRUE
          /\ tx'[j].collected = tx[j].collected
      BY <2>1, <2>2, <2>3 DEF Rebuilds
    <3>2. NamesOK(j)'
      BY <2>1, <3>1 DEF NamesOK
    <3>3. Upto(j)' = Upto(j)
      BY <3>1 DEF Upto
    <3>4. writer' # j
      BY <1>1, <1>2, <2>3
    <3>5. TableOK(j)'
      BY <2>1, <3>1, <3>3, <3>4 DEF TableOK
    <3> QED
      BY <3>1, <3>2, <3>5
  <2>4. CASE writer = i /\ ~tx[j].read
    <3>1. tx'[j] = tx[j] /\ writer' # j
      BY <1>1, <1>2, <2>2, <2>4
    <3>2. NamesOK(j)'
      BY <2>1, <3>1 DEF NamesOK
    <3>3. Upto(j)' = Upto(j)
      BY <3>1 DEF Upto
    <3>4. TableOK(j)'
      BY <2>1, <2>4, <3>1, <3>3 DEF TableOK
    <3> QED
      BY <2>1, <3>1, <3>2, <3>4
  <2>5. CASE writer # i
    <3>1. tx'[j] = tx[j] /\ writer' = writer /\ index' = index
      BY <1>1, <2>2, <2>5
    <3> QED
      BY <2>1, <3>1, OthersKept
  <2> QED
    BY <2>3, <2>4, <2>5
<1>9. tx' \in [Indexers -> Rebuilds]
  <2>1. DOMAIN tx' = Indexers /\ tx' = [j \in Indexers |-> tx'[j]]
    BY DEF Commit
  <2> QED
    BY <1>7, <1>8, <2>1
<1>10. ASSUME NEW j \in Indexers, NEW k \in 1..Len(tx'[j].sources), NEW w \in Worlds
       PROVE  w[tx'[j].sources[k].name].items \in Seq(Items)
  <2>1. j # i
    BY <1>7
  <2>2. tx'[j].sources = tx[j].sources
    BY <1>8, <2>1
  <2> QED
    BY <2>2 DEF RetrievalInv, RetrievalTypeOK
<1>11. RetrievalTypeOK'
  BY <1>1, <1>4, <1>6, <1>9, <1>10 DEF RetrievalInv, RetrievalTypeOK
<1> QED
  BY <1>4, <1>7, <1>8, <1>11 DEF RetrievalInv

\* Queries, changes of the sources and steps of others touch no rebuild.
LEMMA BesideStep ==
    ASSUME RetrievalInv, UNCHANGED <<index, built, writer, tx>>,
           world' \in Worlds, config' \in Configs
    PROVE  RetrievalInv'
<1>1. RetrievalTypeOK'
  BY DEF RetrievalInv, RetrievalTypeOK
<1>2. ASSUME NEW j \in Indexers PROVE NamesOK(j)' /\ TableOK(j)'
  BY OthersKept DEF RetrievalInv
<1> QED
  BY <1>1, <1>2 DEF RetrievalInv

LEMMA RetrievalInvStep == RetrievalInv /\ [RetrievalNext]_retrievalVars => RetrievalInv'
<1> SUFFICES ASSUME RetrievalInv, [RetrievalNext]_retrievalVars PROVE RetrievalInv'
  OBVIOUS
<1>0. world \in Worlds /\ config \in Configs
  BY DEF RetrievalInv, RetrievalTypeOK
<1>1. ASSUME NEW i \in Indexers, Begin(i) PROVE RetrievalInv'
  BY <1>1, BeginStep
<1>2. ASSUME NEW i \in Indexers, CollectSource(i) PROVE RetrievalInv'
  BY <1>2, CollectStep
<1>3. ASSUME NEW i \in Indexers, ApplySource(i) PROVE RetrievalInv'
  BY <1>3, ApplyStep
<1>4. ASSUME NEW i \in Indexers, ApplyFails(i) \/ Secure(i) \/ Kill(i) PROVE RetrievalInv'
  BY <1>4, ResetStep
<1>5. ASSUME NEW i \in Indexers, Commit(i) PROVE RetrievalInv'
  BY <1>5, CommitStep
<1>6. ASSUME NEW body, Query(body) PROVE RetrievalInv'
  BY <1>0, <1>6, BesideStep DEF Query
<1>7. CASE Change
  BY <1>7, BesideStep DEF Change
<1>8. CASE UNCHANGED retrievalVars
  BY <1>0, <1>8, BesideStep DEF retrievalVars
<1> QED
  BY <1>1, <1>2, <1>3, <1>4, <1>5, <1>6, <1>7, <1>8 DEF RetrievalNext

LEMMA RetrievalInvIndex == RetrievalInv => IndexExact
<1> SUFFICES ASSUME RetrievalInv PROVE IndexExact
  OBVIOUS
<1>1. /\ built = <<>> => index = Empty
      /\ Exact(index, built, Len(built)) /\ DOMAIN built = 1..Len(built) /\ Len(built) \in Nat
  BY DEF RetrievalInv, RetrievalTypeOK, Collections
<1>2. \A p : Claimants(p) = {k \in 1..Len(built) : Claims(built, k, p)}
  BY <1>1 DEF Claimants, Claims
<1>3. ASSUME NEW p \in DOMAIN index, Claimants(p) # {},
             NEW last, last = CHOOSE k \in Claimants(p) : \A j \in Claimants(p) : j <= k
      PROVE  /\ index[p].source = built[last].name
             /\ \E n \in DOMAIN built[last].found :
                   built[last].found[n] = [path |-> p, body |-> index[p].body]
  <2>1. PICK k \in 1..Len(built) :
           /\ \A j \in 1..Len(built) : Claims(built, j, p) => j <= k
           /\ index[p].source = built[k].name
           /\ \E n \in DOMAIN built[k].found :
                 built[k].found[n] = [path |-> p, body |-> index[p].body]
    BY <1>1, <1>2, <1>3 DEF Exact
  <2>2. k \in Claimants(p) /\ \A j \in Claimants(p) : j <= k
    BY <1>2, <2>1 DEF Claims
  <2>3. last \in Claimants(p) /\ \A j \in Claimants(p) : j <= last
    BY <1>3, <2>2
  <2>4. last \in Nat /\ k \in Nat /\ last <= k /\ k <= last
    BY <1>1, <1>2, <2>2, <2>3
  <2>5. last = k
    BY <2>4
  <2> QED
    BY <2>1, <2>5
<1>4. ASSUME NEW p \in DOMAIN index, Claimants(p) = {}, NEW k \in DOMAIN built
      PROVE  built[k].name # index[p].source
  <2>1. \A j \in 1..Len(built) : ~Claims(built, j, p)
    BY <1>2, <1>4
  <2>2. \A j \in 1..Len(built) : \A n \in DOMAIN built[j].found : built[j].found[n].path # p
    BY <2>1 DEF Claims
  <2>3. ASSUME NEW j \in 1..Len(built), NEW n \in DOMAIN built[j].found,
               built[j].found[n] = [path |-> p, body |-> index[p].body]
        PROVE  FALSE
    <3>1. built[j].found[n].path = p
      BY <2>3
    <3> QED
      BY <2>2, <3>1
  <2>4. \A j \in 1..Len(built) : ~Claims(built, j, p) /\ built[j].name # index[p].source
    BY <1>1, <2>3 DEF Exact
  <2> QED
    BY <1>1, <2>4
<1>5. \A k \in DOMAIN built : \A n \in DOMAIN built[k].found :
         built[k].found[n].path \in DOMAIN index
  BY <1>1 DEF Exact
<1>6. ASSUME NEW p \in DOMAIN index
      PROVE  IF Claimants(p) # {}
             THEN LET last == CHOOSE k \in Claimants(p) : \A j \in Claimants(p) : j <= k
                  IN /\ index[p].source = built[last].name
                     /\ \E n \in DOMAIN built[last].found :
                           built[last].found[n] = [path |-> p, body |-> index[p].body]
             ELSE \A k \in DOMAIN built : built[k].name # index[p].source
  <2>1. CASE Claimants(p) # {}
    <3> DEFINE last == CHOOSE k \in Claimants(p) : \A j \in Claimants(p) : j <= k
    <3>1. /\ index[p].source = built[last].name
          /\ \E n \in DOMAIN built[last].found :
                built[last].found[n] = [path |-> p, body |-> index[p].body]
      BY <1>3, <2>1, Zenon
    <3> HIDE DEF last
    <3> QED
      BY <2>1, <3>1 DEF last
  <2>2. CASE Claimants(p) = {}
    BY <1>4, <2>2
  <2> QED
    BY <2>1, <2>2
<1> QED
  BY <1>1, <1>5, <1>6 DEF IndexExact

\* The committed index is always what one complete rebuild makes of what it collected,
\* for any number of indexers, sources, documents and configurations, whichever of them
\* are killed, refused or overtaken (indexer.rs rebuild, apply_source_documents).
THEOREM IndexesAreExact == RetrievalSpec => []IndexExact
<1>1. RetrievalInit => RetrievalInv
  BY RetrievalInitInv
<1>2. RetrievalInv /\ [RetrievalNext]_retrievalVars => RetrievalInv'
  BY RetrievalInvStep
<1>3. RetrievalInv => IndexExact
  BY RetrievalInvIndex
<1> QED
  BY <1>1, <1>2, <1>3, PTL DEF RetrievalSpec

-----------------------------------------------------------------------------
(* A provider worker *)

\* The codes of an event that is not a final one, and the events that can be written.
Refusals == {"request_not_active", "worker_busy", "invalid", "other_provider", "oversized",
             "garbage", "other_version"}
WrittenEvents == [event : {"ready", "started", "completed", "error"}, id : Nat,
                  code : Refusals \cup Finals \cup {""}]

\* The values of run_stdio's variables.
WorkerTypeOK ==
    /\ input \in Seq(Commands)
    /\ client \in {"open", "closed", "gone"} /\ worker \in {"running", "ended"}
    /\ active \in RequestIds \cup {NoRequest}
    /\ task \in {"none", "running", "completed", "error", "worker_task_failed"}
    /\ output \in Seq(WrittenEvents)

\* The request with this id was started, and nothing started or ended since.
StartedLast(id) ==
    \E m \in DOMAIN output :
        Starts(output[m]) /\ output[m].id = id /\ Quiet(m, Len(output) + 1)

\* While the worker runs, its active request is the one that the output shows underway.
ActiveShown ==
    worker = "running" =>
        IF active = NoRequest THEN task = "none" /\ ~Underway ELSE StartedLast(active)

WorkerInv == WorkerTypeOK /\ ActiveShown /\ OneOutcome

\* Appending an event leaves what is quiet before it as it was.
LEMMA QuietKept ==
    ASSUME WorkerTypeOK, NEW e, output' = Append(output, e), NEW N, N = Len(output)
    PROVE  /\ N \in Nat /\ Len(output') = N + 1
           /\ output'[N + 1] = e /\ \A n \in 1..N : output'[n] = output[n]
           /\ DOMAIN output' = 1..(N + 1) /\ DOMAIN output = 1..N
           /\ \A m \in Nat, n \in 1..(N + 1) : Quiet(m, n)' <=> Quiet(m, n)
           /\ \A m \in 1..N : Quiet(m, N + 2)' <=> Quiet(m, N + 1) /\ ~Starts(e) /\ ~Ends(e)
<1>1. /\ N \in Nat /\ Len(output') = N + 1
      /\ output'[N + 1] = e /\ \A n \in 1..N : output'[n] = output[n]
      /\ DOMAIN output' = 1..(N + 1) /\ DOMAIN output = 1..N
  BY DEF WorkerTypeOK
<1>2. ASSUME NEW m \in Nat, NEW n \in 1..(N + 1)
      PROVE  Quiet(m, n)' <=> Quiet(m, n)
  <2>1. \A k \in (m + 1)..(n - 1) : k \in 1..N /\ output'[k] = output[k]
    BY <1>1
  <2> QED BY <2>1 DEF Quiet, Starts, Ends
<1>3. ASSUME NEW m \in 1..N
      PROVE  Quiet(m, N + 2)' <=> Quiet(m, N + 1) /\ ~Starts(e) /\ ~Ends(e)
  <2>1. (m + 1)..(N + 2 - 1) = (m + 1)..(N + 1 - 1) \cup {N + 1}
    BY <1>1
  <2>2. Quiet(m, N + 2)' <=> Quiet(m, N + 1)' /\ ~Starts(e) /\ ~Ends(e)
    BY <2>1, <1>1 DEF Quiet, Starts, Ends
  <2>3. Quiet(m, N + 1)' <=> Quiet(m, N + 1)
    <3>1. m \in Nat /\ N + 1 \in 1..(N + 1)
      BY <1>1
    <3> QED BY <1>2, <3>1
  <2> QED BY <2>2, <2>3
<1> QED BY <1>1, <1>2, <1>3

\* The account is kept when its condition holds of the new event.
LEMMA AppendOne ==
    ASSUME WorkerTypeOK, OneOutcome, NEW e, output' = Append(output, e), NEW N, N = Len(output),
           Ends(e) => \E m \in 1..N :
               Starts(output[m]) /\ output[m].id = e.id /\ Quiet(m, N + 1),
           Starts(e) => \A m \in 1..N : Starts(output[m]) => ~Quiet(m, N + 1)
    PROVE  OneOutcome'
<1>1. /\ N \in Nat /\ Len(output') = N + 1
      /\ output'[N + 1] = e /\ \A n \in 1..N : output'[n] = output[n]
      /\ DOMAIN output' = 1..(N + 1) /\ DOMAIN output = 1..N
      /\ \A m \in Nat, n \in 1..(N + 1) : Quiet(m, n)' <=> Quiet(m, n)
  BY QuietKept
<1>2. ASSUME NEW n \in 1..N
      PROVE  /\ Ends(output'[n]) => \E m \in 1..(n - 1) :
                    Starts(output'[m]) /\ output'[m].id = output'[n].id /\ Quiet(m, n)'
             /\ Starts(output'[n]) => \A m \in 1..(n - 1) : Starts(output'[m]) => ~Quiet(m, n)'
  <2>1. /\ Ends(output[n]) => \E m \in 1..(n - 1) :
               Starts(output[m]) /\ output[m].id = output[n].id /\ Quiet(m, n)
        /\ Starts(output[n]) => \A m \in 1..(n - 1) : Starts(output[m]) => ~Quiet(m, n)
    BY <1>1 DEF OneOutcome
  <2>2. \A m \in 1..(n - 1) : m \in Nat /\ output'[m] = output[m] /\ (Quiet(m, n)' <=> Quiet(m, n))
    BY <1>1
  <2>3. output'[n] = output[n]
    BY <1>1
  <2> QED BY <2>1, <2>2, <2>3
<1>3. /\ Ends(output'[N + 1]) => \E m \in 1..N :
             Starts(output'[m]) /\ output'[m].id = output'[N + 1].id /\ Quiet(m, N + 1)'
      /\ Starts(output'[N + 1]) => \A m \in 1..N : Starts(output'[m]) => ~Quiet(m, N + 1)'
  <2>1. \A m \in 1..N : m \in Nat /\ output'[m] = output[m] /\ (Quiet(m, N + 1)' <=> Quiet(m, N + 1))
    BY <1>1
  <2> QED BY <1>1, <2>1
<1>4. \A n \in DOMAIN output' : n \in 1..N \/ (n = N + 1 /\ n - 1 = N)
  BY <1>1
<1> QED BY <1>2, <1>3, <1>4 DEF OneOutcome, Starts, Ends

\* An event that neither starts nor ends a request changes nothing of the account.
LEMMA AppendNeutral ==
    ASSUME WorkerTypeOK, OneOutcome, NEW e, output' = Append(output, e),
           ~Starts(e), ~Ends(e)
    PROVE  /\ OneOutcome' /\ (Underway' <=> Underway)
           /\ \A id : StartedLast(id)' <=> StartedLast(id)
<1> PICK N : N = Len(output)
  OBVIOUS
<1>1. /\ N \in Nat /\ Len(output') = N + 1
      /\ output'[N + 1] = e /\ \A n \in 1..N : output'[n] = output[n]
      /\ DOMAIN output' = 1..(N + 1) /\ DOMAIN output = 1..N
      /\ \A m \in Nat, n \in 1..(N + 1) : Quiet(m, n)' <=> Quiet(m, n)
      /\ \A m \in 1..N : Quiet(m, N + 2)' <=> Quiet(m, N + 1)
  BY QuietKept
<1>2. OneOutcome'
  BY AppendOne
<1>3. Underway <=> \E m \in 1..N : Starts(output[m]) /\ Quiet(m, N + 1)
  BY <1>1 DEF Underway
<1>4. Underway' <=> \E m \in 1..(N + 1) : Starts(output'[m]) /\ Quiet(m, N + 2)'
  <2>1. Len(output') + 1 = N + 2
    BY <1>1
  <2> QED BY <1>1, <2>1 DEF Underway, Starts, Quiet
<1>5. Underway' <=> Underway
  BY <1>1, <1>3, <1>4 DEF Starts
<1>6. ASSUME NEW id PROVE StartedLast(id)' <=> StartedLast(id)
  <2>1. StartedLast(id) <=>
            \E m \in 1..N : Starts(output[m]) /\ output[m].id = id /\ Quiet(m, N + 1)
    BY <1>1 DEF StartedLast
  <2>2. StartedLast(id)' <=>
            \E m \in 1..(N + 1) : Starts(output'[m]) /\ output'[m].id = id /\ Quiet(m, N + 2)'
    <3>1. Len(output') + 1 = N + 2
      BY <1>1
    <3> QED BY <1>1, <3>1 DEF StartedLast, Starts, Quiet
  <2> QED BY <1>1, <2>1, <2>2 DEF Starts
<1> QED BY <1>2, <1>5, <1>6

\* The start of a request, when none is underway.
LEMMA AppendStart ==
    ASSUME WorkerTypeOK, OneOutcome, NEW e, output' = Append(output, e),
           Starts(e), ~Ends(e), ~Underway
    PROVE  OneOutcome' /\ StartedLast(e.id)'
<1> PICK N : N = Len(output)
  OBVIOUS
<1>1. /\ N \in Nat /\ Len(output') = N + 1
      /\ output'[N + 1] = e /\ \A n \in 1..N : output'[n] = output[n]
      /\ DOMAIN output' = 1..(N + 1) /\ DOMAIN output = 1..N
      /\ \A m \in Nat, n \in 1..(N + 1) : Quiet(m, n)' <=> Quiet(m, n)
  BY QuietKept
<1>2. \A m \in 1..N : Starts(output[m]) => ~Quiet(m, N + 1)
  BY <1>1 DEF Underway
<1>3. OneOutcome'
  BY <1>2, AppendOne
<1>4. Quiet(N + 1, N + 2)'
  BY <1>1 DEF Quiet
<1>5. StartedLast(e.id)'
  <2>1. Len(output') + 1 = N + 2 /\ N + 1 \in DOMAIN output'
    BY <1>1
  <2> QED BY <1>1, <1>4, <2>1 DEF StartedLast, Starts, Quiet
<1> QED BY <1>3, <1>5

\* The outcome of the request that is underway.
LEMMA AppendEnd ==
    ASSUME WorkerTypeOK, OneOutcome, NEW e, output' = Append(output, e),
           Ends(e), ~Starts(e), StartedLast(e.id)
    PROVE  OneOutcome' /\ ~Underway'
<1> PICK N : N = Len(output)
  OBVIOUS
<1>1. /\ N \in Nat /\ Len(output') = N + 1
      /\ output'[N + 1] = e /\ \A n \in 1..N : output'[n] = output[n]
      /\ DOMAIN output' = 1..(N + 1) /\ DOMAIN output = 1..N
      /\ \A m \in Nat, n \in 1..(N + 1) : Quiet(m, n)' <=> Quiet(m, n)
      /\ \A m \in 1..N : ~Quiet(m, N + 2)'
  BY QuietKept
<1>2. \E m \in 1..N : Starts(output[m]) /\ output[m].id = e.id /\ Quiet(m, N + 1)
  BY <1>1 DEF StartedLast
<1>3. OneOutcome'
  BY <1>2, AppendOne
<1>4. Underway' <=> \E m \in 1..(N + 1) : Starts(output'[m]) /\ Quiet(m, N + 2)'
  <2>1. Len(output') + 1 = N + 2
    BY <1>1
  <2> QED BY <1>1, <2>1 DEF Underway, Starts, Quiet
<1>5. ~Underway'
  BY <1>1, <1>4 DEF Starts
<1> QED BY <1>3, <1>5

\* The invariant holds when the worker has announced that it is ready.
LEMMA WorkerInitInv == WorkerInit => WorkerInv
<1> SUFFICES ASSUME WorkerInit PROVE WorkerInv
  OBVIOUS
<1> DEFINE ready == Event("ready", NoRequest, "")
<1>1. /\ input = <<>> /\ client = "open" /\ worker = "running"
      /\ active = NoRequest /\ task = "none" /\ output = <<ready>>
  BY DEF WorkerInit
<1>2. ready \in WrittenEvents /\ ~Starts(ready) /\ ~Ends(ready)
  BY DEF Event, NoRequest, WrittenEvents, Starts, Ends, Finals
<1> HIDE DEF ready
<1>3. output \in Seq(WrittenEvents) /\ Len(output) = 1 /\ output[1] = ready
  BY <1>1, <1>2
<1>4. WorkerTypeOK
  BY <1>1, <1>3 DEF WorkerTypeOK
<1>5. DOMAIN output = {1}
  BY <1>3
<1>6. ~Underway
  BY <1>2, <1>3, <1>5 DEF Underway
<1>7. OneOutcome
  BY <1>2, <1>3, <1>5 DEF OneOutcome
<1> QED BY <1>1, <1>4, <1>6, <1>7 DEF WorkerInv, ActiveShown

\* What the next command can be.
LEMMA NextCommand ==
    ASSUME WorkerTypeOK, input # <<>>
    PROVE  /\ Head(input) \in Commands /\ Tail(input) \in Seq(Commands)
           /\ Head(input).id \in Nat
           /\ Head(input).op \in {"infer", "cancel"} => Head(input).id \in RequestIds
           /\ Head(input).op = "infer" => Head(input).kind \in Kinds
<1>1. Head(input) \in Commands /\ Tail(input) \in Seq(Commands)
  BY DEF WorkerTypeOK
<1> QED BY <1>1, RequestIdsAssumption DEF Commands, Infer, CancelOf, Undecodable, Kinds, NoRequest

\* A refusal of a command is neither a start nor an outcome.
LEMMA RefusalNeutral ==
    ASSUME WorkerInv, worker = "running", NEW id \in Nat, NEW code \in Refusals,
           Write(Event("error", id, code)),
           input' \in Seq(Commands), UNCHANGED <<client, active, task>>
    PROVE  WorkerInv'
<1> DEFINE e == Event("error", id, code)
<1>1. e \in WrittenEvents /\ ~Starts(e) /\ ~Ends(e)
  BY DEF Event, Starts, Ends, Finals, Refusals, WrittenEvents
<1>2. CASE client = "gone"
  BY <1>2 DEF Write, WorkerInv, WorkerTypeOK, ActiveShown, OneOutcome, Quiet
<1>3. CASE client # "gone"
  <2>1. output' = Append(output, e) /\ worker' = worker
    BY <1>3 DEF Write
  <2>2. WorkerTypeOK'
    BY <1>1, <2>1 DEF WorkerInv, WorkerTypeOK
  <2>3. OneOutcome' /\ (Underway' <=> Underway) /\ \A i : StartedLast(i)' <=> StartedLast(i)
    BY <1>1, <2>1, AppendNeutral DEF WorkerInv
  <2> QED BY <2>1, <2>2, <2>3 DEF WorkerInv, ActiveShown
<1> QED BY <1>2, <1>3

\* The outcome of the active request.
LEMMA OutcomeEnds ==
    ASSUME WorkerInv, worker = "running", active # NoRequest, NEW e,
           e \in WrittenEvents,
           Ends(e), ~Starts(e), e.id = active, Write(e),
           input' \in Seq(Commands), client' = client, active' = NoRequest, task' = "none"
    PROVE  WorkerInv'
<1>1. CASE client = "gone"
  <2>1. worker' = "ended" /\ output' = output
    BY <1>1 DEF Write
  <2>2. WorkerTypeOK' /\ ActiveShown'
    BY <2>1 DEF WorkerInv, WorkerTypeOK, ActiveShown
  <2>3. OneOutcome'
    BY <2>1 DEF WorkerInv, OneOutcome, Quiet
  <2> QED BY <2>2, <2>3 DEF WorkerInv
<1>2. CASE client # "gone"
  <2>1. output' = Append(output, e) /\ worker' = worker
    BY <1>2 DEF Write
  <2>2. WorkerTypeOK'
    BY <2>1 DEF WorkerInv, WorkerTypeOK
  <2>3. OneOutcome' /\ ~Underway'
    BY <2>1, AppendEnd DEF WorkerInv, ActiveShown
  <2> QED BY <2>1, <2>2, <2>3 DEF WorkerInv, ActiveShown
<1> QED BY <1>1, <1>2

\* Every step of the worker, of its task and of its client keeps the invariant.
LEMMA WorkerStepInv == WorkerInv /\ [WorkerNext]_workerVars => WorkerInv'
<1> SUFFICES ASSUME WorkerInv, [WorkerNext]_workerVars PROVE WorkerInv'
  OBVIOUS
<1>t. WorkerTypeOK
  BY DEF WorkerInv
<1>i. active \in Nat /\ (active # NoRequest => active \in RequestIds)
  BY <1>t, RequestIdsAssumption DEF WorkerTypeOK, NoRequest
<1>1. CASE Report
  <2>1. task \in {"completed", "error", "worker_task_failed"} /\ input \in Seq(Commands)
    BY <1>1, <1>t DEF Report, WorkerTypeOK
  <2> DEFINE e == IF task = "completed" THEN Event("completed", active, "")
                  ELSE Event("error", active, task)
  <2>2. /\ e \in WrittenEvents
        /\ Ends(e) /\ ~Starts(e) /\ e.id = active
    BY <2>1, <1>i DEF Event, Ends, Starts, Finals, WrittenEvents
  <2> HIDE DEF e
  <2>3. Write(e)
    BY <1>1 DEF Report, e
  <2> QED BY <1>1, <2>1, <2>2, <2>3, OutcomeEnds DEF Report
<1>2. CASE ReadUndecodable
  <2>1. /\ Head(input).op \in {"oversized", "garbage", "other_version"}
        /\ input # <<>> /\ worker = "running" /\ input' = Tail(input)
    BY <1>2 DEF ReadUndecodable, Reads
  <2>2. NoRequest \in Nat /\ Head(input).op \in Refusals
    BY <2>1 DEF NoRequest, Refusals
  <2> QED BY <1>2, <2>1, <2>2, <1>t, NextCommand, RefusalNeutral DEF ReadUndecodable
<1>3. CASE ReadCancel
  <2>1. Head(input).op = "cancel" /\ input # <<>> /\ worker = "running" /\ input' = Tail(input)
    BY <1>3 DEF ReadCancel, Reads
  <2>2. Head(input).id \in RequestIds /\ input' \in Seq(Commands)
    BY <2>1, <1>t, NextCommand
  <2>3. CASE Head(input).id = active
    <3> DEFINE e == Event("error", active, "cancelled")
    <3>1. /\ e \in WrittenEvents
          /\ Ends(e) /\ ~Starts(e) /\ e.id = active
      BY <1>i DEF Event, Ends, Starts, Finals, WrittenEvents
    <3>2. active # NoRequest
      BY <2>2, <2>3, RequestIdsAssumption
    <3> HIDE DEF e
    <3>3. Write(e) /\ active' = NoRequest /\ task' = "none" /\ client' = client
      BY <1>3, <2>3 DEF ReadCancel, e
    <3> QED BY <2>1, <2>2, <3>1, <3>2, <3>3, OutcomeEnds
  <2>4. CASE Head(input).id # active
    <3>1. /\ Write(Event("error", Head(input).id, "request_not_active"))
          /\ UNCHANGED <<client, active, task>>
      BY <1>3, <2>4 DEF ReadCancel
    <3>2. "request_not_active" \in Refusals
      BY DEF Refusals
    <3> QED BY <2>1, <2>2, <3>1, <3>2, <1>t, NextCommand, RefusalNeutral
  <2> QED BY <2>3, <2>4
<1>4. CASE ReadInferBusy
  <2>1. Head(input).op = "infer" /\ input # <<>> /\ worker = "running" /\ input' = Tail(input)
    BY <1>4 DEF ReadInferBusy, Reads
  <2>2. "worker_busy" \in Refusals
    BY DEF Refusals
  <2> QED BY <1>4, <2>1, <2>2, <1>t, NextCommand, RefusalNeutral DEF ReadInferBusy
<1>5. CASE ReadInferRefused
  <2>1. Head(input).op = "infer" /\ input # <<>> /\ worker = "running" /\ input' = Tail(input)
    BY <1>5 DEF ReadInferRefused, Reads
  <2>2. Head(input).kind \in Refusals
    BY <1>5, <2>1, <1>t, NextCommand DEF ReadInferRefused, Kinds, Refusals
  <2> QED BY <1>5, <2>1, <2>2, <1>t, NextCommand, RefusalNeutral DEF ReadInferRefused
<1>6. CASE ReadInfer
  <2> PICK id : id = Head(input).id
    OBVIOUS
  <2> DEFINE e == Event("started", id, "")
  <2>1. /\ Head(input).op = "infer" /\ input # <<>> /\ worker = "running"
        /\ input' = Tail(input) /\ active = NoRequest /\ client' = client
    BY <1>6 DEF ReadInfer, Reads
  <2>2. id \in RequestIds /\ id \in Nat /\ input' \in Seq(Commands)
    BY <2>1, <1>t, NextCommand
  <2>3. /\ e \in WrittenEvents
        /\ Starts(e) /\ ~Ends(e) /\ e.id = id
    BY <2>2 DEF Event, Ends, Starts, Finals, WrittenEvents
  <2>4. CASE client = "gone"
    <3>1. worker' = "ended" /\ UNCHANGED <<output, active, task>>
      BY <1>6, <2>4 DEF ReadInfer, Write
    <3> QED BY <2>1, <2>2, <3>1 DEF WorkerInv, WorkerTypeOK, ActiveShown, OneOutcome, Quiet
  <2>5. CASE client # "gone"
    <3>1. /\ output' = Append(output, e) /\ worker' = worker
          /\ active' = id /\ task' = "running"
      BY <1>6, <2>5 DEF ReadInfer, Write
    <3> HIDE DEF e
    <3>2. WorkerTypeOK'
      BY <2>1, <2>2, <2>3, <3>1 DEF WorkerInv, WorkerTypeOK
    <3>3. OneOutcome' /\ StartedLast(e.id)'
      BY <2>1, <2>3, <3>1, AppendStart DEF WorkerInv, ActiveShown
    <3>4. active' # NoRequest
      BY <2>2, <3>1, RequestIdsAssumption
    <3>5. StartedLast(active)'
      BY <2>3, <3>1, <3>3 DEF StartedLast
    <3> QED BY <3>2, <3>3, <3>4, <3>5 DEF WorkerInv, ActiveShown
  <2> QED BY <2>4, <2>5
<1>7. CASE EndOfInput
  BY <1>7 DEF EndOfInput, WorkerInv, WorkerTypeOK, ActiveShown, OneOutcome, Quiet, NoRequest
<1>8. CASE TaskEnds
  <2>1. task' \in {"completed", "error", "worker_task_failed"} /\ UNCHANGED <<input, client, worker, active, output>>
    BY <1>8 DEF TaskEnds
  <2>2. active # NoRequest /\ active' # NoRequest
    BY <1>8, <2>1 DEF TaskEnds, WorkerInv, ActiveShown
  <2> QED BY <2>1, <2>2 DEF WorkerInv, WorkerTypeOK, ActiveShown, StartedLast, OneOutcome, Quiet
<1>9. CASE ClientSends
  <2>1. PICK command \in Commands : input' = Append(input, command)
    BY <1>9 DEF ClientSends
  <2>2. input' \in Seq(Commands) /\ UNCHANGED <<client, worker, active, task, output>>
    BY <1>9, <1>t, <2>1 DEF ClientSends, WorkerTypeOK
  <2> QED BY <2>2 DEF WorkerInv, WorkerTypeOK, ActiveShown, StartedLast, OneOutcome, Quiet, Underway
<1>10. CASE ClientCloses
  BY <1>10 DEF ClientCloses, WorkerInv, WorkerTypeOK, ActiveShown, StartedLast, OneOutcome, Quiet, Underway
<1>11. CASE UNCHANGED workerVars
  BY <1>11 DEF workerVars, WorkerInv, WorkerTypeOK, ActiveShown, StartedLast, OneOutcome, Quiet, Underway
<1> QED
  BY <1>1, <1>2, <1>3, <1>4, <1>5, <1>6, <1>7, <1>8, <1>9, <1>10, <1>11 DEF WorkerNext, Worker

\* The worker's active request is always the one its output shows underway.
THEOREM WorkerInductive == WorkerSpec => []WorkerInv
  BY WorkerInitInv, WorkerStepInv, PTL DEF WorkerSpec

\* A started request gets at most one outcome, under its id, before the next one starts
\* (run_stdio).
THEOREM OutcomesAreSingle == WorkerSpec => []OneOutcome
  BY WorkerInductive, PTL DEF WorkerInv

-----------------------------------------------------------------------------
(* run_command *)

\* The values of run_command's variables.
RunnerTypeOK ==
    /\ call \in {"check", "refused", "poll", "join", "join_timeout", "returned", "timed_out", "failed"}
    /\ child \in {"none", "running", "exited", "reaped"} /\ heir \in BOOLEAN
    /\ written \in [Streams -> Nat] /\ taken \in [Streams -> Nat]
    /\ kept \in [Streams -> Nat] /\ truncated \in [Streams -> BOOLEAN]
    /\ reader \in [Streams -> {"none", "reading", "ended", "failed"}]

\* Before the spawn nothing exists; afterwards the child and the readers do, and the
\* child is reaped before the readers are joined.
Stages ==
    /\ call \in {"check", "refused"} <=> child = "none"
    /\ call \in {"check", "refused"} => ~heir /\ reader = Of("none")
    /\ call \in {"join", "join_timeout", "returned", "timed_out"} => child = "reaped"
    /\ call \notin {"check", "refused"} => \A s \in Streams : reader[s] # "none"
    /\ call = "returned" => reader = Of("ended")
    /\ call = "timed_out" => \A s \in Streams : reader[s] # "reading"

\* What a reader has kept of what it took, and why it may end.
ReaderExact ==
    \A s \in Streams :
        /\ taken[s] <= written[s]
        /\ kept[s] = IF taken[s] <= Limit THEN taken[s] ELSE Limit
        /\ truncated[s] <=> taken[s] > Limit
        /\ reader[s] = "ended" => ~Alive /\ written[s] = taken[s]

RunnerInv == RunnerTypeOK /\ Stages /\ ReaderExact

\* The invariant holds before the call begins.
LEMMA RunnerInitInv == RunnerInit => RunnerInv
<1> SUFFICES ASSUME RunnerInit PROVE RunnerInv
  OBVIOUS
<1>1. /\ written \in [Streams -> Nat] /\ taken \in [Streams -> Nat] /\ kept \in [Streams -> Nat]
      /\ reader \in [Streams -> {"none", "reading", "ended", "failed"}]
      /\ heir \in BOOLEAN
  BY DEF RunnerInit, Of
<1>2. truncated \in [Streams -> BOOLEAN] /\ \A s \in Streams : ~truncated[s]
  BY Zenon DEF RunnerInit, Of
<1>3. RunnerTypeOK
  BY <1>1, <1>2 DEF RunnerInit, RunnerTypeOK
<1>4. Stages
  BY DEF RunnerInit, Stages
<1>5. ReaderExact
  BY <1>2, RunnerAssumption DEF RunnerInit, ReaderExact, Of
<1> QED
  BY <1>3, <1>4, <1>5 DEF RunnerInv

\* Every step of the call, its readers, its child and its heirs keeps it.
LEMMA RunnerStepInv == RunnerInv /\ [RunnerNext]_runnerVars => RunnerInv'
<1> SUFFICES ASSUME RunnerInv, [RunnerNext]_runnerVars PROVE RunnerInv'
  OBVIOUS
<1> USE RunnerAssumption DEF RunnerInv, RunnerTypeOK, Stages, ReaderExact, Of, Alive
<1>1. CASE Refuse
  BY <1>1 DEF Refuse
<1>2. CASE Spawn
  BY <1>2 DEF Spawn
<1>3. CASE ChildExits
  BY <1>3 DEF ChildExits
<1>4. CASE HeirExits
  BY <1>4 DEF HeirExits
<1>5. CASE PollExited
  BY <1>5 DEF PollExited
<1>6. CASE PollTimeout
  BY <1>6 DEF PollTimeout
<1>7. CASE Join
  BY <1>7 DEF Join
<1>8. ASSUME NEW s \in Streams, Produce(s) PROVE RunnerInv'
  BY <1>8 DEF Produce
<1>9. ASSUME NEW s \in Streams, ReadSome(s) PROVE RunnerInv'
  <2>1. PICK n \in 1..ReadSize :
           /\ n <= written[s] - taken[s]
           /\ taken' = [taken EXCEPT ![s] = @ + n]
           /\ kept' = [kept EXCEPT ![s] = IF @ + n <= Limit THEN @ + n ELSE Limit]
           /\ truncated' = [truncated EXCEPT ![s] = @ \/ kept[s] + n > Limit]
    BY <1>9 DEF ReadSome
  <2>2. n \in Nat /\ n > 0 /\ Limit \in Nat
    BY <2>1
  <2>3. RunnerTypeOK'
    BY <1>9, <2>1, <2>2 DEF ReadSome
  <2>4. Stages'
    BY <1>9 DEF ReadSome
  <2>5. ASSUME NEW q \in Streams
        PROVE  /\ taken'[q] <= written'[q]
               /\ kept'[q] = IF taken'[q] <= Limit THEN taken'[q] ELSE Limit
               /\ truncated'[q] <=> taken'[q] > Limit
               /\ reader'[q] = "ended" => ~Alive' /\ written'[q] = taken'[q]
    <3>1. CASE q = s
      <4>1. truncated'[s] <=> (truncated[s] \/ kept[s] + n > Limit)
        BY <2>1, Zenon
      <4>2. taken'[s] = taken[s] + n /\ written' = written /\ reader' = reader /\ Alive' = Alive
        BY <1>9, <2>1 DEF ReadSome
      <4>3. kept'[s] = IF kept[s] + n <= Limit THEN kept[s] + n ELSE Limit
        BY <2>1
      <4>4. truncated[s] <=> taken[s] > Limit
        OBVIOUS
      <4>5. taken'[s] > Limit <=> taken[s] > Limit \/ kept[s] + n > Limit
        BY <2>1, <2>2, <4>2
      <4>6. truncated'[s] <=> taken'[s] > Limit
        BY <4>1, <4>4, <4>5
      <4>7. taken'[s] <= written'[s] /\ (kept'[s] = IF taken'[s] <= Limit THEN taken'[s] ELSE Limit)
        BY <2>1, <2>2, <4>2, <4>3
      <4>8. reader'[s] # "ended"
        BY <1>9, <4>2 DEF ReadSome
      <4> QED BY <3>1, <4>6, <4>7, <4>8
    <3>2. CASE q # s
      BY <1>9, <2>1, <2>2, <3>2 DEF ReadSome
    <3> QED BY <3>1, <3>2
  <2> QED BY <2>3, <2>4, <2>5
<1>10. ASSUME NEW s \in Streams, ReadEnd(s) PROVE RunnerInv'
  BY <1>10 DEF ReadEnd
<1>11. ASSUME NEW s \in Streams, ReadFails(s) PROVE RunnerInv'
  BY <1>11 DEF ReadFails
<1>12. CASE WaitFails
  BY <1>12 DEF WaitFails
<1>13. CASE UNCHANGED runnerVars
  BY <1>13 DEF runnerVars
<1> QED
  BY <1>1, <1>2, <1>3, <1>4, <1>5, <1>6, <1>7, <1>8, <1>9, <1>10, <1>11, <1>12, <1>13
     DEF RunnerNext

\* What run_command's state always satisfies: the stages of the call, and the account of
\* every reader.
THEOREM RunnerInductive == RunnerSpec => []RunnerInv
  BY RunnerInitInv, RunnerStepInv, PTL DEF RunnerSpec

\* A call that returns, returns the first Limit bytes of all that was written and says
\* whether there was more, and neither it nor one that times out leaves the child or a
\* reader behind (run_command, read_stream_with_limit).
THEOREM CapturesAreExact == RunnerSpec => []CaptureExact
<1>1. RunnerInv => CaptureExact
  <2> SUFFICES ASSUME RunnerInv PROVE CaptureExact
    OBVIOUS
  <2> USE DEF RunnerInv
  <2>1. ASSUME call \in {"returned", "timed_out"}
        PROVE  child = "reaped" /\ \A s \in Streams : reader[s] \in {"ended", "failed"}
    BY <2>1 DEF Stages, RunnerTypeOK, Of
  <2>2. ASSUME call = "returned"
        PROVE  ~heir /\ \A s \in Streams : written[s] = taken[s]
    BY <2>2 DEF Stages, ReaderExact, Of, Streams, Alive
  <2>3. ASSUME call = "returned", NEW s \in Streams
        PROVE  /\ kept[s] = IF written[s] <= Limit THEN written[s] ELSE Limit
               /\ truncated[s] <=> written[s] > Limit
    <3>1. written[s] = taken[s]
      BY <2>2, <2>3
    <3> QED BY <3>1 DEF ReaderExact
  <2> QED BY <2>1, <2>2, <2>3 DEF CaptureExact
<1> QED
  BY <1>1, RunnerInductive, PTL
==============================================================================

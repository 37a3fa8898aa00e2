------------------------------ MODULE Retrieval ------------------------------
(***************************************************************************)
(* The documentation index (crates/sentia-retrieval/src/indexer.rs,        *)
(* config.rs, path_guard.rs and query.rs).  A rebuild walks the configured *)
(* sources in order and brings the index in line with what it finds, in    *)
(* one SQLite transaction; queries read the last committed index.  Several *)
(* rebuilds may run at once, any of them may be killed, and what the walks *)
(* find changes under them.  A document is its path, a body that stands    *)
(* for the content and its hash, and a size.  SQLite is modelled as it is  *)
(* used: a deferred transaction reads one snapshot, and its first write    *)
(* fails when another transaction is writing or has committed since.       *)
(***************************************************************************)
EXTENDS Integers, Sequences

CONSTANTS Indexers,      \* processes that rebuild
          Worlds,        \* what the sources hold, one of these at a time
          Configs,       \* configurations the file may hold, valid or not
          MaxFileBytes, MaxFileCount, MaxTotalBytes,
          MaxChanges, MaxRebuilds   \* bounds

Entries == [name : STRING, kind : {"filesystem", "man_directory", "dpkg_status"}, label : STRING]
Items == [path : STRING, body : STRING, size : Nat, listed : BOOLEAN, inside : BOOLEAN]

ASSUME RetrievalAssumption ==
    /\ MaxFileBytes \in Nat \ {0} /\ MaxFileCount \in Nat \ {0} /\ MaxTotalBytes \in Nat \ {0}
    /\ MaxChanges \in Nat /\ MaxRebuilds \in Nat
    /\ "none" \notin Indexers
    /\ \A c \in Configs : c \in Seq(Entries)
    /\ \A w \in Worlds, c \in Configs : \A k \in DOMAIN c : w[c[k].name].items \in Seq(Items)

VARIABLES world,     \* source name |-> [readable, size, items]
          config,    \* RetrievalConfig::source, in order
          index,     \* the committed table: path |-> [source, label, body]
          file,      \* the index file: "absent", "created" or "secure" (mode 0640)
          writer,    \* the transaction that holds SQLite's write lock
          tx,        \* the rebuild of every indexer
          budget,    \* what each has consumed of its budget
          reply,     \* what the last query returned
          built,     \* history: what the last rebuild that counts had collected
          changes, rebuilds
retrievalVars == <<world, config, index, file, writer, tx, budget, reply, built, changes, rebuilds>>

NoOne == "none"
Empty == [p \in {} |-> 0]
NewBudget == [consumed_files |-> 0, consumed_bytes |-> 0]
Idle == [pc |-> "idle", sources |-> <<>>, found |-> <<>>, table |-> Empty,
         read |-> FALSE, stale |-> FALSE, collected |-> <<>>]

RetrievalInit ==
    /\ world \in Worlds /\ config \in Configs
    /\ index = Empty /\ file = "absent" /\ writer = NoOne
    /\ tx = [i \in Indexers |-> Idle] /\ budget = [i \in Indexers |-> NewBudget]
    /\ reply = {} /\ built = <<>> /\ changes = 0 /\ rebuilds = 0
-----------------------------------------------------------------------------
\* collect_filesystem_documents and collect_man_documents: the files that the walk of
\* the roots reaches, with a listed extension or an allowed page name.
Walked(item) == item.listed /\ item.inside

\* collect_dpkg_documents: one document per installed package, and none at all when the
\* status file is too large.
Packages(source) == IF source.size > MaxFileBytes THEN <<>> ELSE source.items

Candidates(entry) ==
    LET source == world[entry.name]
    IN CASE ~source.readable -> <<>>
         [] source.readable /\ entry.kind = "dpkg_status" -> Packages(source)
         [] OTHER -> source.items

\* Budget::try_consume.
TryConsume(spent, size) ==
    /\ spent.consumed_files < MaxFileCount
    /\ spent.consumed_bytes + size <= MaxTotalBytes

\* maybe_collect_document: blank and oversized documents are skipped, and so is one that
\* the rest of the budget does not cover, but not the smaller ones after it.
Takes(entry, item, spent) ==
    /\ IF entry.kind = "dpkg_status" THEN item.listed ELSE Walked(item)
    /\ item.size \in 1..MaxFileBytes
    /\ TryConsume(spent, item.size)

\* The budget after each candidate of a source.
Budgets(entry, spent) ==
    LET items == Candidates(entry)
        after[n \in 0..Len(items)] ==
            IF n = 0 THEN spent
            ELSE IF Takes(entry, items[n], after[n - 1])
            THEN [consumed_files |-> after[n - 1].consumed_files + 1,
                  consumed_bytes |-> after[n - 1].consumed_bytes + items[n].size]
            ELSE after[n - 1]
    IN after

\* The documents of a source, each at its place among the candidates.
Collect(entry, spent) ==
    LET items == Candidates(entry)
        after == Budgets(entry, spent)
    IN [found |-> [n \in {k \in 1..Len(items) : Takes(entry, items[k], after[k - 1])} |->
                      [path |-> items[n].path, body |-> items[n].body]],
        budget |-> after[Len(items)]]

\* Mutant: the hashes of every source's documents are loaded.
ExistingOfAll(table, name) == [p \in DOMAIN table |-> table[p].body]

\* load_existing_hashes.
Existing(table, name) ==
    [p \in {q \in DOMAIN table : table[q].source = name} |-> table[p].body]

\* The documents that apply_source_documents writes, and the paths it deletes.  Whether
\* a document is new is told from the hashes that were loaded before the first write.
Changed(found, existing) ==
    {n \in DOMAIN found : \/ found[n].path \notin DOMAIN existing
                          \/ existing[found[n].path] # found[n].body}
Paths(found) == {found[n].path : n \in DOMAIN found}
Stale(found, existing) == DOMAIN existing \ Paths(found)

\* The table after apply_source_documents: an upsert takes a path over from whichever
\* source had it, the last one of a path stays, and only paths of this source are
\* deleted.
Applied(table, entry, found) ==
    LET existing == Existing(table, entry.name)
        Upserts(p) == {n \in Changed(found, existing) : found[n].path = p}
        Last(p) == CHOOSE n \in Upserts(p) : \A m \in Upserts(p) : m <= n
        stale == {p \in Stale(found, existing) : table[p].source = entry.name}
    IN [p \in (DOMAIN table \cup {found[n].path : n \in Changed(found, existing)}) \ stale |->
            IF Upserts(p) = {} THEN table[p]
            ELSE [source |-> entry.name, label |-> entry.label, body |-> found[Last(p)].body]]
Writes(table, entry, found) ==
    LET existing == Existing(table, entry.name)
    IN Changed(found, existing) # {} \/ Stale(found, existing) # {}
-----------------------------------------------------------------------------
\* RetrievalConfig::validate.
Valid(sources) ==
    /\ sources # <<>>
    /\ \A j, k \in DOMAIN sources : j # k => sources[j].name # sources[k].name

\* rebuild up to the transaction: the configuration is valid, initialize_schema creates
\* the tables and writes the metadata, which needs the write lock for a moment.  (That
\* commit makes the snapshots of other rebuilds stale too; here they stay fresh, which
\* only lets more rebuilds succeed.)
Begin(i) ==
    /\ tx[i].pc = "idle" /\ rebuilds < MaxRebuilds
    /\ Valid(config)
    /\ writer = NoOne
    /\ rebuilds' = rebuilds + 1
    /\ file' = IF file = "absent" THEN "created" ELSE file
    /\ tx' = [tx EXCEPT ![i] = [Idle EXCEPT !.pc = "collect", !.sources = config]]
    /\ UNCHANGED <<world, config, index, writer, budget, reply, built, changes>>

\* collect_documents_for_source for the next source.
CollectSource(i) ==
    /\ tx[i].pc = "collect" /\ tx[i].sources # <<>>
    /\ LET result == Collect(Head(tx[i].sources), budget[i])
       IN /\ tx' = [tx EXCEPT ![i].pc = "apply", ![i].found = result.found,
                              ![i].collected = Append(@, [name |-> Head(tx[i].sources).name,
                                                          found |-> result.found])]
          /\ budget' = [budget EXCEPT ![i] = result.budget]
    /\ UNCHANGED <<world, config, index, file, writer, reply, built, changes, rebuilds>>

\* The first statement of the transaction is a read and fixes its snapshot.
Table(i) == IF tx[i].read THEN tx[i].table ELSE index
MayWrite(i) == writer = i \/ (writer = NoOne /\ ~tx[i].stale)

\* apply_source_documents.
ApplySource(i) ==
    /\ tx[i].pc = "apply"
    /\ LET entry == Head(tx[i].sources)
           writes == Writes(Table(i), entry, tx[i].found)
       IN /\ writes => MayWrite(i)
          /\ writer' = IF writes THEN i ELSE writer
          /\ tx' = [tx EXCEPT ![i].pc = "collect", ![i].sources = Tail(@),
                              ![i].found = <<>>, ![i].read = TRUE,
                              ![i].table = Applied(Table(i), entry, tx[i].found)]
    /\ UNCHANGED <<world, config, index, file, budget, reply, built, changes, rebuilds>>

\* rebuild returns: its transaction and its budget are gone.
Reset(i) ==
    /\ tx' = [tx EXCEPT ![i] = Idle]
    /\ budget' = [budget EXCEPT ![i] = NewBudget]

\* A write that SQLite refuses: the error leaves rebuild and rolls the transaction back.
ApplyFails(i) ==
    /\ tx[i].pc = "apply"
    /\ Writes(Table(i), Head(tx[i].sources), tx[i].found) /\ ~MayWrite(i)
    /\ Reset(i)
    /\ UNCHANGED <<world, config, index, file, writer, reply, built, changes, rebuilds>>

\* The commit publishes the table.  A transaction that wrote nothing publishes nothing;
\* what it found counts only when its snapshot is still the newest.
Commit(i) ==
    /\ tx[i].pc = "collect" /\ tx[i].sources = <<>>
    /\ index' = IF writer = i THEN tx[i].table ELSE index
    /\ built' = IF writer = i \/ ~tx[i].stale THEN tx[i].collected ELSE built
    /\ writer' = IF writer = i THEN NoOne ELSE writer
    /\ tx' = [j \in Indexers |->
                CASE j = i -> [Idle EXCEPT !.pc = "finish"]
                  [] j # i /\ writer = i /\ tx[j].read -> [tx[j] EXCEPT !.stale = TRUE]
                  [] OTHER -> tx[j]]
    /\ UNCHANGED <<world, config, file, budget, reply, changes, rebuilds>>

\* quick_check and set_secure_permissions; a failure of either is reported after the
\* commit, and leaves it in place.
Secure(i) ==
    /\ tx[i].pc = "finish"
    /\ file' \in {file, "secure"}
    /\ Reset(i)
    /\ UNCHANGED <<world, config, index, writer, reply, built, changes, rebuilds>>

\* The process is killed, or fails before the commit.
Kill(i) ==
    /\ tx[i].pc # "idle"
    /\ Reset(i)
    /\ writer' = IF writer = i THEN NoOne ELSE writer
    /\ UNCHANGED <<world, config, index, file, reply, built, changes, rebuilds>>

\* QueryEngine::query, one statement over the committed index.  It refuses an index that
\* is missing, or that group or others may write, which no rebuild makes it.
Query(body) ==
    /\ reply' = IF file # "absent"
                THEN {[path |-> p, row |-> index[p]] :
                        p \in {q \in DOMAIN index : index[q].body = body}}
                ELSE {}
    /\ UNCHANGED <<world, config, index, file, writer, tx, budget, built, changes, rebuilds>>

Change ==
    /\ changes < MaxChanges /\ changes' = changes + 1
    /\ world' \in Worlds /\ config' \in Configs
    /\ UNCHANGED <<index, file, writer, tx, budget, reply, built, rebuilds>>

RetrievalNext ==
    \/ \E i \in Indexers : Begin(i) \/ CollectSource(i) \/ ApplySource(i) \/ ApplyFails(i)
                           \/ Commit(i) \/ Secure(i) \/ Kill(i)
    \/ \E row \in {index[p] : p \in DOMAIN index} : Query(row.body)
    \/ Change

RetrievalSpec == RetrievalInit /\ [][RetrievalNext]_retrievalVars
-----------------------------------------------------------------------------
Claimants(path) ==
    {k \in DOMAIN built : \E n \in DOMAIN built[k].found : built[k].found[n].path = path}

\* The committed index is what one complete rebuild makes of what it collected, whatever
\* ran beside it, was killed or was refused: a path belongs to the last configured
\* source that collected it and has a body collected there, and a path that none
\* collected is left only from a source that is no longer configured (rebuild,
\* apply_source_documents).
IndexExact ==
    /\ built = <<>> => index = Empty
    /\ \A k \in DOMAIN built : \A n \in DOMAIN built[k].found :
            built[k].found[n].path \in DOMAIN index
    /\ \A p \in DOMAIN index :
        IF Claimants(p) # {}
        THEN LET last == CHOOSE k \in Claimants(p) : \A j \in Claimants(p) : j <= k
             IN /\ index[p].source = built[last].name
                /\ \E n \in DOMAIN built[last].found :
                      built[last].found[n] = [path |-> p, body |-> index[p].body]
        ELSE \A k \in DOMAIN built : built[k].name # index[p].source
=============================================================================

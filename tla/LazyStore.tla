------------------------------- MODULE LazyStore -------------------------------
(***************************************************************************)
(* The pattern most of the API's services keep their state with: one       *)
(* document in the storage provider, read by the first operation after a   *)
(* boot (ensure, ensureLoaded), kept in memory, changed there, and written *)
(* back whole by persist().  An operation answers when its own put has     *)
(* landed; another one may have changed memory and put again meanwhile.    *)
(*                                                                         *)
(* A store is a record, so that a service is one variable:                 *)
(*    mem     the document in memory                                       *)
(*    loaded  whether this boot has read it                                *)
(*    disk    the document the provider holds                              *)
(*    puts    the snapshots on their way, with what each will acknowledge  *)
(*    acked   ghost: what callers have been told is done                   *)
(*                                                                         *)
(* The local driver writes in the order of the puts (a synchronous write); *)
(* the Postgres driver sends each on one of four connections and they land *)
(* in any order: a service says which with the InOrder it passes.  One     *)
(* simplification: the first read after a boot is over before anything     *)
(* else happens (ConsultationQueue models the race of two first reads).    *)
(***************************************************************************)
EXTENDS Naturals, SequencesExt

NewStore(empty) ==
    [mem |-> empty, loaded |-> FALSE, disk |-> empty, puts |-> <<>>, acked |-> {}]

StoreType(docs, facts) ==
    [mem : docs, loaded : BOOLEAN, disk : docs,
     puts : Seq([doc : docs, fact : facts]), acked : SUBSET facts]

\* ensure(): the first read of a boot.
Load(st) ==
    [st EXCEPT !.mem = st.disk, !.loaded = TRUE]

\* persist() of doc, in answer to the request that reports fact when it is done.
Save(st, doc, fact) ==
    [st EXCEPT !.mem = doc, !.puts = Append(@, [doc |-> doc, fact |-> fact])]

\* A put lands, and its request answers.
Land(st, i) ==
    [st EXCEPT !.disk = st.puts[i].doc,
               !.acked = @ \cup {st.puts[i].fact},
               !.puts = RemoveAt(@, i)]

\* A put fails: its request ends in an error; memory keeps the change.
Refuse(st, i) ==
    [st EXCEPT !.puts = RemoveAt(@, i)]

\* The process ends; puts that have not landed never will.
Crash(st, empty) ==
    [st EXCEPT !.mem = empty, !.loaded = FALSE, !.puts = <<>>]

\* Whether the request that reports fact is still waiting.
Waiting(st, fact) ==
    \E i \in DOMAIN st.puts : st.puts[i].fact = fact

\* The puts that may be next to land or to fail.
Due(st, inOrder) ==
    {i \in DOMAIN st.puts : inOrder => i = 1}

\* What a store may become without any operation of its service.
Landings(st, inOrder) ==
    {Land(st, i) : i \in Due(st, inOrder)}

Refusals(st, inOrder) ==
    {Refuse(st, i) : i \in Due(st, inOrder)}

Settles(st, inOrder) ==
    Landings(st, inOrder) \cup Refusals(st, inOrder)
=================================================================================

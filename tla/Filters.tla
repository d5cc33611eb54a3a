------------------------------- MODULE Filters -------------------------------
(***************************************************************************)
(* A member's content filters (domain/filters.rs) as the two APIs of       *)
(* api/filters.rs change them: v2 sees filters with keywords and posts, v1 *)
(* one filter per keyword, so that what a v1 client asks of one of its     *)
(* filters happens to a record that holds parts of others.  A request is   *)
(* one write (see Writes).  A filter's title and action are left out, and  *)
(* how a word is looked for in a text: Text says which words a post has.   *)
(* The clock moves on between the requests, so that no id comes twice.     *)
(***************************************************************************)
EXTENDS Writes

CONSTANTS Places,      \* MAX_FILTERS_PER_ACCOUNT of them
          MaxWords,    \* MAX_FILTER_KEYWORDS
          MaxPosts,    \* MAX_FILTER_STATUSES
          Words, Posts,
          Text,        \* the words of each post
          Contexts,    \* FILTER_CONTEXTS
          Terms,       \* where a filter applies and until when
          Never,       \* a filter that does not expire
          MaxId        \* bound: filters and parts ever

FiltersAssumption ==
  /\ Places \subseteq Nat /\ {MaxWords, MaxPosts, MaxId} \subseteq Nat
  /\ Text \in [Posts -> SUBSET Words]
  /\ \A t \in Terms : t.on \in SUBSET Contexts \ {{}} /\ t.until \in {Never, 0, 1}

VARIABLES now,       \* 0, then 1, when some filters have expired
          next,      \* the id clock
          wanted     \* the parts given and not asked to go

vars == <<wvars, now, next, wanted>>

NoFilter == [id |-> 0, terms |-> [on |-> {}, until |-> Never], words |-> {}, posts |-> {}]
Used == {p \in Places : disk[p] # NoFilter}
Part(id, what) == [id |-> id, what |-> what]
\* A part and the filter it was given to.
Given(f) == {[in |-> f.id, id |-> x.id, what |-> x.what] : x \in f.words \cup f.posts}

(***************************************************************************)
(* Saving and deleting.  What a request takes away is what its client      *)
(* named, whatever the handler then does with the record.                  *)
(***************************************************************************)
Asks(p, ends, gone, adds) ==
  /\ Ready
  /\ Does([op |-> "filter", gone |-> gone, adds |-> adds], ends)
  /\ wanted' = IF Len(ends) = 1 THEN (wanted \ gone) \cup adds ELSE wanted
  /\ UNCHANGED now
\* save_filter: new parts have id 0 until here; nothing is written when nothing changes.
Save(p, old, f, newWords, newPosts, gone) ==
  LET n == next + (IF f.id = 0 THEN 1 ELSE 0)
      new == SetToSeq(newWords) \o SetToSeq(newPosts)
      named == [i \in DOMAIN new |-> Part(n + i - 1, new[i])]
      rec == [f EXCEPT !.id = IF @ = 0 THEN next ELSE @,
                       !.words = @ \cup {x \in Range(named) : x.what \in Words},
                       !.posts = @ \cup {x \in Range(named) : x.what \in Posts}]
  IN /\ Ready
     /\ Cardinality(rec.words) <= MaxWords /\ Cardinality(rec.posts) <= MaxPosts
     /\ n + Len(new) <= MaxId + 1 /\ next' = n + Len(new)
     /\ Asks(p, PutNew(Begin, [disk EXCEPT ![p] = rec]), gone, Given(rec) \ (Given(old) \ gone))
\* delete_filter
Delete(p, gone) ==
  Asks(p, Erase(Begin, [disk EXCEPT ![p] = NoFilter]), gone, {}) /\ UNCHANGED next
\* create_v2 and v1's POST: the first free place
Free == CHOOSE p \in Places \ Used : \A q \in Places \ Used : p <= q
Create(terms, words) ==
  /\ Used # Places
  /\ Save(Free, NoFilter, [NoFilter EXCEPT !.terms = terms], words, {}, {})

\* v1's POST: a filter of one keyword
CreateV1(terms, w) == Create(terms, {w})

(***************************************************************************)
(* The second version: a filter and its parts.                             *)
(***************************************************************************)
Named(f, x) == {g \in Given(f) : g.id = x.id}
Reworded(set, x, w) == (set \ {x}) \cup {Part(x.id, w)}
\* apply_keywords: one keyword goes or is changed, others come.
Update(p, terms, drop, words) ==
  /\ p \in Used
  /\ LET f == disk[p]
     IN Save(p, f, [f EXCEPT !.terms = terms, !.words = @ \ drop], words, {}, UNION {Named(f, x) : x \in drop})
AddWord(p, w) == Save(p, disk[p], disk[p], {w}, {}, {})
SetWord(p, x, w) ==
  Save(p, disk[p], [disk[p] EXCEPT !.words = Reworded(@, x, w)], {}, {}, Named(disk[p], x))
DropWord(p, x) ==
  Save(p, disk[p], [disk[p] EXCEPT !.words = @ \ {x}], {}, {}, Named(disk[p], x))
AddPost(p, s) ==
  Save(p, disk[p], disk[p], {}, IF \E x \in disk[p].posts : x.what = s THEN {} ELSE {s}, {})
DropPost(p, x) ==
  Save(p, disk[p], [disk[p] EXCEPT !.posts = @ \ {x}], {}, {}, Named(disk[p], x))
DeleteV2(p) == p \in Used /\ Delete(p, Given(disk[p]))

(***************************************************************************)
(* The first version: a keyword, with the terms of the filter that has it. *)
(***************************************************************************)
UpdateV1(p, x, w, terms) ==
  Save(p, disk[p], [disk[p] EXCEPT !.words = Reworded(@, x, w), !.terms = terms], {}, {}, Named(disk[p], x))
\* Mutant: the last keyword takes the filter with it.
DeleteV1Whole(p, x) ==
  LET left == [disk[p] EXCEPT !.words = @ \ {x}]
  IN IF left.words = {} THEN Delete(p, Named(disk[p], x))
     ELSE Save(p, disk[p], left, {}, {}, Named(disk[p], x))
DeleteV1(p, x) ==
  LET left == [disk[p] EXCEPT !.words = @ \ {x}]
  IN IF left.words = {} /\ left.posts = {} THEN Delete(p, Named(disk[p], x))
     ELSE Save(p, disk[p], left, {}, {}, Named(disk[p], x))

(***************************************************************************)
(* The write, its failures and the restart.                                *)
(***************************************************************************)
Outcome(gone, adds) == wanted' = (wanted \ gone) \cup adds
Write == Step /\ Outcome(doing.gone, doing.adds) /\ UNCHANGED <<now, next>>
Refused == Full(Begin) /\ UNCHANGED <<now, next, wanted>>
\* Nothing is promised of what the request took away or changed.
Fails == Breaks /\ Outcome(doing.gone, {}) /\ UNCHANGED <<now, next>>
Stops ==
  /\ PowerCut
  /\ Outcome(IF doing = Nothing THEN {} ELSE doing.gone, {})
  /\ UNCHANGED <<now, next>>
Boot == up = "off" /\ up' = "ready" /\ UNCHANGED <<disk, todo, doing, faults, now, next, wanted>>
Tick == now = 0 /\ now' = 1 /\ UNCHANGED <<wvars, next, wanted>>

Init ==
  /\ disk = [p \in Places |-> NoFilter] /\ up = "ready" /\ todo = <<>> /\ doing = Nothing
  /\ faults = 0 /\ now = 0 /\ next = 1 /\ wanted = {}

Next ==
  \/ \E terms \in Terms : (\E words \in SUBSET Words : Create(terms, words)) \/ (\E w \in Words : CreateV1(terms, w))
  \/ \E p \in Places :
       \/ DeleteV2(p)
       \/ \E terms \in Terms, drop \in SUBSET disk[p].words, words \in SUBSET Words :
            Update(p, terms, drop, words)
       \/ \E x \in disk[p].words :
            \/ DropWord(p, x) \/ DeleteV1(p, x)
            \/ \E w \in Words : SetWord(p, x, w) \/ \E terms \in Terms : UpdateV1(p, x, w, terms)
       \/ p \in Used /\ ((\E s \in Posts : AddPost(p, s)) \/ (\E w \in Words : AddWord(p, w)))
       \/ \E x \in disk[p].posts : DropPost(p, x)
  \/ Write \/ Refused \/ Fails \/ Stops \/ Boot \/ Tick

Spec == Init /\ [][Next]_vars

(***************************************************************************)
(* What a page of statuses or notifications says of them.                  *)
(***************************************************************************)
Live(f, c) == c \in f.terms.on /\ (f.terms.until = Never \/ f.terms.until > now)
Shows(row, what) == what = row.post \/ what \in Text[row.post]
\* filter_matches
Matches(row, c) ==
  {f \in {disk[p] : p \in Used} : Live(f, c) /\ \E x \in f.words \cup f.posts : Shows(row, x.what)}
Rows == [kind : {"post", "boost", "note"}, post : Posts]
\* annotate: a boost is what it boosts, a notification the post it is about.
Annotate(row, c) == {f.id : f \in Matches(row, c)}

(***************************************************************************)
(* Properties.                                                             *)
(***************************************************************************)
\* The types of the state; ids are below the clock and come once.
TypeOK ==
  /\ up \in {"ready", "latched", "off"} /\ now \in 0..1 /\ next \in 1..MaxId + 1
  /\ \A p \in Used : disk[p].id \in 1..next - 1
  /\ \A p, q \in Used : p # q => {g.id : g \in Given(disk[p])} \cap {g.id : g \in Given(disk[q])} = {}

\* A keyword or post that a member was told is filtered stays in the filter it
\* was given to, as it was last written, until a request that names it, or
\* the whole filter, takes it away - also over what v1 clients do to other
\* keywords of the same record, full flash, failed writes and power cuts.
PartsHeld == up # "off" => \A g \in wanted : \E p \in Used : g \in Given(disk[p])

\* While its filter applies, what was given to it marks every row that shows
\* it, in each context the filter is for: a post, a boost of it, or a
\* notification about it.
RowsMarked ==
  up # "off" =>
    \A p \in Used, g \in wanted, c \in Contexts :
      disk[p].id = g.in /\ Live(disk[p], c) =>
        \A row \in Rows : Shows(row, g.what) => g.in \in Annotate(row, c)
=============================================================================

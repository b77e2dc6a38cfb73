--------------------------- MODULE PublishedBundle ---------------------------
(***************************************************************************)
(* The published corpus as the watch isolate reads it: a manifest that     *)
(* names the exact bytes of the index and of the numbers, three files that *)
(* are uploaded one at a time, and a cache of each of them that expires on *)
(* its own.  A file is the generation it was built in; the manifest of     *)
(* generation g names the index and the numbers of g.  A check of the      *)
(* rules reads index and numbers together; a request for an identity reads *)
(* the manifest, and then the index, which asks for the manifest again.    *)
(***************************************************************************)
EXTENDS Naturals

CONSTANTS
  Generations, \* how many bundles are ever built
  Checks,      \* runs of checkRules
  Asks         \* posts to /api/identity

VARIABLES
  site,   \* the newest uploaded generation of each file
  cache,  \* publishedCache: what is kept of each file (0: nothing) and whether its time is not over
  flight, \* manifestFlight: the reads of the manifest in progress, and what each got
  part,   \* each reader's calls of index() and numbers()
  ask     \* each request for an identity

vars == <<site, cache, flight, part, ask>>

Files   == {"manifest", "index", "numbers"}
Readers == Checks \cup Asks
Parts   == (Checks \X {"index", "numbers"}) \cup (Asks \X {"index"})
Gens    == 0..Generations
Nothing == 0

Idle   == [at |-> "idle", bound |-> 0, got |-> 0]
NoRead == [open |-> FALSE, got |-> 0]
Steps  == {"idle", "manifest", "read", "fetch", "done"}
Kept   == [gen : Gens, fresh : BOOLEAN]

TypeOK ==
  /\ site \in [Files -> Gens]
  /\ cache \in [Files -> Kept]
  /\ flight \in [open : BOOLEAN, got : Gens]
  /\ part \in [Parts -> [at : Steps, bound : Gens, got : Gens]]
  /\ ask \in [Asks -> [at : {"new", "manifest", "index", "answered"}, state : Gens,
                       answer : {"none", "shape", "rate_limited", "corpus_unavailable", "ok"}]]

Init ==
  /\ site = [f \in Files |-> 1]
  /\ cache = [f \in Files |-> [gen |-> 0, fresh |-> FALSE]]
  /\ flight = NoRead
  /\ part = [p \in Parts |-> Idle]
  /\ ask = [a \in Asks |-> [at |-> "new", state |-> 0, answer |-> "none"]]

-----------------------------------------------------------------------------
\* The files of a new bundle are put up one after another, in any order.
Upload(f) ==
  /\ site[f] < Generations
  /\ site' = [site EXCEPT ![f] = @ + 1]
  /\ UNCHANGED <<cache, flight, part, ask>>

\* indexTtlMs goes by, for each file from the time it was asked for.
Expire(f) ==
  /\ cache[f].fresh
  /\ cache' = [cache EXCEPT ![f].fresh = FALSE]
  /\ UNCHANGED <<site, flight, part, ask>>

\* publishedResponseBytes: what an edge of the site has of the file, or nothing: no answer in time,
\* a refusal, another length than announced, more than allowed, an aborted read.
Served(f) == {Nothing} \cup 1..site[f]

\* manifestState: the kept record while its time lasts, or the one read in progress, or a new read.
Known == cache["manifest"].gen # 0 /\ cache["manifest"].fresh

\* A call that found the record goes on at once; one that did not waits for the read.
Asked == IF Known THEN [at |-> "read", bound |-> cache["manifest"].gen, got |-> 0]
                  ELSE [Idle EXCEPT !.at = "manifest"]

StartsRead == flight' = IF Known THEN flight ELSE [flight EXCEPT !.open = TRUE]

\* The bytes of the manifest are there; their digest is still to be computed.
Fetched ==
  /\ flight.open /\ flight.got = Nothing
  /\ \E g \in Served("manifest") \ {Nothing} : flight' = [flight EXCEPT !.got = g]
  /\ UNCHANGED <<site, cache, part, ask>>

\* A new generation drops the index and the numbers of the one before.
Remembered(g) ==
  LET Empty == [gen |-> 0, fresh |-> FALSE]
  IN  [f \in Files |-> IF f = "manifest" THEN [gen |-> g, fresh |-> TRUE]
                       ELSE IF cache["manifest"].gen # g THEN Empty ELSE cache[f]]

\* Everyone who waits for the read gets its record, or nothing when it failed.
Settled(g) ==
  /\ flight' = NoRead
  /\ part' = [p \in Parts |-> IF part[p].at # "manifest" THEN part[p]
                              ELSE [at |-> IF g = Nothing THEN "done" ELSE "read", bound |-> g, got |-> 0]]
  /\ ask' = [a \in Asks |-> IF ask[a].at # "manifest" THEN ask[a]
                            ELSE IF g = Nothing THEN [at |-> "answered", state |-> 0, answer |-> "corpus_unavailable"]
                            ELSE [ask[a] EXCEPT !.state = g]]
  /\ UNCHANGED site

ManifestRead   == flight.open /\ flight.got # Nothing /\ Settled(flight.got) /\ cache' = Remembered(flight.got)
ManifestFailed == flight.open /\ Settled(Nothing) /\ UNCHANGED cache

-----------------------------------------------------------------------------
\* index() and numbers(): the kept bytes serve only the generation they were read for.
Reusable(f, bound) == cache[f].gen = bound /\ cache[f].fresh

\* Otherwise the file is fetched.
Fetch(p) ==
  LET f == p[2]
  IN  /\ part[p].at = "read"
      /\ part' = [part EXCEPT ![p] =
                    IF Reusable(f, @.bound) THEN [at |-> "done", bound |-> @.bound, got |-> @.bound]
                                            ELSE [at |-> "fetch", bound |-> @.bound, got |-> Nothing]]
      /\ UNCHANGED <<site, cache, flight, ask>>

\* Faulty variant: the bytes are taken for what they were fetched as.
AcceptsAnyBytes(bytes, bound) == bytes # Nothing

\* Length, digest and contents are those the manifest names.
Accepts(bytes, bound) == bytes = bound

\* The bytes arrive and their digest is computed; they are kept if the manifest they were read for is still the one remembered.
Take(p) ==
  LET f == p[2]  bound == part[p].bound
  IN  /\ part[p].at = "fetch"
      /\ \E bytes \in Served(f) :
           IF Accepts(bytes, bound)
             THEN /\ part' = [part EXCEPT ![p].at = "done", ![p].got = bytes]
                  /\ cache' = IF cache["manifest"].gen = bound
                                THEN [cache EXCEPT ![f] = [gen |-> bytes, fresh |-> TRUE]] ELSE cache
             ELSE part' = [part EXCEPT ![p].at = "done"] /\ UNCHANGED cache
      /\ UNCHANGED <<site, flight, ask>>

-----------------------------------------------------------------------------
\* checkRules asks for both in one breath; a rule of another kind needs the index alone.
Check(c) ==
  /\ \A p \in Parts : p[1] = c => part[p].at \in {"idle", "done"}
  /\ \E both \in BOOLEAN :
       part' = [p \in Parts |-> IF p[1] # c THEN part[p]
                                ELSE IF p[2] = "index" \/ both THEN Asked ELSE Idle]
  /\ StartsRead
  /\ UNCHANGED <<site, cache, ask>>

\* The Worker turns a request away before the object hears of it, or hands it on.
Turned(a) ==
  /\ ask[a].at = "new"
  /\ \E why \in {"rate_limited", "shape"} : ask' = [ask EXCEPT ![a].at = "answered", ![a].answer = why]
  /\ UNCHANGED <<site, cache, flight, part>>

Identity(a) ==
  /\ ask[a].at = "new"
  /\ ask' = [ask EXCEPT ![a].at = "manifest", ![a].state = IF Known THEN cache["manifest"].gen ELSE 0]
  /\ StartsRead
  /\ UNCHANGED <<site, cache, part>>

\* With the record at hand the request calls index(), which asks for the manifest itself.
IdentityIndex(a) ==
  /\ ask[a].at = "manifest" /\ ask[a].state # 0
  /\ ask' = [ask EXCEPT ![a].at = "index"]
  /\ part' = [part EXCEPT ![<<a, "index">>] = Asked]
  /\ StartsRead
  /\ UNCHANGED <<site, cache>>

\* The answer states the manifest of the first call and the result of the second.
Answer(a) ==
  /\ ask[a].at = "index" /\ part[<<a, "index">>].at = "done"
  /\ ask' = [ask EXCEPT ![a].at = "answered",
                        ![a].answer = IF part[<<a, "index">>].got = Nothing THEN "corpus_unavailable" ELSE "ok"]
  /\ UNCHANGED <<site, cache, flight, part>>

Again(a) ==
  /\ ask[a].at = "answered"
  /\ ask' = [ask EXCEPT ![a] = [at |-> "new", state |-> 0, answer |-> "none"]]
  /\ part' = [part EXCEPT ![<<a, "index">>] = Idle]
  /\ UNCHANGED <<site, cache, flight>>

Next ==
  \/ \E f \in Files : Upload(f) \/ Expire(f)
  \/ Fetched \/ ManifestRead \/ ManifestFailed
  \/ \E p \in Parts : Fetch(p) \/ Take(p)
  \/ \E c \in Checks : Check(c)
  \/ \E a \in Asks : Turned(a) \/ Identity(a) \/ IdentityIndex(a) \/ Answer(a) \/ Again(a)

Spec == Init /\ [][Next]_vars

-----------------------------------------------------------------------------
(* Properties.                                                             *)

\* A rule is checked against an index and a snapshot boundary of one bundle, however the uploads, the
\* expiries and the other readers fall between the reads.
PairIsOne ==
  \A c \in Checks : LET i == part[<<c, "index">>]  n == part[<<c, "numbers">>]
                    IN  i.at = "done" /\ n.at = "done" /\ i.got # 0 /\ n.got # 0 => i.got = n.got

\* What an identity answer says of the corpus is said of the corpus the result was read from.
AnswerIsOfItsCorpus ==
  \A a \in Asks : ask[a].answer = "ok" => ask[a].state = part[<<a, "index">>].got
=============================================================================

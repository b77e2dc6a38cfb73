------------------------------- MODULE Holders -----------------------------
(***************************************************************************)
(* What the bot keeps of a person: the one-time marks of /verify in the    *)
(* Watch object, the session a checked signature earns and the list of     *)
(* watched wallets, both in Workers KV.  The hold page, /forget, /watch    *)
(* and /unwatch run as requests of their own and overlap: each reads,      *)
(* waits and writes back.  KV may answer with the value it held before.    *)
(***************************************************************************)
EXTENDS Naturals, FiniteSets

CONSTANTS
  People,   \* telegram ids
  Wallets,  \* addresses; the zero address and malformed ones are refused before anything is read
  Marks,    \* one-time marks, each drawn at most once
  Checks,   \* posts of the hold page
  Edits,    \* /watch and /unwatch requests
  Holding,  \* Holding[w]: how many whole tokens the wallet holds
  Threshold,\* THRESHOLD_WHOLE_TOKENS
  MaxWatched,
  None

VARIABLES
  mark,     \* holder_nonce: each mark's owner and whether it expired, and the marks not drawn yet
  session,  \* session:<id>
  list,     \* copy-watch:<id>, and the value a cache may still serve
  check,    \* each post of the hold page: its step, the mark and wallet it names, its signer, the id it was told
  edit,     \* each /watch or /unwatch: its step, what it asks, and the list it read
  granted   \* history: the sessions each mark earned

vars == <<mark, session, list, check, edit, granted>>

Row == [owner: People \cup {None}, state: {"unused", "live", "expired", "gone"}]

TypeOK ==
  /\ mark \in [Marks -> Row]
  /\ session \in [People -> Wallets \cup {None}]
  /\ list \in [People -> [now: SUBSET Wallets, before: SUBSET Wallets]]
  /\ check \in [Checks -> [at: {"new", "told", "read", "done"}, mark: Marks, claimed: Wallets, signer: Wallets,
                           id: People \cup {None}]]
  /\ edit \in [Edits -> [at: {"new", "read", "done"}, id: People, wallet: Wallets, add: BOOLEAN, saw: SUBSET Wallets]]
  /\ granted \in [Marks -> SUBSET (People \X Wallets \X Checks)]

Init ==
  /\ mark = [m \in Marks |-> [owner |-> None, state |-> "unused"]]
  /\ session = [p \in People |-> None]
  /\ list = [p \in People |-> [now |-> {}, before |-> {}]]
  /\ check = [c \in Checks |-> [at |-> "new", mark |-> CHOOSE m \in Marks : TRUE, claimed |-> CHOOSE w \in Wallets : TRUE,
                                signer |-> CHOOSE w \in Wallets : TRUE, id |-> None]]
  /\ edit = [e \in Edits |-> [at |-> "new", id |-> CHOOSE p \in People : TRUE, wallet |-> CHOOSE w \in Wallets : TRUE,
                              add |-> TRUE, saw |-> {}]]
  /\ granted = [m \in Marks |-> {}]

-----------------------------------------------------------------------------
\* /verify: a mark of one's own, unless the store refuses it.
PutNonce(p, m) ==
  /\ mark[m].state = "unused"
  /\ mark' = [mark EXCEPT ![m] = [owner |-> p, state |-> "live"]]
  /\ UNCHANGED <<session, list, check, edit, granted>>

MarkExpires(m) ==
  /\ mark[m].state = "live" /\ mark' = [mark EXCEPT ![m].state = "expired"]
  /\ UNCHANGED <<session, list, check, edit, granted>>

\* pruneNonces and the sweep before each insert.
PruneNonces ==
  /\ \E m \in Marks : mark[m].state = "expired"
  /\ mark' = [m \in Marks |-> IF mark[m].state = "expired" THEN [mark[m] EXCEPT !.state = "gone"] ELSE mark[m]]
  /\ UNCHANGED <<session, list, check, edit, granted>>

\* Faulty variant: a mark that was looked up is kept for another try.
TakenLater(m) == mark

\* take: the row is deleted whatever it says, and only an unexpired one tells its owner.
Taken(m) == IF mark[m].state = "unused" THEN mark ELSE [mark EXCEPT ![m].state = "gone"]
Owner(m) == IF mark[m].state = "live" THEN mark[m].owner ELSE None

\* The page posts a mark, an address and a signature, which a wallet of anybody may have made.
SpendNonce(c, m, claimed, signer) ==
  /\ check[c].at = "new"
  /\ mark' = Taken(m)
  /\ check' = [check EXCEPT ![c] = [at |-> IF Owner(m) = None \/ signer # claimed THEN "done" ELSE "told",
                                    mark |-> m, claimed |-> claimed, signer |-> signer, id |-> Owner(m)]]
  /\ UNCHANGED <<session, list, edit, granted>>

Answered(c) == check' = [check EXCEPT ![c].at = "done"]

\* The token, its decimals and the balance are read; a reading that fails ends the check.
ReadBalance(c) ==
  /\ check[c].at = "told"
  /\ \/ Answered(c)
     \/ Holding[check[c].signer] >= Threshold /\ check' = [check EXCEPT ![c].at = "read"]
  /\ UNCHANGED <<mark, session, list, edit, granted>>

PutSession(c) ==
  LET k == check[c]
  IN  /\ k.at = "read" /\ Answered(c)
      /\ session' = [session EXCEPT ![k.id] = k.signer]
      /\ granted' = [granted EXCEPT ![k.mark] = @ \cup {<<k.id, k.signer, c>>}]
      /\ UNCHANGED <<mark, list, edit>>

SessionExpires(p) ==
  /\ session[p] # None /\ session' = [session EXCEPT ![p] = None]
  /\ UNCHANGED <<mark, list, check, edit, granted>>

-----------------------------------------------------------------------------
\* /forget: each deletion runs by itself, and one of them may fail.  Marks are left to expire.
Put(p, wallets) == [list EXCEPT ![p] = [now |-> wallets, before |-> @.now]]

Forget(p) ==
  /\ session' \in {session, [session EXCEPT ![p] = None]}
  /\ list' \in {list, Put(p, {})}
  /\ <<session', list'>> # <<session, list>>
  /\ UNCHANGED <<mark, check, edit, granted>>

Settles(p) ==
  /\ list[p].before # list[p].now /\ list' = [list EXCEPT ![p].before = list[p].now]
  /\ UNCHANGED <<mark, session, check, edit, granted>>

\* watchedWallets: the list as KV serves it.
ReadList(e, p, w, add) ==
  /\ edit[e].at = "new"
  /\ \E saw \in {list[p].now, list[p].before} :
       edit' = [edit EXCEPT ![e] = [at |-> "read", id |-> p, wallet |-> w, add |-> add, saw |-> saw]]
  /\ UNCHANGED <<mark, session, list, check, granted>>

Room(saw) == Cardinality(saw) < MaxWatched

\* addWatchedWallet and removeWatchedWallet write back what they read, changed.
WriteList(e) ==
  LET k == edit[e]
  IN  /\ k.at = "read" /\ edit' = [edit EXCEPT ![e].at = "done"]
      /\ list' = IF k.add
                   THEN IF k.wallet \notin k.saw /\ Room(k.saw) THEN Put(k.id, k.saw \cup {k.wallet}) ELSE list
                   ELSE IF k.wallet \in k.saw THEN Put(k.id, k.saw \ {k.wallet}) ELSE list
      /\ UNCHANGED <<mark, session, check, granted>>

-----------------------------------------------------------------------------
Next ==
  \/ PruneNonces
  \/ \E m \in Marks : MarkExpires(m) \/ \E p \in People : PutNonce(p, m)
  \/ \E c \in Checks : ReadBalance(c) \/ PutSession(c)
  \/ \E c \in Checks, m \in Marks, a, s \in Wallets : SpendNonce(c, m, a, s)
  \/ \E p \in People : SessionExpires(p) \/ Forget(p) \/ Settles(p)
  \/ \E e \in Edits : WriteList(e) \/ \E p \in People, w \in Wallets, add \in BOOLEAN : ReadList(e, p, w, add)

Spec == Init /\ [][Next]_vars

-----------------------------------------------------------------------------
\* One mark earns one session at most, for the person who asked for it and for a wallet that
\* holds enough, however many posts carry it at once; and no session comes from anywhere else.
OneSessionPerMark ==
  /\ \A m \in Marks : /\ Cardinality(granted[m]) <= 1
                      /\ \A g \in granted[m] : g[1] = mark[m].owner /\ Holding[g[2]] >= Threshold
  /\ \A p \in People : session[p] # None => \E m \in Marks : \E g \in granted[m] : g[1] = p /\ g[2] = session[p]

\* A list of watched wallets never outgrows its limit, whatever its edits read: a list that did
\* would be refused whole by every later command.
ListStaysReadable == \A p \in People : Cardinality(list[p].now) <= MaxWatched
=============================================================================

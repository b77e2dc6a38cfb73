----------------------------- MODULE IdentityCounts -----------------------------
(***************************************************************************)
(* What launches say of themselves, counted three times: by the collector  *)
(* into the published index (launch-collect.mjs, launch-index.mjs), by the *)
(* watcher from the hash rows of its tail (tally.js, watch.js), and by the *)
(* page and the rules that read both (site/launch.js, rules.js).           *)
(*                                                                         *)
(* A string is a record of what the normalizers look at: its form, host,   *)
(* word, the shape the word folds to, whether its letters have a case of   *)
(* their own, and what is hung around it.  Nothing is the empty string.    *)
(* A hash is the value it was taken of: collisions are left out.  Logo and *)
(* name are counted as ticker and link are and are left out with them.     *)
(***************************************************************************)
EXTENDS Naturals, FiniteSets, Sequences

CONSTANTS
  Shapes,       \* launches: by, links, recipient, description, ticker
  LaunchLimit,  \* bound: launches on the chain
  Links,        \* the link fields in their order
  Platform,     \* field -> host, for the fields that name their platform
  Hosts,        \* host -> the host it stands for
  MinWords,
  Nothing

VARIABLES
  launches,  \* what was launched, in order
  window     \* how many of them the published index covers

vars == <<launches, window>>

TypeOK == launches \in Seq(Shapes) /\ window \in 0..Len(launches)

CountFloor == 2
MinShared  == 2

-----------------------------------------------------------------------------
(* The normalizers.                                                        *)

\* A web address loses scheme, www, slash and fragment; any other scheme is kept whole.
LinkRaw(s) == IF s = Nothing \/ s.form = "content" THEN s ELSE [s EXCEPT !.around = IF @ = "https" THEN Nothing ELSE @]

\* Then the alias table: a handle in a field of a platform is its page, and on a known host the case goes.
Link(s, field) ==
  LET raw == LinkRaw(s)
  IN  IF raw = Nothing THEN Nothing
      ELSE IF raw.form = "handle" /\ raw.around \in {Nothing, "@"} /\ field \in DOMAIN Platform
        THEN [raw EXCEPT !.form = "web", !.host = Platform[field], !.cased = FALSE, !.around = Nothing]
      ELSE IF raw.form = "web" /\ raw.host \in DOMAIN Hosts
        THEN [raw EXCEPT !.host = Hosts[raw.host], !.cased = FALSE]
      ELSE raw

\* Upper case, without the dollar signs before it.
Ticker(s) == IF s = Nothing THEN s ELSE [s EXCEPT !.cased = FALSE, !.around = IF @ = "$" THEN Nothing ELSE @]

\* What it looks like: the word is gone, its shape stays.
Skeleton(s) == IF s = Nothing THEN s ELSE [s EXCEPT !.word = s.shape, !.cased = FALSE]

Recipient(s) == CASE s \in {Nothing, "zero"} -> [state |-> "empty",        value |-> Nothing]
                  [] s = "unreadable"        -> [state |-> "not readable", value |-> Nothing]
                  [] OTHER                   -> [state |-> "ok",           value |-> s]

-----------------------------------------------------------------------------
(* Counting.                                                               *)

Namespaces == {"link", "recipient", "description", "ticker", "ticker_skeleton"}
Skeletons  == {"ticker_skeleton"}

Value(ns, value, spelling) == [ns |-> ns, value |-> value, spelling |-> spelling]

\* Every value of a launch, in order.  Those that normalize to nothing are left out when they are added.
ValuesOf(l) ==
  [k \in DOMAIN Links |-> Value("link", Link(l.links[k], Links[k]), Nothing)]
    \o << Value("recipient", Recipient(l.recipient).value, Nothing),
          Value("description", IF l.description.words >= MinWords THEN l.description.text ELSE Nothing, Nothing),
          Value("ticker", Ticker(l.ticker), Nothing),
          Value("ticker_skeleton", Skeleton(Ticker(l.ticker)), Ticker(l.ticker)) >>

NoCounts == [ns \in Namespaces |-> [h \in {} |-> Nothing]]

Earlier(a, b) == IF a < b THEN a ELSE b

\* One more entry under a hash.
WithEntry(t, ns, h, entry) == [t EXCEPT ![ns] = [x \in DOMAIN t[ns] \cup {h} |-> IF x = h THEN entry ELSE t[ns][x]]]

\* The entry of a hash, or the one it starts with.
EntryOf(t, ns, h, date) == IF h \in DOMAIN t[ns] THEN t[ns][h] ELSE [n |-> 0, first |-> date, by |-> {}, spelt |-> {}]

\* Faulty variant: the last launch with a value dates it.
GrownAtLast(e, ns, date, deployer, spelling) ==
  [n |-> e.n + 1, first |-> date, by |-> e.by \cup {deployer},
   spelt |-> e.spelt \cup {x \in {spelling} : ns \in Skeletons /\ x # Nothing}]

\* One more: how many, since when, by whom and, in a skeleton group, how spelt.
Grown(e, ns, date, deployer, spelling) ==
  [n |-> e.n + 1, first |-> Earlier(date, e.first), by |-> e.by \cup {deployer},
   spelt |-> e.spelt \cup {x \in {spelling} : ns \in Skeletons /\ x # Nothing}]

AddHash(t, ns, h, date, deployer, spelling) ==
  IF h = Nothing THEN t ELSE WithEntry(t, ns, h, Grown(EntryOf(t, ns, h, date), ns, date, deployer, spelling))

\* A launch is dated by its place.
AddLaunch(t, i) ==
  LET values == ValuesOf(launches[i])
      added[k \in 0 .. Len(values)] ==
        IF k = 0 THEN t
        ELSE AddHash(added[k - 1], values[k].ns, values[k].value, i, launches[i].by, values[k].spelling)
  IN  added[Len(values)]

\* The collector's tables for the launches from one place to another.
Collected(a, b) ==
  LET counted[i \in 0 .. b] == IF i < a THEN NoCounts ELSE AddLaunch(counted[i - 1], i) IN counted[b]

\* What is published: nothing below the count floor, and no recipient of one deployer only.
BuildIndex(t) ==
  [ns \in Namespaces |->
     [h \in {x \in DOMAIN t[ns] : t[ns][x].n >= CountFloor /\ (ns = "recipient" => Cardinality(t[ns][x].by) >= 2)} |->
        [n |-> t[ns][h].n, d |-> Cardinality(t[ns][h].by), first |-> t[ns][h].first, v |-> Cardinality(t[ns][h].spelt)]]]

Index == BuildIndex(Collected(1, window))

-----------------------------------------------------------------------------
(* The tail: hashes and nothing else.                                      *)

RowOf(l) == [links           |-> [k \in DOMAIN Links |-> Link(l.links[k], Links[k])],
             recipient       |-> Recipient(l.recipient).value,
             description     |-> IF l.description.words >= MinWords THEN l.description.text ELSE Nothing,
             ticker          |-> Ticker(l.ticker),
             ticker_skeleton |-> Skeleton(Ticker(l.ticker))]

\* The exact hash of the ticker stands for its spelling.
AddRow(t, row, date, deployer) ==
  LET linked[k \in 0 .. Len(row.links)] ==
        IF k = 0 THEN t ELSE AddHash(linked[k - 1], "link", row.links[k], date, deployer, Nothing)
      b == AddHash(linked[Len(row.links)], "recipient", row.recipient, date, deployer, Nothing)
      c == AddHash(b, "description", row.description, date, deployer, Nothing)
      d == AddHash(c, "ticker", row.ticker, date, deployer, Nothing)
  IN  AddHash(d, "ticker_skeleton", row.ticker_skeleton, date, deployer, row.ticker)

Tailed(a, b) ==
  LET counted[i \in 0 .. b] ==
        IF i < a THEN NoCounts ELSE AddRow(counted[i - 1], RowOf(launches[i]), i, launches[i].by)
  IN  counted[b]

-----------------------------------------------------------------------------
(* The page's comparison.                                                  *)

Empty  == [state |-> "empty"]
Unique == [state |-> "unique"]

Exact(index, ns, value) ==
  CASE value = Nothing              -> Empty
    [] value \notin DOMAIN index[ns] -> Unique
    [] OTHER -> [state |-> "shared", n |-> index[ns][value].n, d |-> index[ns][value].d, first |-> index[ns][value].first]

\* A group spelt one way is a repeat, which the exact check reports.
Lookalike(index, value) ==
  LET h == Skeleton(value)
  IN  CASE value = Nothing -> Empty
        [] h \in DOMAIN index["ticker_skeleton"] /\ index["ticker_skeleton"][h].v >= 2 ->
             [state |-> "lookalike", n |-> index["ticker_skeleton"][h].n, d |-> index["ticker_skeleton"][h].d, v |-> index["ticker_skeleton"][h].v]
        [] OTHER -> Unique

\* The first of the states, in their order, that a result has.
Fold(results, order) ==
  LET found == {i \in DOMAIN order : \E r \in results : r.state = order[i]}
  IN  IF found = {} THEN "empty" ELSE order[CHOOSE i \in found : \A j \in found : i <= j]

Check(l, index) ==
  LET links == [k \in DOMAIN Links |-> Exact(index, "link", Link(l.links[k], Links[k]))]
      rec   == Recipient(l.recipient)
  IN  [I1 |-> [state |-> Fold({links[k] : k \in DOMAIN Links}, <<"shared", "unique", "empty">>), links |-> links],
       I3 |-> IF rec.state = "ok" THEN Exact(index, "recipient", rec.value) ELSE [state |-> rec.state],
       I4 |-> IF l.description.words \in 1..(MinWords - 1) THEN [state |-> "too short to compare"]
              ELSE Exact(index, "description", l.description.text),
       N1 |-> Exact(index, "ticker", Ticker(l.ticker)),
       N3 |-> Lookalike(index, Ticker(l.ticker))]

-----------------------------------------------------------------------------
(* The rules.                                                              *)

\* What somebody typed, hashed as a ticker and as a link: raw, and once per field.
RifleOf(s) ==
  [ticker |-> Ticker(s), links |-> {LinkRaw(s)} \cup {Link(s, Links[k]) : k \in DOMAIN Links}]

MatchString(rifle, row) ==
  (rifle.ticker # Nothing /\ row.ticker = rifle.ticker) \/ \E k \in DOMAIN Links : row.links[k] # Nothing /\ row.links[k] \in rifle.links

\* The launches after the window that carry a ticker.
TailCount(ticker) == Cardinality({i \in (window + 1)..Len(launches) : Ticker(launches[i].ticker) = ticker})

NoMatch == [exact |-> FALSE, count |-> 0]

\* An entry of the index and the tail after it add up; without one only the tail can prove the threshold.
MatchShared(threshold, n1, tail) ==
  IF n1.state = "shared" /\ n1.n + tail >= threshold THEN [exact |-> TRUE, count |-> n1.n + tail]
  ELSE IF n1.state = "unique" /\ tail >= threshold THEN [exact |-> FALSE, count |-> tail]
  ELSE NoMatch

-----------------------------------------------------------------------------
Init == launches = <<>> /\ window = 0

Launch(l) == Len(launches) < LaunchLimit /\ launches' = Append(launches, l) /\ UNCHANGED window

\* A collection up to some launch is published.
Publish(w) == w > window /\ w <= Len(launches) /\ window' = w /\ UNCHANGED launches

Next == (\E l \in Shapes : Launch(l)) \/ \E w \in 1..LaunchLimit : Publish(w)

Spec == Init /\ [][Next]_vars

-----------------------------------------------------------------------------
(* Properties, against counts of launches taken directly.                  *)

Places == 1..window

TickerPlaces(s) == {i \in Places : Ticker(launches[i].ticker) = Ticker(s)}
LooksLike(s)    == {i \in Places : launches[i].ticker # Nothing /\ Skeleton(Ticker(launches[i].ticker)) = Skeleton(Ticker(s))}
Deployers(ps)   == {launches[i].by : i \in ps}
RecipientOf(s)  == {i \in Places : launches[i].recipient = s}

\* What the page says of a launch, of the window or after it, is what the window holds: shared from two launches on,
\* with their number, their deployers and the first of them; a lookalike exactly when two spellings of one shape are
\* in it; a recipient only when two deployers have it (site/launch.js, launch-index.mjs).
CheckIsTrue ==
  LET index == Index
  IN  \A i \in DOMAIN launches :
        LET l    == launches[i]
            said == Check(l, index)
            same == TickerPlaces(l.ticker)
            like == LooksLike(l.ticker)
            paid == RecipientOf(l.recipient)
        IN  /\ l.ticker # Nothing =>
                 /\ said.N1 = IF Cardinality(same) < 2 THEN Unique
                              ELSE [state |-> "shared", n |-> Cardinality(same), d |-> Cardinality(Deployers(same)),
                                    first |-> CHOOSE first \in same : \A j \in same : first <= j]
                 /\ (said.N3.state = "lookalike") <=> \E j, k \in like : Ticker(launches[j].ticker) # Ticker(launches[k].ticker)
            /\ Recipient(l.recipient).state = "ok" => ((said.I3.state = "shared") <=> Cardinality(Deployers(paid)) >= 2)

\* The tables rebuilt from rows without strings are those the collector makes of the same launches, but for the
\* name of a spelling (watch.js: "the count comes out identical to the collector's").
TailIsCollectors ==
  \A a, b \in 1..Len(launches) : BuildIndex(Tailed(a, b)) = BuildIndex(Collected(a, b))

\* A launch is found by the string rule made of its own ticker, or of a link as it wrote it; and a shared rule is
\* right: exact counts are the launches there are, a floor is not above them, and one launch more than the
\* threshold is never passed over in silence (rules.js).
RulesAreRight ==
  LET index == Index
  IN  \A i \in (window + 1)..Len(launches) :
        LET l == launches[i]
        IN  /\ \A s \in {l.ticker} \cup {l.links[k] : k \in DOMAIN Links} : s # Nothing => MatchString(RifleOf(s), RowOf(l))
            /\ l.ticker # Nothing => \A threshold \in MinShared..LaunchLimit :
                 LET all == Cardinality({j \in 1..Len(launches) : Ticker(launches[j].ticker) = Ticker(l.ticker)})
                     hit == MatchShared(threshold, Exact(index, "ticker", Ticker(l.ticker)), TailCount(Ticker(l.ticker)))
                 IN  /\ hit.exact => hit.count = all
                     /\ hit # NoMatch => threshold <= hit.count /\ hit.count <= all
                     /\ all > threshold => hit # NoMatch

\* What the documentation says and the code does not do: n is how many launches carry a link
\* (launch-index-schema.json:4).  A launch that writes one link in two fields counts twice.
LinksCountLaunches ==
  \A h \in DOMAIN Index["link"] :
    Index["link"][h].n = Cardinality({i \in Places : \E k \in DOMAIN Links : Link(launches[i].links[k], Links[k]) = h})
=============================================================================

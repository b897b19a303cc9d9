----------------------------- MODULE MarketSync -----------------------------
(***************************************************************************)
(* Market data synchronisation: the universe snapshot, the paginated fetch  *)
(* of candles with its retries, and the merge of what was fetched into the  *)
(* candle file of a pair.  The intraday job of the runtime and the sync      *)
(* route of the API do it, each in a thread of its own and without a common *)
(* lock, and the file is read, written beside and replaced.                 *)
(*                                                                          *)
(* Candle b opens at b * Bar and closes a Bar later.  What a candle holds is *)
(* modelled by the time up to which it covers the market: a candle that was *)
(* served before its close covers less than its whole bar, and is replaced  *)
(* by a later fetch.  The raw archive of responses, which nothing reads, is *)
(* left out, and so is the spacing of requests.                             *)
(***************************************************************************)
EXTENDS Integers, FiniteSetsExt, SequencesExt, Functions, SharedFile

CONSTANTS
    None,
    Pairs,
    ByVolume,          \* the pairs, the most traded first
    Listings,          \* the sets of pairs the exchange may list without a warning
    Traded,            \* the candles the exchange has of each pair
    Bar,               \* how long a candle lasts
    Page,              \* candles in one response
    Starts,            \* where a request may ask a fetch to start
    Lookback, Bootstrap, MinimumHistoryBars, MaximumAssets,
    Budget,            \* how long the job may go on to a next pair
    MaximumRetries,    \* of a response that asks to slow down
    MaxTime, MaxSyncs

Syncers == {"job", "route"}
Opens(b) == b * Bar
Closes(b) == Opens(b) + Bar

VARIABLES now, snapshot, file, sync, begun, repaired
vars == <<now, snapshot, file, sync, begun, repaired>>

Idle == [at |-> "idle", queue |-> <<>>, start |-> 0, end |-> 0, began |-> 0, since |-> 0,
         cursor |-> 0, records |-> <<>>, attempt |-> 0, combined |-> <<>>, alone |-> FALSE]

Init ==
    /\ now = 0 /\ snapshot = None
    /\ file = [p \in Pairs |-> NewFile(Syncers)]
    /\ sync = [s \in Syncers |-> Idle] /\ begun = 0
    /\ repaired = [p \in Pairs |-> {}]

Tick == now < MaxTime /\ now' = now + 1
        /\ UNCHANGED <<snapshot, file, sync, begun, repaired>>

\* The markets listed without a warning, as the exchange answers.
CaptureUniverse ==
    /\ \E listed \in Listings : snapshot' = listed
    /\ UNCHANGED <<now, file, sync, begun, repaired>>

(***************************************************************************)
(* Beginning a sync, and the next pair of it                                *)
(***************************************************************************)
Overlapping == \E s \in Syncers : sync[s].at # "idle"

\* A sync that begins while another runs: neither ran alone.
Begins(s, new) ==
    /\ sync[s].at = "idle" /\ begun < MaxSyncs /\ begun' = begun + 1
    /\ sync' = [o \in Syncers |->
                  IF o = s THEN [new EXCEPT !.alone = ~Overlapping]
                  ELSE [sync[o] EXCEPT !.alone = FALSE]]
    /\ UNCHANGED <<now, snapshot, file, repaired>>

RankedPairs == SelectSeq(ByVolume, LAMBDA p : p \in snapshot)

\* The job ranks the members of the latest snapshot, and does nothing without one.
BeginJob ==
    /\ snapshot # None
    /\ Begins("job", [Idle EXCEPT !.at = "next", !.since = now,
         !.start = now - Lookback, !.end = now,
         !.queue = SubSeq(RankedPairs, 1, Min({MaximumAssets, Len(RankedPairs)}))])

\* A request names one pair, a start and an end, which may be still to come.
BeginRoute ==
    \E p \in Pairs, start \in Starts, end \in {now, now + Bar} :
      /\ start < end
      /\ Begins("route", [Idle EXCEPT !.at = "page", !.queue = <<p>>, !.start = start,
           !.end = end, !.cursor = end, !.began = now])

\* The candles on disk; a file that is there and is not whole makes its reader
\* raise an error that no sync catches.
Readable(p) == file[p].published = Absent \/ IsIntact(file[p].published)
Rows(p) == IF IsIntact(file[p].published) THEN Within(file[p].published) ELSE <<>>

\* A pair with too few candles is fetched from further back; the time budget
\* defers the pairs that are left.
NextPair ==
    LET j == sync["job"]
        p == Head(j.queue)
        start == IF Cardinality(DOMAIN Rows(p)) >= MinimumHistoryBars THEN j.end - Lookback
                 ELSE Min({j.end - Lookback, j.end - Bootstrap})
    IN /\ j.at = "next"
       /\ sync' = [sync EXCEPT !["job"] =
            IF j.queue = <<>> \/ now - j.since >= Budget \/ ~Readable(p) THEN Idle
            ELSE [j EXCEPT !.at = "page", !.start = start, !.cursor = j.end, !.began = now,
                           !.records = <<>>, !.attempt = 0]]
       /\ UNCHANGED <<now, snapshot, file, begun, repaired>>

\* After a pair, whatever became of it, the job goes on and the route is done.
After(s) == IF s = "job" THEN [sync[s] EXCEPT !.at = "next", !.queue = Tail(@)] ELSE Idle
Becomes(s, r) == sync' = [sync EXCEPT ![s] = r]

\* The rows of new, and those of old that new has none for.
Over(new, old) ==
    [b \in DOMAIN new \cup DOMAIN old |-> IF b \in DOMAIN new THEN new[b] ELSE old[b]]

(***************************************************************************)
(* The pages of a pair                                                      *)
(***************************************************************************)
\* What the exchange answers: the latest candles that opened before the cursor,
\* as far as they have come.
Served(p, cursor) ==
    LET known == {b \in Traded[p] : Opens(b) < cursor /\ Opens(b) <= now}
    IN [b \in {b \in known : Cardinality({c \in known : c > b}) < Page} |->
          Min({now, Closes(b)})]

\* Pages go back until one is short or reaches the start.  The next one begins
\* before the earliest candle of this one, so no candle is served twice.
FetchPage(s) ==
    LET j == sync[s]
        page == Served(Head(j.queue), j.cursor)
        earliest == Opens(Min(DOMAIN page))
        complete == Cardinality(DOMAIN page) < Page \/ earliest <= j.start
    IN /\ j.at = "page"
       /\ Becomes(s, [j EXCEPT !.records = Over(page, @), !.attempt = 0,
                       !.at = IF complete THEN "merge" ELSE "page",
                       !.cursor = IF complete THEN @ ELSE earliest])
       /\ UNCHANGED <<now, snapshot, file, begun, repaired>>

\* The exchange asks to slow down and the request is repeated.
RetryPage(s) ==
    /\ sync[s].at = "page" /\ sync[s].attempt < MaximumRetries
    /\ Becomes(s, [sync[s] EXCEPT !.attempt = @ + 1])
    /\ UNCHANGED <<now, snapshot, file, begun, repaired>>

\* The request fails, or was slowed down once too often: nothing of the pair is
\* stored, and the pair is reported FAILED.
FailPage(s) ==
    /\ sync[s].at = "page"
    /\ Becomes(s, After(s))
    /\ UNCHANGED <<now, snapshot, file, begun, repaired>>

(***************************************************************************)
(* The merge into the file of the pair                                      *)
(***************************************************************************)
\* Mutant: the row that was there first is kept.
CombineFirst(stored, fetched) == Over(stored, fetched)

\* Of two rows of a candle the fetched one is kept.
Combine(stored, fetched) == Over(fetched, stored)

Merge(s) ==
    LET j == sync[s]
        fetched == Restrict(j.records, {b \in DOMAIN j.records :
                                          j.start <= Opens(b) /\ Opens(b) < j.end})
    IN /\ j.at = "merge"
       /\ Becomes(s, IF Readable(Head(j.queue))
                     THEN [j EXCEPT !.at = "write", !.combined = Combine(Rows(Head(j.queue)), fetched)]
                     ELSE Idle)
       /\ UNCHANGED <<now, snapshot, file, begun, repaired>>

Put(s, f) == file' = [file EXCEPT ![Head(sync[s].queue)] = f]

\* The temporary file of a pair has one name, whoever writes it.
OpenTemporary(s) ==
    LET f == file[Head(sync[s].queue)] IN
    /\ sync[s].at = "write" /\ f.open[s] = "no"
    /\ Put(s, Emptied(f, s))
    /\ UNCHANGED <<now, snapshot, sync, begun, repaired>>

WriteTemporary(s) ==
    LET f == file[Head(sync[s].queue)] IN
    /\ sync[s].at = "write" /\ IsOpen(f, s)
    /\ \E content \in Written(f, s, sync[s].combined) : Put(s, Filled(f, s, content))
    /\ UNCHANGED <<now, snapshot, sync, begun, repaired>>

\* The candles a fetch that began at `began` must have got whole.
Repairs(p, j) ==
    IF ~j.alone THEN {}
    ELSE {b \in Traded[p] : j.start <= Opens(b) /\ Opens(b) < j.end /\ Closes(b) <= j.began}

Replace(s) ==
    LET j == sync[s]
        p == Head(j.queue)
    IN /\ j.at = "write" /\ file[p].open[s] = "closed" /\ file[p].temporary # Absent
       /\ Put(s, Replaced(file[p], s))
       /\ repaired' = [repaired EXCEPT ![p] = @ \cup Repairs(p, j)]
       /\ Becomes(s, After(s))
       /\ UNCHANGED <<now, snapshot, begun>>

\* The other sync has taken the temporary file away: the error is not one that
\* is caught for a pair, and the whole sync ends.
ReplaceFails(s) ==
    LET f == file[Head(sync[s].queue)] IN
    /\ sync[s].at = "write" /\ f.open[s] = "closed" /\ f.temporary = Absent
    /\ Put(s, Abandoned(f, s))
    /\ Becomes(s, Idle)
    /\ UNCHANGED <<now, snapshot, begun, repaired>>

\* The process ends with both syncs; files stay as they are.
Crash ==
    /\ Overlapping
    /\ sync' = [s \in Syncers |-> Idle]
    /\ file' = [p \in Pairs |-> Killed(file[p])]
    /\ UNCHANGED <<now, snapshot, begun, repaired>>

Step(s) ==
    \/ FetchPage(s) \/ RetryPage(s) \/ FailPage(s)
    \/ Merge(s) \/ OpenTemporary(s) \/ WriteTemporary(s) \/ Replace(s) \/ ReplaceFails(s)

Next ==
    \/ Tick \/ CaptureUniverse \/ BeginJob \/ BeginRoute \/ NextPair \/ Crash
    \/ \E s \in Syncers : Step(s)

Spec == Init /\ [][Next]_vars

\* A candle that a sync fetched after its close, with no other sync running, is
\* in the file with its whole bar as long as the file can be read: no later sync,
\* retry, crash, half done merge or pair of overlapping syncs drops the row again or
\* puts the part of the candle back that an earlier fetch had seen.  And the file can
\* be read, unless two syncs that wrote it at once left it broken (pages in
\* upbit.py, CryptoCandleParquetStorage.save).
RepairedForGood ==
    \A p \in Pairs :
      /\ Readable(p) \/ file[p].shared
      /\ file[p].published = Absent => repaired[p] = {}
      /\ IsIntact(file[p].published) =>
           \A b \in repaired[p] : b \in DOMAIN Rows(p) /\ Rows(p)[b] = Closes(b)
=============================================================================

------------------------------- MODULE Stores -------------------------------
(***************************************************************************)
(* The stores beside the paper ledger and the observation: the lifecycle of *)
(* strategy versions, the model registry, the candle files, fills on        *)
(* PostgreSQL and the migration to it.  They share no file or table here,   *)
(* so a behaviour is that of one of them.                                   *)
(***************************************************************************)
EXTENDS ResearchLifecycle, Migration

CONSTANTS
    Models, Comparisons, MaxCalls,                              \* of the registry
    Portfolios, Assets, Identities, IntentIds, Quantities, Prices, Fees, Deposits, Times,
    Orders,                                                     \* of the fills
    Pairs, ByVolume, Listings, Traded, Bar, Page, Starts, Lookback, Bootstrap,
    MinimumHistoryBars, MaximumAssets, Budget, MaximumRetries, MaxTime,
    MaxSyncs                                                    \* of the candles

VARIABLES
    part,                                                       \* which of them
    pickles, metadata, latest, active, audits, mlCall, mlCalls, \* of the registry
    portfolio, positions, executions, deposited, txn, raced,    \* of the fills
    now, snapshot, file, sync, begun, repaired       \* of the candles

Registry == INSTANCE ModelRegistry WITH call <- mlCall, calls <- mlCalls
Fills == INSTANCE PostgresLedger
Candles == INSTANCE MarketSync

\* Scores are told from a missing file.  An order is filled with a fee out of its
\* notional, and its intent id is a hash over its portfolio.  A candle lasts, a page
\* holds candles, and the exchange has finitely many of a pair.
ASSUME StoresAssumption ==
    /\ None \notin Comparisons
    /\ Quantities \subseteq Nat \ {0} /\ Prices \subseteq Nat /\ Fees \subseteq Nat
    /\ Deposits \subseteq Nat /\ Times \subseteq Nat
    /\ "none" \notin Identities /\ IsFiniteSet(Assets)
    /\ \A o \in Orders : /\ o.intent \in Fills!OrderIntent /\ o.report \in Fills!ExecutionReport
                         /\ o.report.fee <= Fills!Notional(o.report)
    /\ \A o, p \in Orders :
         o.intent.id = p.intent.id => o.intent.portfolio = p.intent.portfolio
    /\ \A p \in Pairs : Traded[p] \subseteq Nat /\ IsFiniteSet(Traded[p])
    /\ Bar \in Nat \ {0} /\ Page \in Nat \ {0}
    /\ Starts \subseteq Int /\ Lookback \in Int /\ Bootstrap \in Int

registryVars == <<pickles, metadata, latest, active, audits, mlCall, mlCalls>>
fillVars == <<portfolio, positions, executions, deposited, txn, raced>>
candleVars == <<now, snapshot, file, sync, begun, repaired>>
storesVars == <<part, vars, registryVars, fillVars, migrationVars, candleVars>>

StoresInit ==
    /\ part \in {"lifecycle", "registry", "fills", "migration", "candles"}
    /\ Init /\ Registry!Init /\ Fills!PostgresInit /\ MigrationInit /\ Candles!Init

StoresNext ==
    /\ UNCHANGED part
    /\ \/ /\ part = "lifecycle" /\ Next
          /\ UNCHANGED <<registryVars, fillVars, migrationVars, candleVars>>
       \/ /\ part = "registry" /\ Registry!Next
          /\ UNCHANGED <<vars, fillVars, migrationVars, candleVars>>
       \/ /\ part = "fills" /\ Fills!PostgresNext
          /\ UNCHANGED <<vars, registryVars, migrationVars, candleVars>>
       \/ /\ part = "migration" /\ MigrationNext
          /\ UNCHANGED <<vars, registryVars, fillVars, candleVars>>
       \/ /\ part = "candles" /\ Candles!Next
          /\ UNCHANGED <<vars, registryVars, fillVars, migrationVars>>

StoresSpec == StoresInit /\ [][StoresNext]_storesVars

\* Fills!FillsHoldOnPostgres and TargetIsACut: what the ledger keeps once its
\* transactions are PostgreSQL's, and what a migration leaves there
\* (translate_sqlite_statement, migrate_sqlite_to_postgres).
PostgresKeepsTheBooks == Fills!FillsHoldOnPostgres /\ TargetIsACut

\* ModelInUseIsApproved, for the registry of this process: the model in use was
\* approved for positive scores, and can be read unless overlapping calls broke its
\* files (load_active).
ModelInUseIsApproved == Registry!ModelInUseIsApproved

\* RepairedForGood, for the candle files: a candle that a sync alone has fetched
\* whole stays whole in a file that can be read, and one that cannot was written by
\* two syncs at once (save).
RepairedForGood == Candles!RepairedForGood
=============================================================================

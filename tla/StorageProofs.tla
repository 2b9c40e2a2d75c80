----------------------------- MODULE StorageProofs -----------------------------
(***************************************************************************)
(* What the core has promised is in its files: safety of the theme and its *)
(* schedule, for every set of frontends, every length of the day and every *)
(* capacity of the broadcast channel; of the SQLite capability, for every  *)
(* set of apps and databases and any number of rows; and of the LLM        *)
(* capability's tables, for every set of providers, models and roles.      *)
(***************************************************************************)
EXTENDS ThemeManager, SqlitePools, LlmConfig, TLAPS

-----------------------------------------------------------------------------
(* The theme: the receiver of the frontend that is served.                 *)

\* A value that is sent is the last one, whether or not the channel was full.
LEMMA BroadcastFacts ==
    ASSUME themeRx \in Seq(Flavor), NEW flavor \in Flavor, Broadcast(flavor)
    PROVE  themeRx' \in Seq(Flavor) /\ themeRx' # <<>> /\ Last(themeRx') = flavor
<1>1. CASE Len(themeRx) = ThemeCapacity
  <2>1. Tail(themeRx) \in Seq(Flavor)
    BY <1>1, ThemeAssumption DEF ThemeAssumption
  <2>2. themeRx' = Append(Tail(themeRx), flavor)
    BY <1>1 DEF Broadcast
  <2>3. QED
    BY <2>1, <2>2 DEF Last
<1>2. CASE Len(themeRx) # ThemeCapacity
  <2>1. themeRx' = Append(themeRx, flavor)
    BY <1>2 DEF Broadcast
  <2>2. QED
    BY <2>1 DEF Last
<1>3. QED
  BY <1>1, <1>2

\* Taking the first value leaves the last one last.
LEMMA TakeFacts ==
    ASSUME NEW s \in Seq(Flavor), s # <<>>
    PROVE  /\ Head(s) \in Flavor
           /\ Tail(s) \in Seq(Flavor)
           /\ Tail(s) = <<>> => Head(s) = Last(s)
           /\ Tail(s) # <<>> => Last(Tail(s)) = Last(s)
<1>1. Len(s) \in Nat \ {0} /\ Tail(s) \in Seq(Flavor) /\ Len(Tail(s)) = Len(s) - 1
  OBVIOUS
<1>2. Tail(s) = <<>> => Len(s) = 1
  <2>1. ASSUME NEW t \in Seq(Flavor), t = <<>> PROVE Len(t) = 0
    BY <2>1
  <2>2. Tail(s) = <<>> => Len(Tail(s)) = 0
    BY <1>1, <2>1, Zenon
  <2>3. QED
    BY <1>1, <2>2
<1>3. Tail(s) # <<>> => Len(s) > 1
  BY <1>1
<1>4. QED
  BY <1>1, <1>2, <1>3 DEF Last

-----------------------------------------------------------------------------
(* The invariant, action by action. *)

LEMMA ThemeStart == ThemeInit => ThemeIInv
<1> SUFFICES ASSUME ThemeInit PROVE ThemeIInv
  OBVIOUS
<1>1. ThemeTypeOK
  <2>1. themeRx \in Seq(Flavor)
    BY DEF ThemeInit
  <2>2. QED
    BY <2>1 DEF ThemeInit, ThemeTypeOK, Flavor, Unknown
<1>2. AcknowledgedThemeIsKept
  BY <1>1 DEF ThemeInit, AcknowledgedThemeIsKept
<1>3. ServedIsToldTheLast
  BY DEF ThemeInit, ServedIsToldTheLast
<1>4. QED
  BY <1>2, <1>3 DEF ThemeInit, ThemeIInv

\* Whatever ends the core leaves nobody served.
LEMMA EndKeeps ==
    ASSUME ThemeIInv, ThemeCoreEnds, active' \in Flavor,
           themeFile' \in Flavor \cup {"missing", "broken"},
           acknowledged' \in Flavor \cup {Unknown},
           acknowledged' # Unknown => themeFile' = acknowledged'
    PROVE  ThemeIInv'
<1>1. ThemeTypeOK'
  <2>1. themeRx' \in Seq(Flavor)
    BY DEF ThemeCoreEnds, EndSession
  <2>2. QED
    BY <2>1 DEF ThemeIInv, AcknowledgedThemeIsKept, ThemeTypeOK, ThemeCoreEnds, EndSession
<1>2. AcknowledgedThemeIsKept'
  BY <1>1 DEF AcknowledgedThemeIsKept, ThemeCoreEnds
<1>3. ServedIsToldTheLast'
  BY DEF ServedIsToldTheLast, ThemeCoreEnds, EndSession
<1>4. /\ (~up => serving = Nobody)'
      /\ \A f \in Frontend : frontend'[f] # "waiting"
  BY DEF ThemeCoreEnds, EndSession
<1>5. QED
  BY <1>2, <1>3, <1>4 DEF ThemeIInv

\* The process: its start, its end, and a file that was removed.
LEMMA ProcessKeeps ==
    ASSUME ThemeIInv, LoadFromDir \/ RemoveBroken \/ ThemeCoreKilled
    PROVE  ThemeIInv'
<1>1. CASE LoadFromDir
  BY <1>1 DEF LoadFromDir, Loaded, ThemeIInv, AcknowledgedThemeIsKept, ServedIsToldTheLast,
              ThemeTypeOK, Flavor
<1>2. CASE RemoveBroken
  BY <1>2 DEF RemoveBroken, ThemeIInv, AcknowledgedThemeIsKept, ServedIsToldTheLast,
              ThemeTypeOK, Flavor
<1>3. CASE ThemeCoreKilled
  BY <1>3, EndKeeps DEF ThemeCoreKilled, ThemeIInv, AcknowledgedThemeIsKept, ThemeTypeOK
<1>4. QED
  BY <1>1, <1>2, <1>3

\* Frontends that come, wait, are served and leave.
LEMMA FrontendKeeps ==
    ASSUME ThemeIInv, NEW f \in Frontend,
           ConnectFrontend(f) \/ LeaveFrontend(f) \/ Serve(f)
    PROVE  ThemeIInv'
<1>1. CASE ConnectFrontend(f)
  BY <1>1 DEF ConnectFrontend, ThemeIInv, AcknowledgedThemeIsKept, ServedIsToldTheLast,
              ThemeTypeOK
<1>2. CASE LeaveFrontend(f)
  BY <1>2 DEF LeaveFrontend, ThemeIInv, AcknowledgedThemeIsKept, ServedIsToldTheLast,
              ThemeTypeOK
<1>3. CASE Serve(f)
  BY <1>3 DEF Serve, Subscribe, ThemeIInv, AcknowledgedThemeIsKept, ServedIsToldTheLast,
              ThemeTypeOK
<1>4. QED
  BY <1>1, <1>2, <1>3

\* The session that sees its frontend leave, and get_theme.
LEMMA SessionKeeps ==
    ASSUME ThemeIInv, SeeFrontendLeave \/ GetTheme
    PROVE  ThemeIInv'
<1>1. CASE SeeFrontendLeave
  BY <1>1 DEF SeeFrontendLeave, EndSession, ThemeIInv, AcknowledgedThemeIsKept,
              ServedIsToldTheLast, ThemeTypeOK
<1>2. CASE GetTheme
  <2>1. CASE frontend[serving] = "served"
    BY <1>2, <2>1 DEF GetTheme, ThemeIInv, AcknowledgedThemeIsKept, ServedIsToldTheLast,
                      ThemeTypeOK
  <2>2. CASE frontend[serving] # "served"
    BY <1>2, <2>2, EndKeeps DEF GetTheme, ThemeIInv, AcknowledgedThemeIsKept, ThemeTypeOK
  <2>3. QED
    BY <2>1, <2>2
<1>3. QED
  BY <1>1, <1>2

\* set_theme, however far it comes.
LEMMA SetThemeKeeps ==
    ASSUME ThemeIInv, NEW flavor \in Flavor, SetTheme(flavor)
    PROVE  ThemeIInv'
<1>1. CASE SwitchFails(flavor)
  <2>1. themeFile' \in Flavor \cup {"missing", "broken"}
    BY <1>1 DEF SwitchFails, SaveFails, ThemeIInv, AcknowledgedThemeIsKept, ThemeTypeOK
  <2>2. /\ acknowledged' \in Flavor \cup {Unknown}
        /\ acknowledged' # Unknown => themeFile' = acknowledged'
    BY <1>1 DEF SwitchFails, ThemeIInv, AcknowledgedThemeIsKept, ThemeTypeOK
  <2>3. QED
    BY <1>1, <2>1, <2>2, EndKeeps DEF SwitchFails
<1>2. CASE SwitchedUnanswered(flavor)
  BY <1>2, EndKeeps DEF SwitchedUnanswered
<1>3. CASE Switched(flavor)
  <2>1. themeRx' \in Seq(Flavor) /\ themeRx' # <<>> /\ Last(themeRx') = flavor
    BY <1>3, BroadcastFacts DEF Switched, ThemeIInv, AcknowledgedThemeIsKept, ThemeTypeOK
  <2>2. QED
    BY <1>3, <2>1 DEF Switched, SetTheme, ThemeIInv, AcknowledgedThemeIsKept,
                      ServedIsToldTheLast, ThemeTypeOK, Loaded, Flavor
<1>4. QED
  BY <1>1, <1>2, <1>3 DEF SetTheme

\* An event goes out, or finds its frontend gone.
LEMMA PushKeeps ==
    ASSUME ThemeIInv, PushTheme
    PROVE  ThemeIInv'
<1>1. themeRx \in Seq(Flavor) /\ themeRx # <<>>
  BY DEF PushTheme, ThemeIInv, AcknowledgedThemeIsKept, ThemeTypeOK
<1>2. /\ Head(themeRx) \in Flavor
      /\ Tail(themeRx) \in Seq(Flavor)
      /\ Tail(themeRx) = <<>> => Head(themeRx) = Last(themeRx)
      /\ Tail(themeRx) # <<>> => Last(Tail(themeRx)) = Last(themeRx)
  BY <1>1, TakeFacts
<1>3. CASE frontend[serving] = "served"
  BY <1>1, <1>2, <1>3 DEF PushTheme, ThemeIInv, AcknowledgedThemeIsKept, ServedIsToldTheLast,
                          ThemeTypeOK
<1>4. CASE frontend[serving] # "served"
  BY <1>4 DEF PushTheme, EndSession, ThemeIInv, AcknowledgedThemeIsKept, ServedIsToldTheLast,
              ThemeTypeOK
<1>5. QED
  BY <1>3, <1>4

LEMMA ThemeStep == ThemeIInv /\ [ThemeNext]_themeVars => ThemeIInv'
<1> SUFFICES ASSUME ThemeIInv, [ThemeNext]_themeVars PROVE ThemeIInv'
  OBVIOUS
<1>1. CASE UNCHANGED themeVars
  BY <1>1 DEF themeVars, ThemeIInv, AcknowledgedThemeIsKept, ServedIsToldTheLast, ThemeTypeOK
<1>2. CASE ThemeNext
  BY <1>2, ProcessKeeps, FrontendKeeps, SessionKeeps, SetThemeKeeps, PushKeeps DEF ThemeNext
<1>3. QED
  BY <1>1, <1>2

(* The theme.json of a core that runs holds the active flavour, and a      *)
(* flavour that SetTheme acknowledged is not lost by a later failure.      *)
THEOREM AcknowledgedThemeIsAlwaysKept == ThemeSpec => []AcknowledgedThemeIsKept
<1>1. ThemeIInv => AcknowledgedThemeIsKept
  BY DEF ThemeIInv
<1>2. QED
  BY <1>1, ThemeStart, ThemeStep, PTL DEF ThemeSpec

(* The frontend being served has heard of the active flavour, or is about  *)
(* to, for any number of frontends and any capacity of the channel.        *)
THEOREM ServedIsAlwaysToldTheLast == ThemeSpec => []ServedIsToldTheLast
<1>1. ThemeIInv => ServedIsToldTheLast
  BY DEF ThemeIInv
<1>2. QED
  BY <1>1, ThemeStart, ThemeStep, PTL DEF ThemeSpec

-----------------------------------------------------------------------------
(* The SQLite pools.                                                       *)

LEMMA SqliteTypes ==
    ASSUME SqliteIInv
    PROVE  /\ SqliteTypeOK /\ RowsAreFresh
           /\ inserted \in Nat /\ RowId \subseteq Nat
           /\ \A rows \in SUBSET RowId : rows # NoTransaction /\ rows # Unsure
           /\ \A a \in SqliteApp :
                 /\ pools[a] = [file |-> pools[a].file, pending |-> pools[a].pending]
                 /\ belief[a] = [file |-> belief[a].file, pending |-> belief[a].pending]
                 /\ pools[a].file \in File \cup {NoFile}
                 /\ belief[a].file \in File \cup {NoFile}
                 /\ pools[a].pending \in {NoTransaction} \cup SUBSET RowId
                 /\ belief[a].pending \in {NoTransaction, Unsure} \cup SUBSET RowId
                 /\ Uncommitted(a) \in SUBSET RowId
                 /\ Believed(a) \in SUBSET RowId
<1>1. SqliteTypeOK /\ RowsAreFresh
  BY DEF SqliteIInv, AnswersHoldOnDisk
<1>2. /\ inserted \in Nat /\ RowId \subseteq Nat
      /\ \A rows \in SUBSET RowId : rows # NoTransaction /\ rows # Unsure
  <2>1. MaxRows \in Nat /\ inserted \in 0..MaxRows
    BY <1>1, SqliteAssumption DEF SqliteAssumption, SqliteTypeOK
  <2>2. \A rows \in SUBSET RowId : rows # NoTransaction /\ rows # Unsure
    BY SqliteAssumption DEF SqliteAssumption, RowId
  <2>3. QED
    BY <2>1, <2>2 DEF RowId
<1>3. ASSUME NEW a \in SqliteApp
      PROVE  /\ pools[a] = [file |-> pools[a].file, pending |-> pools[a].pending]
             /\ belief[a] = [file |-> belief[a].file, pending |-> belief[a].pending]
             /\ pools[a].file \in File \cup {NoFile}
             /\ belief[a].file \in File \cup {NoFile}
             /\ pools[a].pending \in {NoTransaction} \cup SUBSET RowId
             /\ belief[a].pending \in {NoTransaction, Unsure} \cup SUBSET RowId
  <2>1. pools[a] \in Pool /\ belief[a] \in Belief
    BY <1>1 DEF SqliteTypeOK
  <2>2. QED
    BY <2>1 DEF Pool, Belief
<1>4. \A a \in SqliteApp : Uncommitted(a) \in SUBSET RowId /\ Believed(a) \in SUBSET RowId
  BY <1>3 DEF Uncommitted, Believed
<1>5. QED
  BY <1>1, <1>2, <1>3, <1>4

LEMMA SqliteStart == SqliteInit => SqliteIInv
<1> SUFFICES ASSUME SqliteInit PROVE SqliteIInv
  OBVIOUS
<1>1. SqliteTypeOK
  BY SqliteAssumption
  DEF SqliteAssumption, SqliteInit, SqliteTypeOK, Pool, Belief, NoPool, Rows
<1>2. RowsAreFresh /\ \A a \in SqliteApp : BeliefMatches(a)
  BY DEF SqliteInit, RowsAreFresh, Uncommitted, BeliefMatches, NoPool
<1>3. QED
  BY <1>1, <1>2 DEF SqliteInit, SqliteIInv, AnswersHoldOnDisk

-----------------------------------------------------------------------------
(* The pool comes and goes. *)

\* open, close, a recycled connection, a failure, a new worker and a new core:
\* the disk and the answers stay, and a pool loses its transaction or nothing.
LEMMA PoolChange ==
    ASSUME SqliteIInv,
           pools' \in [SqliteApp -> Pool], belief' \in [SqliteApp -> Belief],
           UNCHANGED <<disk, inserted, promised, withdrawn>>,
           \A a \in SqliteApp :
              /\ pools'[a] = pools[a] \/ pools'[a].pending = NoTransaction
              /\ belief'[a].file # NoFile =>
                    /\ pools'[a].file \in {NoFile, belief'[a].file}
                    /\ belief'[a] = belief[a] \/ belief'[a].pending = NoTransaction
                    /\ belief'[a] = belief[a] \/ pools'[a].pending = NoTransaction
    PROVE  SqliteIInv'
<1>1. SqliteTypeOK /\ RowsAreFresh
  BY SqliteTypes
<1>2. AnswersHoldOnDisk'
  BY <1>1 DEF SqliteIInv, AnswersHoldOnDisk, SqliteTypeOK
<1>3. \A a \in SqliteApp : Uncommitted(a)' \subseteq Uncommitted(a)
  BY DEF Uncommitted
<1>4. RowsAreFresh'
  <2>1. \A a \in SqliteApp : pools'[a].file = NoFile => pools'[a].pending = NoTransaction
    BY <1>1 DEF RowsAreFresh
  <2>2. QED
    BY <1>1, <1>3, <2>1 DEF RowsAreFresh
<1>5. ASSUME NEW a \in SqliteApp PROVE BeliefMatches(a)'
  BY DEF SqliteIInv, BeliefMatches, Believed
<1>6. QED
  BY <1>2, <1>4, <1>5 DEF SqliteIInv

LEMMA UnchangedKeeps == SqliteIInv /\ UNCHANGED sqliteVars => SqliteIInv'
  BY DEF sqliteVars, SqliteIInv, AnswersHoldOnDisk, SqliteTypeOK, BeliefMatches, Believed,
         RowsAreFresh, Uncommitted

LEMMA OpenKeeps ==
    ASSUME SqliteIInv, NEW a \in SqliteApp,
           (\E d \in Db : OpenDatabase(a, d)) \/ CloseDatabase(a) \/ NotOpen(a)
    PROVE  SqliteIInv'
<1>1. SqliteTypeOK
  BY SqliteTypes
<1>2. ASSUME NEW d \in Db, Opened(a, d) PROVE SqliteIInv'
  <2>1. FileOf[a][d] \in File
    BY <1>2, SqliteAssumption DEF SqliteAssumption, Opened
  <2>2. [file |-> FileOf[a][d], pending |-> NoTransaction] \in Pool \cap Belief
    BY <2>1 DEF Pool, Belief
  <2>3. QED
    BY <1>1, <1>2, <2>2, PoolChange DEF Opened, SqliteIInv, SqliteTypeOK, BeliefMatches
<1>3. CASE \E d \in Db : OpenRefused(a, d) \/ OpenFails(a, d)
  BY <1>3, UnchangedKeeps DEF OpenRefused, OpenFails
<1>4. CASE CloseDatabase(a)
  <2>1. NoPool \in Pool \cap Belief
    BY DEF Pool, Belief, NoPool
  <2>2. QED
    BY <1>1, <1>4, <2>1, PoolChange
    DEF CloseDatabase, NoPool, SqliteIInv, SqliteTypeOK, BeliefMatches
<1>5. CASE NotOpen(a)
  BY <1>5, UnchangedKeeps DEF NotOpen
<1>6. QED
  BY <1>2, <1>3, <1>4, <1>5 DEF OpenDatabase

\* A connection without its transaction, whoever ended it.
LEMMA TransactionLost ==
    ASSUME SqliteIInv, NEW a \in SqliteApp,
           pools' = [pools EXCEPT ![a].pending = NoTransaction],
           UNCHANGED <<disk, inserted, belief, promised, withdrawn>>
    PROVE  SqliteIInv'
<1>1. SqliteTypeOK
  BY SqliteTypes
<1>2. /\ pools'[a] \in Pool /\ pools'[a].file = pools[a].file
      /\ pools'[a].pending = NoTransaction
  BY <1>1 DEF SqliteTypeOK, Pool
<1>3. pools' \in [SqliteApp -> Pool] /\ \A b \in SqliteApp \ {a} : pools'[b] = pools[b]
  BY <1>1, <1>2 DEF SqliteTypeOK
<1>4. QED
  BY <1>1, <1>2, <1>3, PoolChange DEF SqliteIInv, SqliteTypeOK, BeliefMatches

\* What the app does not ask for.
LEMMA PoolLoss ==
    ASSUME SqliteIInv,
           \/ \E a \in SqliteApp : ConnectionRecycled(a) \/ WorkerRestarts(a)
           \/ PoolsLost
    PROVE  SqliteIInv'
<1>1. NoPool \in Pool \cap Belief /\ NoPool.file = NoFile /\ NoPool.pending = NoTransaction
  BY DEF Pool, Belief, NoPool
<1>2. SqliteTypeOK
  BY SqliteTypes
<1>3. ASSUME NEW a \in SqliteApp, ConnectionRecycled(a) PROVE SqliteIInv'
  BY <1>3, TransactionLost DEF ConnectionRecycled
<1>4. ASSUME NEW a \in SqliteApp, WorkerRestarts(a) PROVE SqliteIInv'
  BY <1>1, <1>2, <1>4, PoolChange DEF WorkerRestarts, SqliteIInv, SqliteTypeOK, BeliefMatches
<1>5. CASE PoolsLost
  BY <1>1, <1>2, <1>5, PoolChange DEF PoolsLost, SqliteIInv, SqliteTypeOK, BeliefMatches
<1>6. QED
  BY <1>3, <1>4, <1>5

-----------------------------------------------------------------------------
(* Statements. *)

\* What an open pool and its app agree on.
LEMMA OpenApp ==
    ASSUME SqliteIInv, NEW a \in SqliteApp, IsOpen(a)
    PROVE  /\ pools[a].file \in File
           /\ belief[a].file # NoFile =>
                 /\ belief[a].file = pools[a].file
                 /\ belief[a].pending = NoTransaction => pools[a].pending = NoTransaction
                 /\ pools[a].pending # NoTransaction => Believed(a) \subseteq pools[a].pending
<1>1. pools[a].file \in File
  BY SqliteTypes DEF IsOpen
<1>2. BeliefMatches(a)
  BY DEF SqliteIInv
<1>3. QED
  BY <1>1, <1>2 DEF BeliefMatches, IsOpen

\* A statement that writes rows of its connection's transaction and new ones,
\* and leaves the others of them in the transaction or undone, keeps the
\* invariant, whether or not its string is answered as done.
LEMMA OneStatement ==
    ASSUME SqliteIInv, NEW a \in SqliteApp, NEW answered \in BOOLEAN,
           NEW pending \in {NoTransaction} \cup SUBSET RowId,
           NEW known \in {NoTransaction, Unsure} \cup SUBSET RowId,
           NEW written \in SUBSET RowId, NEW kept \in SUBSET RowId, NEW undone \in SUBSET RowId,
           NEW open \in SUBSET RowId,
           open = IF pending = NoTransaction THEN {} ELSE pending,
           Runs(a, pending, written), Concludes(a, answered, known, kept, undone),
           inserted' \in 0..MaxRows, inserted' >= inserted,
           \A row \in written \cup open :
              row \in Uncommitted(a) \/ (row > inserted /\ row <= inserted'),
           written \cap open = {},
           belief[a].file # NoFile =>
              /\ kept \subseteq written
              /\ undone \subseteq Uncommitted(a)
              /\ undone \cap (written \cup open) = {}
              /\ known = NoTransaction => pending = NoTransaction
              /\ pending # NoTransaction /\ known \notin {NoTransaction, Unsure} =>
                    known \subseteq pending
    PROVE  SqliteIInv'
<1> DEFINE f == pools[a].file
           concludes == belief[a].file # NoFile /\ answered
           sure == IF concludes THEN kept ELSE {}
           lost == IF concludes THEN undone ELSE {}
<1>1. /\ SqliteTypeOK /\ RowsAreFresh
      /\ f \in File
      /\ belief[a].file # NoFile => belief[a].file = f
      /\ inserted \in Nat /\ inserted' \in Nat /\ RowId \subseteq Nat
      /\ \A b \in SqliteApp : Uncommitted(b) \in SUBSET RowId
  <2>1. IsOpen(a)
    BY DEF Runs
  <2>2. inserted' \in Nat
    BY SqliteAssumption DEF SqliteAssumption
  <2>3. /\ SqliteTypeOK /\ RowsAreFresh /\ inserted \in Nat /\ RowId \subseteq Nat
        /\ \A b \in SqliteApp : Uncommitted(b) \in SUBSET RowId
    BY SqliteTypes
  <2>4. QED
    BY <2>1, <2>2, <2>3, OpenApp
<1>2. /\ pools'[a] = [file |-> f, pending |-> pending]
      /\ pools' \in [SqliteApp -> Pool]
      /\ \A b \in SqliteApp \ {a} : pools'[b] = pools[b]
  <2>1. pools[a] = [file |-> f, pending |-> pools[a].pending]
    BY SqliteTypes
  <2>2. pools' = [pools EXCEPT ![a].pending = pending]
    BY DEF Runs
  <2>3. pools'[a] = [file |-> f, pending |-> pending]
    BY <1>1, <2>1, <2>2 DEF SqliteTypeOK
  <2>4. [file |-> f, pending |-> pending] \in Pool
    BY <1>1 DEF Pool
  <2>5. QED
    BY <1>1, <2>2, <2>3, <2>4 DEF SqliteTypeOK
<1>3. /\ disk' \in Rows
      /\ \A g \in File : disk'[g] = IF g = f THEN disk[g] \cup written ELSE disk[g]
  BY <1>1 DEF Runs, SqliteTypeOK, Rows
<1>4. /\ promised' \in Rows
      /\ \A g \in File : promised'[g] = IF g = f THEN promised[g] \cup sure ELSE promised[g]
  <2>1. CASE concludes
    BY <1>1, <2>1 DEF Concludes, SqliteTypeOK, Rows
  <2>2. CASE ~concludes
    BY <1>1, <2>2 DEF Concludes, SqliteTypeOK, Rows
  <2>3. QED
    BY <2>1, <2>2
<1>5. /\ withdrawn' \in Rows
      /\ \A g \in File : withdrawn'[g] = IF g = f THEN withdrawn[g] \cup lost ELSE withdrawn[g]
  <2>1. CASE concludes
    BY <1>1, <2>1 DEF Concludes, SqliteTypeOK, Rows
  <2>2. CASE ~concludes
    BY <1>1, <2>2 DEF Concludes, SqliteTypeOK, Rows
  <2>3. QED
    BY <2>1, <2>2
<1>6. /\ belief' \in [SqliteApp -> Belief]
      /\ \A b \in SqliteApp \ {a} : belief'[b] = belief[b]
      /\ belief[a].file = NoFile => belief'[a] = belief[a]
      /\ belief[a].file # NoFile =>
            belief'[a] = [file |-> f, pending |-> IF answered THEN known ELSE Unsure]
  <2>1. belief[a] = [file |-> belief[a].file, pending |-> belief[a].pending]
    BY SqliteTypes
  <2>2. CASE belief[a].file = NoFile
    BY <1>1, <2>2 DEF Concludes, SqliteTypeOK
  <2>3. CASE belief[a].file # NoFile
    <3> DEFINE now == [file |-> f, pending |-> IF answered THEN known ELSE Unsure]
    <3>1. now \in Belief
      BY <1>1 DEF Belief
    <3>2. belief' = [belief EXCEPT ![a].pending = IF answered THEN known ELSE Unsure]
      BY <2>3 DEF Concludes
    <3>3. belief'[a] = now
      BY <1>1, <2>1, <2>3, <3>2 DEF SqliteTypeOK
    <3>4. \A b \in SqliteApp \ {a} : belief'[b] = belief[b]
      BY <1>1, <3>2 DEF SqliteTypeOK
    <3>5. belief' \in [SqliteApp -> Belief]
      <4>1. \A b \in SqliteApp : belief'[b] \in Belief
        BY <1>1, <3>1, <3>3, <3>4 DEF SqliteTypeOK
      <4>2. belief' = [b \in SqliteApp |-> belief'[b]]
        BY <1>1, <3>2 DEF SqliteTypeOK
      <4>3. QED
        BY <4>1, <4>2
    <3>6. QED
      BY <2>3, <3>3, <3>4, <3>5
  <2>4. QED
    BY <2>2, <2>3
<1>7. /\ Uncommitted(a)' = open
      /\ \A b \in SqliteApp \ {a} : Uncommitted(b)' = Uncommitted(b)
  BY <1>2 DEF Uncommitted
<1>8. ASSUME NEW row \in RowId,
             row \in Uncommitted(a) \/ (row > inserted /\ row <= inserted')
      PROVE  /\ row <= inserted'
             /\ \A g \in File : row \notin disk[g] \cup withdrawn[g]
             /\ \A b \in SqliteApp \ {a} : row \notin Uncommitted(b)
  <2>1. row \in Nat
    BY <1>1
  <2>2. CASE row \in Uncommitted(a)
    BY <1>1, <2>1, <2>2 DEF RowsAreFresh
  <2>3. CASE row > inserted /\ row <= inserted'
    <3>1. ~(row <= inserted)
      BY <1>1, <2>1, <2>3
    <3>2. QED
      BY <1>1, <2>3, <3>1 DEF RowsAreFresh
  <2>4. QED
    BY <1>8, <2>2, <2>3
<1>9. /\ sure \subseteq written
      /\ lost \subseteq Uncommitted(a)
      /\ lost \cap (written \cup open) = {}
  OBVIOUS
<1>10. AnswersHoldOnDisk'
  <2>1. SqliteTypeOK'
    BY <1>1, <1>2, <1>3, <1>4, <1>5, <1>6 DEF SqliteTypeOK
  <2>2. ASSUME NEW g \in File
        PROVE  promised'[g] \subseteq disk'[g] /\ withdrawn'[g] \cap disk'[g] = {}
    <3>1. promised[g] \subseteq disk[g] /\ withdrawn[g] \cap disk[g] = {}
      BY DEF SqliteIInv, AnswersHoldOnDisk
    <3>2. \A row \in written : row \notin withdrawn[g]
      BY <1>8
    <3>3. \A row \in lost : row \notin disk[g]
      BY <1>1, <1>8, <1>9
    <3>4. promised'[g] \subseteq disk'[g]
      BY <1>3, <1>4, <1>9, <3>1
    <3>5. withdrawn'[g] \cap disk'[g] = {}
      <4>1. CASE g = f
        BY <1>3, <1>5, <1>9, <3>1, <3>2, <3>3, <4>1
      <4>2. CASE g # f
        BY <1>3, <1>5, <3>1, <4>2
      <4>3. QED
        BY <4>1, <4>2
    <3>6. QED
      BY <3>4, <3>5
  <2>3. QED
    BY <2>1, <2>2 DEF AnswersHoldOnDisk
<1>11. RowsAreFresh'
  <2>1. ASSUME NEW g \in File, NEW row \in disk'[g] \cup withdrawn'[g]
        PROVE  row <= inserted'
    <3>1. row \in Nat
      BY <1>1, <1>3, <1>5 DEF Rows
    <3>2. CASE row \in disk[g] \cup withdrawn[g]
      BY <1>1, <3>1, <3>2 DEF RowsAreFresh
    <3>3. CASE row \in written \cup lost
      BY <1>8, <1>9, <3>3
    <3>4. QED
      BY <1>3, <1>5, <2>1, <3>2, <3>3
  <2>2. ASSUME NEW b \in SqliteApp, NEW row \in Uncommitted(b)'
        PROVE  /\ row <= inserted'
               /\ \A g \in File : row \notin disk'[g] \cup withdrawn'[g]
               /\ \A c \in SqliteApp \ {b} : row \notin Uncommitted(c)'
    <3>1. CASE b = a
      <4>1. row \in open /\ row \notin written /\ row \notin lost
        BY <1>7, <1>9, <2>2, <3>1
      <4>2. row \in RowId /\ (row \in Uncommitted(a) \/ (row > inserted /\ row <= inserted'))
        BY <4>1
      <4>3. /\ row <= inserted'
            /\ \A g \in File : row \notin disk[g] \cup withdrawn[g]
            /\ \A c \in SqliteApp \ {a} : row \notin Uncommitted(c)
        BY <1>8, <4>2
      <4>4. \A g \in File : row \notin disk'[g] \cup withdrawn'[g]
        BY <1>3, <1>5, <4>1, <4>3
      <4>5. \A c \in SqliteApp \ {a} : row \notin Uncommitted(c)'
        BY <1>7, <4>3
      <4>6. QED
        BY <3>1, <4>3, <4>4, <4>5
    <3>2. CASE b # a
      <4>1. row \in Uncommitted(b) /\ row \in Nat
        BY <1>1, <1>7, <2>2, <3>2
      <4>2. /\ row <= inserted
            /\ \A g \in File : row \notin disk[g] \cup withdrawn[g]
            /\ \A c \in SqliteApp \ {b} : row \notin Uncommitted(c)
        BY <1>1, <4>1 DEF RowsAreFresh
      <4>3. row \notin written \cup open /\ row \notin lost
        BY <1>8, <1>9, <3>2, <4>1
      <4>4. \A c \in SqliteApp \ {b} : row \notin Uncommitted(c)'
        BY <1>7, <4>2, <4>3
      <4>5. row <= inserted'
        BY <1>1, <4>1, <4>2
      <4>6. QED
        BY <1>3, <1>5, <4>2, <4>3, <4>4, <4>5
    <3>3. QED
      BY <3>1, <3>2
  <2>3. ASSUME NEW b \in SqliteApp
        PROVE  pools'[b].file = NoFile => pools'[b].pending = NoTransaction
    BY <1>1, <1>2, SqliteAssumption DEF SqliteAssumption, RowsAreFresh
  <2>4. QED
    BY <2>1, <2>2, <2>3 DEF RowsAreFresh
<1>12. ASSUME NEW b \in SqliteApp PROVE BeliefMatches(b)'
  <2>1. CASE b # a
    BY <1>2, <1>6, <2>1 DEF SqliteIInv, BeliefMatches, Believed
  <2>2. CASE b = a /\ belief[a].file = NoFile
    BY <1>6, <2>2 DEF BeliefMatches
  <2>3. CASE b = a /\ belief[a].file # NoFile
    <3>1. Unsure # NoTransaction
      BY SqliteAssumption DEF SqliteAssumption
    <3>2. belief'[a] = [file |-> f, pending |-> IF answered THEN known ELSE Unsure]
      BY <1>6, <2>3
    <3>3. belief'[a].pending = NoTransaction => pending = NoTransaction
      BY <2>3, <3>1, <3>2
    <3>4. pending # NoTransaction => Believed(a)' \subseteq pending
      BY <2>3, <3>1, <3>2 DEF Believed
    <3>5. QED
      BY <1>2, <2>3, <3>2, <3>3, <3>4 DEF BeliefMatches
  <2>4. QED
    BY <2>1, <2>2, <2>3
<1>13. QED
  BY <1>10, <1>11, <1>12 DEF SqliteIInv

LEMMA BeginKeeps ==
    ASSUME SqliteIInv, NEW a \in SqliteApp, NEW answered \in BOOLEAN, Begin(a, answered)
    PROVE  SqliteIInv'
<1>1. Runs(a, {}, {}) /\ Concludes(a, answered, {}, {}, {}) /\ inserted' = inserted
  BY DEF Begin
<1>2. /\ inserted \in 0..MaxRows /\ inserted \in Nat
      /\ {} \in SUBSET RowId /\ {} # NoTransaction
  BY SqliteTypes DEF SqliteTypeOK
<1>3. inserted' \in 0..MaxRows /\ inserted' >= inserted
  BY <1>1, <1>2
<1>4. {} = IF {} = NoTransaction THEN {} ELSE {}
  OBVIOUS
<1>5. {} \in {NoTransaction} \cup SUBSET RowId /\ {} \in {NoTransaction, Unsure} \cup SUBSET RowId
  OBVIOUS
<1>6. QED
  BY <1>1, <1>2, <1>3, <1>4, <1>5, OneStatement

LEMMA InsertKeeps ==
    ASSUME SqliteIInv, NEW a \in SqliteApp, NEW answered \in BOOLEAN, Insert(a, answered)
    PROVE  SqliteIInv'
<1> DEFINE row == inserted + 1
           known == belief[a].pending
           within == pools[a].pending # NoTransaction
           written == IF within THEN {} ELSE {row}
           pending == IF within THEN pools[a].pending \cup {row} ELSE NoTransaction
           open == IF within THEN pools[a].pending \cup {row} ELSE {}
           next == IF known \in {NoTransaction, Unsure} THEN known ELSE known \cup {row}
           kept == IF known = NoTransaction THEN {row} ELSE {}
<1>1. /\ inserted \in Nat /\ inserted' = row /\ inserted' \in 0..MaxRows /\ row \in RowId
      /\ inserted' >= inserted /\ row > inserted /\ row <= inserted'
  BY SqliteTypes, SqliteAssumption DEF SqliteAssumption, Insert, SqliteTypeOK, RowId
<1>2. IsOpen(a)
  BY DEF Insert, StoreRow, Runs
<1>3. /\ pools[a].pending \in {NoTransaction} \cup SUBSET RowId
      /\ known \in {NoTransaction, Unsure} \cup SUBSET RowId
      /\ \A rows \in SUBSET RowId : rows # NoTransaction /\ rows # Unsure
  BY SqliteTypes
<1>4. /\ written \in SUBSET RowId /\ kept \in SUBSET RowId /\ open \in SUBSET RowId
      /\ pending \in {NoTransaction} \cup SUBSET RowId
      /\ next \in {NoTransaction, Unsure} \cup SUBSET RowId
      /\ open = IF pending = NoTransaction THEN {} ELSE pending
  BY <1>1, <1>3
<1>5. Runs(a, pending, written)
  BY DEF Insert, StoreRow
<1>6. Concludes(a, answered, next, kept, {})
  <2>1. Unsure # NoTransaction
    BY SqliteAssumption DEF SqliteAssumption
  <2>2. \/ known = NoTransaction /\ Concludes(a, answered, NoTransaction, {row}, {})
        \/ known = Unsure /\ Concludes(a, answered, Unsure, {}, {})
        \/ /\ known \notin {NoTransaction, Unsure}
           /\ Concludes(a, answered, known \cup {row}, {}, {})
    BY DEF Insert
  <2>3. CASE known = NoTransaction
    <3>1. next = NoTransaction /\ kept = {row}
      BY <2>3
    <3>2. QED
      BY <2>1, <2>2, <2>3, <3>1
  <2>4. CASE known = Unsure
    <3>1. next = Unsure /\ kept = {}
      BY <2>1, <2>4
    <3>2. QED
      BY <2>1, <2>2, <2>4, <3>1
  <2>5. CASE known \notin {NoTransaction, Unsure}
    <3>1. next = known \cup {row} /\ kept = {}
      BY <2>5
    <3>2. QED
      BY <2>2, <2>5, <3>1
  <2>6. QED
    BY <2>3, <2>4, <2>5
<1>7. /\ \A r \in written \cup open :
            r \in Uncommitted(a) \/ (r > inserted /\ r <= inserted')
      /\ written \cap open = {}
  BY <1>1 DEF Uncommitted
<1>8. ASSUME belief[a].file # NoFile
      PROVE  /\ kept \subseteq written
             /\ next = NoTransaction => pending = NoTransaction
             /\ pending # NoTransaction /\ next \notin {NoTransaction, Unsure} =>
                   next \subseteq pending
  <2>1. known = NoTransaction => ~within
    BY <1>2, <1>8, OpenApp
  <2>2. within /\ known \notin {NoTransaction, Unsure} => known \subseteq pools[a].pending
    BY <1>2, <1>8, OpenApp DEF Believed
  <2>3. known \notin {NoTransaction, Unsure} => next # NoTransaction
    BY <1>1, <1>3
  <2>4. Unsure # NoTransaction
    BY SqliteAssumption DEF SqliteAssumption
  <2>5. QED
    BY <2>1, <2>2, <2>3, <2>4
<1>9. QED
  <2> HIDE DEF written, pending, open, next, kept
  <2>1. QED
    BY <1>1, <1>4, <1>5, <1>6, <1>7, <1>8, OneStatement

\* The end of a transaction writes all of its rows, or none.
LEMMA TransactionEndKeeps ==
    ASSUME SqliteIInv, NEW a \in SqliteApp, NEW answered \in BOOLEAN,
           Commit(a, answered) \/ Rollback(a, answered)
    PROVE  SqliteIInv'
<1>1. /\ inserted \in 0..MaxRows /\ inserted \in Nat /\ inserted' = inserted
      /\ Uncommitted(a) \in SUBSET RowId /\ Believed(a) \in SUBSET RowId
  BY SqliteTypes DEF SqliteTypeOK, Commit, Rollback
<1>2. /\ pools[a].pending = Uncommitted(a)
      /\ belief[a].file # NoFile => Believed(a) \subseteq Uncommitted(a)
  BY OpenApp DEF Commit, Rollback, Runs, Uncommitted
<1> DEFINE none == {}
<1>3. /\ none \in SUBSET RowId
      /\ NoTransaction \in {NoTransaction} \cup SUBSET RowId
      /\ NoTransaction \in {NoTransaction, Unsure} \cup SUBSET RowId
      /\ none = IF NoTransaction = NoTransaction THEN {} ELSE NoTransaction
      /\ inserted' \in 0..MaxRows /\ inserted' >= inserted
  BY <1>1
<1>4. CASE Commit(a, answered)
  <2>1. /\ Runs(a, NoTransaction, Uncommitted(a))
        /\ Concludes(a, answered, NoTransaction, Believed(a), none)
    BY <1>2, <1>4 DEF Commit
  <2>2. /\ \A row \in Uncommitted(a) \cup none :
              row \in Uncommitted(a) \/ (row > inserted /\ row <= inserted')
        /\ Uncommitted(a) \cap none = {}
        /\ none \subseteq Uncommitted(a)
        /\ none \cap (Uncommitted(a) \cup none) = {}
    OBVIOUS
  <2>3. QED
    <3> HIDE DEF none
    <3>1. QED
      BY <1>1, <1>2, <1>3, <2>1, <2>2, OneStatement
<1>5. CASE Rollback(a, answered)
  <2>1. /\ Runs(a, NoTransaction, none)
        /\ Concludes(a, answered, NoTransaction, none, Believed(a))
    BY <1>5 DEF Rollback
  <2>2. /\ \A row \in none \cup none :
              row \in Uncommitted(a) \/ (row > inserted /\ row <= inserted')
        /\ none \cap none = {} /\ Believed(a) \cap (none \cup none) = {}
    OBVIOUS
  <2>3. QED
    <3> HIDE DEF none
    <3>1. QED
      BY <1>1, <1>2, <1>3, <2>1, <2>2, OneStatement
<1>6. QED
  BY <1>4, <1>5

LEMMA FailureKeeps ==
    ASSUME SqliteIInv, NEW a \in SqliteApp, StatementFails(a)
    PROVE  SqliteIInv'
<1>1. CASE pools' = pools
  BY <1>1, UnchangedKeeps DEF StatementFails, sqliteVars
<1>2. CASE pools' = [pools EXCEPT ![a].pending = NoTransaction]
  BY <1>2, TransactionLost DEF StatementFails
<1>3. QED
  BY <1>1, <1>2 DEF StatementFails

-----------------------------------------------------------------------------
(* Every step, and the property.                                           *)

LEMMA SqliteStep == SqliteIInv /\ [SqliteNext]_sqliteVars => SqliteIInv'
<1> SUFFICES ASSUME SqliteIInv, [SqliteNext]_sqliteVars PROVE SqliteIInv'
  OBVIOUS
<1>1. ASSUME NEW a \in SqliteApp, HandleSqliteRequest(a) PROVE SqliteIInv'
  <2>1. CASE (\E d \in Db : OpenDatabase(a, d)) \/ CloseDatabase(a) \/ NotOpen(a)
    BY <2>1, OpenKeeps
  <2>2. ASSUME NEW answered \in BOOLEAN, Begin(a, answered) PROVE SqliteIInv'
    BY <2>2, BeginKeeps
  <2>3. ASSUME NEW answered \in BOOLEAN, Insert(a, answered) PROVE SqliteIInv'
    BY <2>3, InsertKeeps
  <2>4. ASSUME NEW answered \in BOOLEAN, Commit(a, answered) \/ Rollback(a, answered)
        PROVE  SqliteIInv'
    BY <2>4, TransactionEndKeeps
  <2>5. CASE StatementReads(a)
    BY <2>5, UnchangedKeeps DEF StatementReads
  <2>6. CASE StatementFails(a)
    BY <2>6, FailureKeeps
  <2>7. QED
    BY <1>1, <2>1, <2>2, <2>3, <2>4, <2>5, <2>6 DEF HandleSqliteRequest, Statement
<1>2. CASE (\E a \in SqliteApp : ConnectionRecycled(a) \/ WorkerRestarts(a)) \/ PoolsLost
  BY <1>2, PoolLoss
<1>3. CASE UNCHANGED sqliteVars
  BY <1>3, UnchangedKeeps
<1>4. QED
  BY <1>1, <1>2, <1>3 DEF SqliteNext

(* What an app may conclude from its answers holds on disk, for any apps,  *)
(* names and files, shared ones included, and any number of rows: whatever *)
(* strings of statements fail halfway and leave a transaction open, and    *)
(* however the pool's own changes of connection, second opens and the ends *)
(* of workers and of the core come between the statements of one.          *)
THEOREM AnswersAlwaysHoldOnDisk == SqliteSpec => []AnswersHoldOnDisk
<1>1. SqliteIInv => AnswersHoldOnDisk
  BY DEF SqliteIInv
<1>2. QED
  BY <1>1, SqliteStart, SqliteStep, PTL DEF SqliteSpec

-----------------------------------------------------------------------------
(* The theme: its schedule.                                                *)

LEMMA OnceRound ==
    ASSUME NEW d \in Nat \ {0}, NEW x \in 0..(d - 1)
    PROVE  x % d = x /\ (x + d) % d = x
<1>1. x % d = x
  OBVIOUS
<1>2. (x + d) % d = x
  OBVIOUS
<1>3. QED
  BY <1>1, <1>2

LEMMA InTheDay ==
    ASSUME NEW h \in Nat, NEW m \in Nat, NEW H \in Nat, NEW M \in Nat, h < H, m < M
    PROVE  h * M + m \in 0..(H * M - 1)
<1>1. (H - 1 - h) * M \in Nat
  OBVIOUS
<1>2. H * M = h * M + (H - 1 - h) * M + M
  OBVIOUS
<1>3. h * M \in Nat
  OBVIOUS
<1>4. QED
  BY <1>1, <1>2, <1>3

Day == HoursPerDay * MinutesPerHour
Texts == {NotATime} \cup ((0..HoursPerDay) \X (0..MinutesPerHour))

\* A text is no time, or a minute of the day.
LEMMA Parsed ==
    ASSUME NEW text \in Texts
    PROVE  ParseHhmm(text) = -1 \/ ParseHhmm(text) \in 0..(Day - 1)
<1>1. CASE text = NotATime
  BY <1>1 DEF ParseHhmm
<1>2. CASE text # NotATime
  <2>1. PICK h \in 0..HoursPerDay, m \in 0..MinutesPerHour : text = <<h, m>>
    BY <1>2 DEF Texts
  <2>2. h \in Nat /\ m \in Nat /\ HoursPerDay \in Nat /\ MinutesPerHour \in Nat
    BY ThemeAssumption DEF ThemeAssumption
  <2>3. CASE h < HoursPerDay /\ m < MinutesPerHour
    <3>1. ParseHhmm(text) = h * MinutesPerHour + m
      BY <1>2, <2>1, <2>2, <2>3 DEF ParseHhmm
    <3>2. QED
      BY <2>2, <2>3, <3>1, InTheDay DEF Day
  <2>4. CASE ~(h < HoursPerDay /\ m < MinutesPerHour)
    BY <2>1, <2>2, <2>4 DEF ParseHhmm
  <2>5. QED
    BY <2>3, <2>4
<1>3. QED
  BY <1>1, <1>2

\* The half of the day, by the clock and by the comparisons of the code.
LEMMA TargetIsTheLastPassed ==
    ASSUME NEW day \in Nat \ {0}, NEW now \in 0..(day - 1), NEW light \in 0..(day - 1),
           NEW dark \in 0..(day - 1)
    PROVE  Target(now, light, dark) =
             IF (now - light + day) % day <= (now - dark + day) % day
             THEN "latte" ELSE "macchiato"
<1>1. \A then \in 0..(day - 1) :
         (now - then + day) % day = IF then <= now THEN now - then ELSE now - then + day
  <2> SUFFICES ASSUME NEW then \in 0..(day - 1)
               PROVE  (now - then + day) % day =
                         IF then <= now THEN now - then ELSE now - then + day
    OBVIOUS
  <2>1. CASE then <= now
    <3>1. now - then \in 0..(day - 1)
      BY <2>1
    <3>2. QED
      BY <2>1, <3>1, OnceRound
  <2>2. CASE ~(then <= now)
    <3>1. now - then + day \in 0..(day - 1)
      BY <2>2
    <3>2. QED
      BY <2>2, <3>1, OnceRound
  <2>3. QED
    BY <2>1, <2>2
<1> DEFINE sinceLight == (now - light + day) % day
           sinceDark == (now - dark + day) % day
<1>2. /\ sinceLight = IF light <= now THEN now - light ELSE now - light + day
      /\ sinceDark = IF dark <= now THEN now - dark ELSE now - dark + day
  BY <1>1
<1> HIDE DEF sinceLight, sinceDark
<1>3. /\ light < dark => (sinceLight <= sinceDark <=> light <= now /\ now < dark)
      /\ ~(light < dark) => (sinceLight <= sinceDark <=> ~(dark <= now /\ now < light))
  BY <1>2
<1>4. Target(now, light, dark) = IF sinceLight <= sinceDark THEN "latte" ELSE "macchiato"
  BY <1>3 DEF Target
<1>5. QED
  BY <1>4 DEF sinceLight, sinceDark

LEMMA ScheduleHolds == ScheduleFollowsTheClock
<1>1. Day \in Nat
  BY ThemeAssumption DEF ThemeAssumption, Day
<1>2. ASSUME NEW text \in Texts, NEW light_at \in Texts, NEW dark_at \in Texts
      PROVE  CheckScheduleAt(text, light_at, dark_at) =
               IF -1 \in {ParseHhmm(text), ParseHhmm(light_at), ParseHhmm(dark_at)} THEN Unknown
               ELSE LET target == IF (ParseHhmm(text) - ParseHhmm(light_at) + Day) % Day
                                       <= (ParseHhmm(text) - ParseHhmm(dark_at) + Day) % Day
                                  THEN "latte" ELSE "macchiato"
                    IN  IF target = active THEN Unknown ELSE target
  <2> DEFINE now == ParseHhmm(text)
             light == ParseHhmm(light_at)
             dark == ParseHhmm(dark_at)
  <2>1. /\ now = -1 \/ now \in 0..(Day - 1)
        /\ light = -1 \/ light \in 0..(Day - 1)
        /\ dark = -1 \/ dark \in 0..(Day - 1)
    BY <1>2, Parsed
  <2>2. CheckScheduleAt(text, light_at, dark_at) =
           IF -1 \in {now, light, dark} \/ Target(now, light, dark) = active
           THEN Unknown ELSE Target(now, light, dark)
    BY DEF CheckScheduleAt
  <2> HIDE DEF now, light, dark
  <2>3. CASE -1 \in {now, light, dark}
    BY <2>2, <2>3 DEF now, light, dark
  <2>4. CASE -1 \notin {now, light, dark}
    <3>1. /\ now \in 0..(Day - 1) /\ light \in 0..(Day - 1) /\ dark \in 0..(Day - 1)
          /\ Day \in Nat \ {0}
      BY <1>1, <2>1, <2>4
    <3>2. Target(now, light, dark) =
             IF (now - light + Day) % Day <= (now - dark + Day) % Day
             THEN "latte" ELSE "macchiato"
      BY <3>1, TargetIsTheLastPassed
    <3>3. QED
      BY <2>2, <2>4, <3>2 DEF now, light, dark
  <2>5. QED
    BY <2>3, <2>4
<1>3. QED
  BY <1>2 DEF ScheduleFollowsTheClock, Day, Texts

(* The schedule follows the clock for every length of the day: a time is   *)
(* light when light_at was passed last, whichever of the two comes first   *)
(* in the day (check_schedule_at, parse_hhmm).                             *)
THEOREM ScheduleAlwaysFollowsTheClock == ThemeSpec => []ScheduleFollowsTheClock
  BY ScheduleHolds, PTL

-----------------------------------------------------------------------------
(* The LLM capability: the tables of providers and roles.                  *)

Entry == {Absent} \cup RoleConfig
Models == {Absent} \cup SUBSET Model

\* One role of a configuration, and the default, are put in place of others.
LEMMA RoleChanged ==
    ASSUME NEW c \in RolesConfig, NEW name \in Role, NEW entry \in Entry
    PROVE  /\ [c EXCEPT !.roles[name] = entry] \in RolesConfig
           /\ [c EXCEPT !.roles[name] = entry].roles[name] = entry
           /\ \A r \in Role \ {name} : [c EXCEPT !.roles[name] = entry].roles[r] = c.roles[r]
<1>1. c = [roles |-> c.roles, default_role |-> c.default_role]
      /\ c.roles \in [Role -> Entry] /\ c.default_role \in {Absent} \cup Role
  BY DEF RolesConfig, Entry
<1>2. [c EXCEPT !.roles[name] = entry] =
         [roles |-> [c.roles EXCEPT ![name] = entry], default_role |-> c.default_role]
  BY <1>1
<1>3. /\ [c.roles EXCEPT ![name] = entry] \in [Role -> Entry]
      /\ [c.roles EXCEPT ![name] = entry][name] = entry
      /\ \A r \in Role \ {name} : [c.roles EXCEPT ![name] = entry][r] = c.roles[r]
  BY <1>1
<1>4. QED
  BY <1>1, <1>2, <1>3 DEF RolesConfig, Entry

LEMMA DefaultChanged ==
    ASSUME NEW c \in RolesConfig, NEW name \in {Absent} \cup Role
    PROVE  /\ [c EXCEPT !.default_role = name] \in RolesConfig
           /\ [c EXCEPT !.default_role = name].roles = c.roles
  BY DEF RolesConfig

LEMMA ProviderChanged ==
    ASSUME NEW t \in ProviderTable, NEW p \in Provider, NEW config \in Models
    PROVE  /\ [t EXCEPT ![p] = config] \in ProviderTable
           /\ \A q \in Provider \ {p} : [t EXCEPT ![p] = config][q] = t[q]
  BY DEF ProviderTable, Models

\* A table is never taken for a file that does not parse, nor an entry for none.
LEMMA NeverCorrupt ==
    /\ \A t \in ProviderTable : t # Corrupt
    /\ \A c \in RolesConfig : c # Corrupt
  BY LlmAssumption DEF LlmAssumption, ProviderTable, RolesConfig, RoleConfig

\* What the types say of the entries of the tables.
LEMMA EntryTypes ==
    ASSUME LlmTypeOK, NEW r \in Role
    PROVE  /\ roles.roles[r] \in Entry
           /\ roles.roles[r] # Absent =>
                 roles.roles[r].provider \in Provider /\ roles.roles[r].model \in Model
           /\ rolesFile # Corrupt => rolesFile \in RolesConfig
           /\ providersFile # Corrupt => providersFile \in ProviderTable
  BY DEF LlmTypeOK, RolesConfig, RoleConfig, Entry

LEMMA LlmStart == LlmInit => LlmIInv
<1> SUFFICES ASSUME LlmInit PROVE LlmIInv
  OBVIOUS
<1>1. NoRoles \in RolesConfig /\ NoProviders \in ProviderTable
  BY DEF NoRoles, NoProviders, RolesConfig, ProviderTable
<1>2. LlmTypeOK
  BY <1>1 DEF LlmInit, LlmTypeOK, Reply
<1>3. InSync /\ VouchedIsKept
  BY DEF LlmInit, InSync, VouchedIsKept
<1>4. QED
  BY <1>2, <1>3 DEF LlmIInv

LEMMA UnchangedTables ==
    ASSUME LlmIInv, UNCHANGED <<running, tables, unsaved, vouched>>, llmReply' \in Reply
    PROVE  LlmIInv'
  BY DEF LlmIInv, LlmTypeOK, InSync, VouchedIsKept, Offered, tables

LEMMA AnswerKeeps ==
    ASSUME LlmIInv, NEW code \in Reply, AnswerOnly(code)
    PROVE  LlmIInv'
  BY UnchangedTables DEF AnswerOnly, Answer

-----------------------------------------------------------------------------
(* Providers.                                                              *)

\* The roles whose acknowledgement outlives a change of provider p.
LEMMA NotUsers ==
    ASSUME LlmIInv, NEW p \in Provider, NEW r \in vouched \ Users(p)
    PROVE  /\ r \in Role /\ roles.roles[r] # Absent
           /\ roles.roles[r].provider \in Provider \ {p}
           /\ Offered(roles.roles[r])
           /\ rolesFile # Corrupt => rolesFile.roles[r] = roles.roles[r]
           /\ providersFile # Corrupt =>
                 providersFile[roles.roles[r].provider] = manager[roles.roles[r].provider]
<1>1. r \in vouched /\ r \in Role /\ LlmTypeOK
  BY DEF LlmIInv, LlmTypeOK
<1>2. /\ roles.roles[r] # Absent /\ Offered(roles.roles[r])
      /\ rolesFile # Corrupt => rolesFile.roles[r] = roles.roles[r]
      /\ providersFile # Corrupt =>
            providersFile[roles.roles[r].provider] = manager[roles.roles[r].provider]
  BY <1>1 DEF LlmIInv, VouchedIsKept
<1>3. roles.roles[r].provider \in Provider
  BY <1>1, <1>2, EntryTypes
<1>4. roles.roles[r].provider # p
  BY <1>1, <1>2 DEF Users
<1>5. QED
  BY <1>1, <1>2, <1>3, <1>4

\* The tables are read again from their files, after one provider changed.
LEMMA InitializeKeeps ==
    ASSUME LlmIInv, running, UNCHANGED <<running, rolesFile>>,
           NEW p \in Provider, NEW new \in ProviderTable,
           providersFile \in ProviderTable,
           \A q \in Provider \ {p} : new[q] = providersFile[q],
           providersFile' = new, vouched' = vouched \ Users(p), Initialize(new)
    PROVE  LlmIInv'
<1>1. LlmTypeOK /\ InSync /\ VouchedIsKept
  BY DEF LlmIInv
<1>2. manager' = new /\ llmReply' \in Reply /\ roles' \in RolesConfig
      /\ unsaved' \subseteq {"providers", "roles"}
  BY <1>1 DEF Initialize, Answer, Reply, LlmTypeOK
<1>3. /\ rolesFile = Corrupt => roles' = roles /\ unsaved' = unsaved \ {"providers"}
      /\ rolesFile # Corrupt => roles' = rolesFile
  BY DEF Initialize
<1>4. LlmTypeOK'
  BY <1>1, <1>2 DEF LlmTypeOK
<1>5. InSync'
  BY <1>1, <1>2, <1>3 DEF InSync
<1>6. ASSUME NEW r \in vouched'
      PROVE  /\ roles'.roles[r] # Absent
             /\ Offered(roles.roles[r])'
             /\ rolesFile' # Corrupt => rolesFile'.roles[r] = roles'.roles[r]
             /\ providersFile' # Corrupt =>
                   providersFile'[roles'.roles[r].provider] = manager'[roles'.roles[r].provider]
  <2>1. /\ r \in Role /\ roles.roles[r] # Absent
        /\ roles.roles[r].provider \in Provider \ {p}
        /\ Offered(roles.roles[r])
        /\ rolesFile # Corrupt => rolesFile.roles[r] = roles.roles[r]
        /\ providersFile[roles.roles[r].provider] = manager[roles.roles[r].provider]
    BY <1>6, NotUsers, NeverCorrupt
  <2>2. roles'.roles[r] = roles.roles[r]
    BY <1>3, <2>1
  <2>3. manager'[roles.roles[r].provider] = manager[roles.roles[r].provider]
    BY <1>2, <2>1
  <2>4. Offered(roles.roles[r])'
    BY <2>1, <2>2, <2>3 DEF Offered
  <2>5. QED
    BY <1>2, <2>1, <2>2, <2>4
<1>7. VouchedIsKept'
  BY <1>6 DEF VouchedIsKept, Offered
<1>8. QED
  BY <1>4, <1>5, <1>7 DEF LlmIInv

\* A file changes, and the tables in memory stay.
LEMMA ProvidersFileKeeps ==
    ASSUME LlmIInv, UNCHANGED <<manager, roles, rolesFile>>, running' \in BOOLEAN,
           NEW p \in Provider, vouched' = vouched \ Users(p),
           providersFile' \in ProviderTable \cup {Corrupt},
           llmReply' \in Reply, unsaved' \subseteq {"providers", "roles"},
           unsaved \subseteq unsaved',
           \/ providersFile' = providersFile /\ running' = running
           \/ providersFile' = Corrupt /\ "providers" \in unsaved'
           \/ /\ running' = FALSE /\ "providers" \in unsaved' /\ providersFile # Corrupt
              /\ \A q \in Provider \ {p} : providersFile'[q] = providersFile[q]
    PROVE  LlmIInv'
<1>1. LlmTypeOK /\ InSync /\ VouchedIsKept
  BY DEF LlmIInv
<1>2. LlmTypeOK'
  BY <1>1 DEF LlmTypeOK
<1>3. InSync'
  BY <1>1 DEF InSync
<1>4. ASSUME NEW r \in vouched'
      PROVE  /\ roles'.roles[r] # Absent
             /\ Offered(roles.roles[r])'
             /\ rolesFile' # Corrupt => rolesFile'.roles[r] = roles'.roles[r]
             /\ providersFile' # Corrupt =>
                   providersFile'[roles'.roles[r].provider] = manager'[roles'.roles[r].provider]
  <2>1. /\ r \in Role /\ roles.roles[r] # Absent
        /\ roles.roles[r].provider \in Provider \ {p}
        /\ Offered(roles.roles[r])
        /\ rolesFile # Corrupt => rolesFile.roles[r] = roles.roles[r]
        /\ providersFile # Corrupt =>
              providersFile[roles.roles[r].provider] = manager[roles.roles[r].provider]
    BY <1>4, NotUsers
  <2>2. Offered(roles.roles[r])'
    BY <2>1 DEF Offered
  <2>3. QED
    BY <2>1, <2>2
<1>5. VouchedIsKept'
  BY <1>4 DEF VouchedIsKept, Offered
<1>6. QED
  BY <1>2, <1>3, <1>5 DEF LlmIInv

LEMMA RewriteKeeps ==
    ASSUME LlmIInv, running, providersFile # Corrupt,
           NEW p \in Provider, NEW config \in Models, RewriteProvider(p, config)
    PROVE  LlmIInv'
<1> DEFINE new == [providersFile EXCEPT ![p] = config]
<1>1. LlmTypeOK
  BY DEF LlmIInv
<1>2. providersFile \in ProviderTable
  BY <1>1 DEF LlmTypeOK
<1>3. new \in ProviderTable /\ \A q \in Provider \ {p} : new[q] = providersFile[q]
  BY <1>2, ProviderChanged
<1>4. vouched' = vouched \ Users(p) /\ UNCHANGED rolesFile
  BY DEF RewriteProvider
<1> HIDE DEF new
<1>5. CASE providersFile' = new /\ Initialize(new) /\ UNCHANGED running
  BY <1>2, <1>3, <1>4, <1>5, InitializeKeeps
<1>6. ASSUME NEW outcome \in WriteOutcome \ {"saved"},
             providersFile' = Stored(outcome, providersFile, new),
             unsaved' = (IF outcome = "truncated" THEN unsaved \cup {"providers"} ELSE unsaved),
             Answer("config_error"), UNCHANGED <<running, manager, roles>>
      PROVE  LlmIInv'
  <2>1. \/ providersFile' = providersFile
        \/ providersFile' = Corrupt /\ "providers" \in unsaved'
    BY <1>6 DEF Stored, WriteOutcome
  <2>2. /\ providersFile' \in ProviderTable \cup {Corrupt} /\ llmReply' \in Reply
        /\ running' \in BOOLEAN
        /\ unsaved' \subseteq {"providers", "roles"} /\ unsaved \subseteq unsaved'
    BY <1>1, <1>6, <2>1 DEF LlmTypeOK, Answer, Reply
  <2>3. QED
    BY <1>4, <1>6, <2>1, <2>2, ProvidersFileKeeps
<1>7. CASE /\ providersFile' = new /\ running' = FALSE
           /\ unsaved' = unsaved \cup {"providers"} /\ UNCHANGED <<manager, roles, llmReply>>
  <2>1. /\ llmReply' \in Reply /\ running' \in BOOLEAN /\ unsaved \subseteq unsaved'
        /\ unsaved' \subseteq {"providers", "roles"} /\ "providers" \in unsaved'
    BY <1>1, <1>7 DEF LlmTypeOK
  <2>2. QED
    BY <1>2, <1>3, <1>4, <1>7, <2>1, ProvidersFileKeeps
<1>8. QED
  BY <1>5, <1>6, <1>7 DEF RewriteProvider, new

LEMMA ProviderRequestKeeps ==
    ASSUME LlmIInv, running, ProviderRequest
    PROVE  LlmIInv'
<1>1. PICK p \in Provider :
         \/ \E models \in SUBSET Model : AddProvider(p, models)
         \/ RemoveProvider(p)
         \/ ApplyPreset(p)
         \/ \E models \in {Absent} \cup SUBSET Model : UpdateProvider(p, models)
         \/ TestProvider(p)
  BY DEF ProviderRequest
<1>2. LlmTypeOK /\ PresetModels \in Models /\ Absent \in Models
  BY LlmAssumption DEF LlmAssumption, LlmIInv, Models
<1>3. {"ok", "invalid_params", "config_error", "provider_not_found"} \subseteq Reply
  BY DEF Reply
<1>4. ASSUME NEW models \in SUBSET Model, AddProvider(p, models) PROVE LlmIInv'
  BY <1>3, <1>4, AnswerKeeps, RewriteKeeps DEF AddProvider, Models
<1>5. CASE RemoveProvider(p)
  BY <1>2, <1>3, <1>5, AnswerKeeps, RewriteKeeps DEF RemoveProvider
<1>6. CASE ApplyPreset(p)
  BY <1>2, <1>3, <1>6, AnswerKeeps, RewriteKeeps DEF ApplyPreset
<1>7. ASSUME NEW models \in {Absent} \cup SUBSET Model, UpdateProvider(p, models) PROVE LlmIInv'
  <2>1. CASE providersFile # Corrupt /\ providersFile[p] # Absent
    <3>1. providersFile[p] \in Models
      BY <1>2, <2>1 DEF LlmTypeOK, ProviderTable, Models
    <3>2. (IF models = Absent THEN providersFile[p] ELSE models) \in Models
      BY <3>1 DEF Models
    <3>3. QED
      BY <1>7, <2>1, <3>2, RewriteKeeps DEF UpdateProvider
  <2>2. CASE ~(providersFile # Corrupt /\ providersFile[p] # Absent)
    BY <1>3, <1>7, <2>2, AnswerKeeps DEF UpdateProvider
  <2>3. QED
    BY <2>1, <2>2
<1>8. CASE TestProvider(p)
  BY <1>3, <1>8, AnswerKeeps DEF TestProvider
<1>9. QED
  BY <1>1, <1>4, <1>5, <1>6, <1>7, <1>8

-----------------------------------------------------------------------------
(* Roles.                                                                  *)

\* What KeepRoles leaves, whatever becomes of the save.
LEMMA KeepKeeps ==
    ASSUME LlmIInv, running, NEW new \in RolesConfig, NEW outcome \in WriteOutcome,
           KeepRoles(new, outcome),
           vouched' \subseteq Role,
           \A r \in vouched' :
              \/ r \in vouched /\ new.roles[r] = roles.roles[r]
              \/ new.roles[r] \in RoleConfig /\ Offered(new.roles[r]) /\ outcome = "saved"
    PROVE  LlmIInv'
<1>1. LlmTypeOK /\ InSync /\ VouchedIsKept /\ providersFile \in {manager, Corrupt}
  BY DEF LlmIInv, InSync
<1>2. /\ roles' = new /\ rolesFile' = Stored(outcome, rolesFile, new)
      /\ unsaved' = (IF outcome = "saved" THEN unsaved \ {"roles"} ELSE unsaved \cup {"roles"})
      /\ llmReply' \in Reply /\ UNCHANGED <<running, manager, providersFile>>
  BY DEF KeepRoles, Answer, Reply
<1>3. \/ outcome = "saved" /\ rolesFile' = new
      \/ outcome # "saved" /\ rolesFile' \in {rolesFile, Corrupt}
  BY <1>2 DEF Stored, WriteOutcome
<1>4. LlmTypeOK'
  BY <1>1, <1>2, <1>3 DEF LlmTypeOK
<1>5. InSync'
  BY <1>1, <1>2, <1>3 DEF InSync
<1>6. ASSUME NEW r \in vouched'
      PROVE  /\ roles'.roles[r] # Absent
             /\ Offered(roles.roles[r])'
             /\ rolesFile' # Corrupt => rolesFile'.roles[r] = roles'.roles[r]
             /\ providersFile' # Corrupt =>
                   providersFile'[roles'.roles[r].provider] = manager'[roles'.roles[r].provider]
  <2>1. CASE r \in vouched /\ new.roles[r] = roles.roles[r]
    <3>1. /\ roles.roles[r] # Absent /\ Offered(roles.roles[r])
          /\ rolesFile # Corrupt => rolesFile.roles[r] = roles.roles[r]
      BY <1>1, <2>1 DEF VouchedIsKept
    <3>2. Offered(roles.roles[r])'
      BY <1>2, <2>1, <3>1 DEF Offered
    <3>3. QED
      BY <1>1, <1>2, <1>3, <2>1, <3>1, <3>2
  <2>2. CASE new.roles[r] \in RoleConfig /\ Offered(new.roles[r]) /\ outcome = "saved"
    <3>1. new.roles[r] # Absent
      BY <2>2, LlmAssumption DEF LlmAssumption, RoleConfig
    <3>2. Offered(roles.roles[r])'
      BY <1>2, <2>2 DEF Offered
    <3>3. QED
      BY <1>1, <1>2, <1>3, <2>2, <3>1, <3>2
  <2>3. QED
    BY <1>6, <2>1, <2>2
<1>7. VouchedIsKept'
  BY <1>6 DEF VouchedIsKept, Offered
<1>8. QED
  BY <1>4, <1>5, <1>7 DEF LlmIInv

LEMMA AddRoleKeeps ==
    ASSUME LlmIInv, running, NEW name \in Role, NEW config \in RoleConfig,
           AddRole(name, config)
    PROVE  LlmIInv'
<1>1. CASE ~Offered(config)
  BY <1>1, AnswerKeeps DEF AddRole, Reply
<1>2. CASE Offered(config)
  <2> DEFINE new == [roles EXCEPT !.roles[name] = config]
  <2>1. PICK outcome \in WriteOutcome :
           /\ KeepRoles(new, outcome)
           /\ vouched' = IF outcome = "saved" THEN vouched \cup {name} ELSE vouched \ {name}
    BY <1>2 DEF AddRole
  <2>2. roles \in RolesConfig /\ vouched \subseteq Role /\ config \in Entry
    BY DEF LlmIInv, LlmTypeOK, Entry
  <2>3. /\ new \in RolesConfig /\ new.roles[name] = config
        /\ \A r \in Role \ {name} : new.roles[r] = roles.roles[r]
    BY <2>2, RoleChanged
  <2> HIDE DEF new
  <2>4. \A r \in vouched' :
           \/ r \in vouched /\ new.roles[r] = roles.roles[r]
           \/ new.roles[r] \in RoleConfig /\ Offered(new.roles[r]) /\ outcome = "saved"
    BY <1>2, <2>1, <2>2, <2>3
  <2>5. vouched' \subseteq Role
    BY <2>1, <2>2
  <2>6. QED
    BY <2>1, <2>3, <2>4, <2>5, KeepKeeps
<1>3. QED
  BY <1>1, <1>2

LEMMA RemoveRoleKeeps ==
    ASSUME LlmIInv, running, NEW name \in Role, RemoveRole(name)
    PROVE  LlmIInv'
<1> DEFINE new == [roles EXCEPT !.roles[name] = Absent]
<1>1. PICK outcome \in WriteOutcome : KeepRoles(new, outcome) /\ vouched' = vouched \ {name}
  BY DEF RemoveRole
<1>2. roles \in RolesConfig /\ vouched \subseteq Role /\ Absent \in Entry
  BY DEF LlmIInv, LlmTypeOK, Entry
<1>3. new \in RolesConfig /\ \A r \in Role \ {name} : new.roles[r] = roles.roles[r]
  BY <1>2, RoleChanged
<1> HIDE DEF new
<1>4. QED
  BY <1>1, <1>2, <1>3, KeepKeeps

LEMMA DefaultKeeps ==
    ASSUME LlmIInv, running, DefaultRequest
    PROVE  LlmIInv'
<1>1. PICK name \in {Absent} \cup Role : SetDefaultRole(name)
  BY DEF DefaultRequest
<1>2. CASE name # Absent /\ roles.roles[name] = Absent
  BY <1>1, <1>2, AnswerKeeps DEF SetDefaultRole, Reply
<1>3. CASE ~(name # Absent /\ roles.roles[name] = Absent)
  <2> DEFINE new == [roles EXCEPT !.default_role = name]
  <2>1. PICK outcome \in WriteOutcome : KeepRoles(new, outcome) /\ UNCHANGED vouched
    BY <1>1, <1>3 DEF SetDefaultRole
  <2>2. roles \in RolesConfig /\ vouched \subseteq Role
    BY DEF LlmIInv, LlmTypeOK
  <2>3. new \in RolesConfig /\ new.roles = roles.roles
    BY <2>2, DefaultChanged
  <2> HIDE DEF new
  <2>4. QED
    BY <2>1, <2>2, <2>3, KeepKeeps
<1>4. QED
  BY <1>2, <1>3

\* One role of the file changes, and the roles in memory follow or stay.
LEMMA RolesFileKeeps ==
    ASSUME LlmIInv, UNCHANGED <<manager, providersFile>>, running' \in BOOLEAN,
           running' => running,
           NEW name \in Role, vouched' = vouched \ {name},
           rolesFile # Corrupt, rolesFile' \in RolesConfig \cup {Corrupt},
           llmReply' \in Reply, unsaved' \subseteq {"providers", "roles"},
           "providers" \in unsaved => "providers" \in unsaved',
           roles' \in {roles, rolesFile'}, roles' \in RolesConfig,
           "roles" \notin unsaved' =>
              rolesFile' = roles' \/ (UNCHANGED <<roles, rolesFile>> /\ "roles" \notin unsaved),
           rolesFile' # Corrupt =>
              \A r \in Role \ {name} : rolesFile'.roles[r] = rolesFile.roles[r]
    PROVE  LlmIInv'
<1>1. LlmTypeOK /\ InSync /\ VouchedIsKept
  BY DEF LlmIInv
<1>2. LlmTypeOK'
  BY <1>1 DEF LlmTypeOK
<1>3. InSync'
  BY <1>1 DEF InSync
<1>4. ASSUME NEW r \in vouched'
      PROVE  /\ roles'.roles[r] # Absent
             /\ Offered(roles.roles[r])'
             /\ rolesFile' # Corrupt => rolesFile'.roles[r] = roles'.roles[r]
             /\ providersFile' # Corrupt =>
                   providersFile'[roles'.roles[r].provider] = manager'[roles'.roles[r].provider]
  <2>1. /\ r \in vouched /\ r \in Role \ {name}
        /\ roles.roles[r] # Absent /\ Offered(roles.roles[r])
        /\ rolesFile.roles[r] = roles.roles[r]
        /\ providersFile # Corrupt =>
              providersFile[roles.roles[r].provider] = manager[roles.roles[r].provider]
    BY <1>1, <1>4 DEF VouchedIsKept, LlmTypeOK
  <2>2. /\ roles'.roles[r] = roles.roles[r]
        /\ rolesFile' # Corrupt => rolesFile'.roles[r] = roles.roles[r]
    BY <2>1, NeverCorrupt
  <2>3. Offered(roles.roles[r])'
    BY <2>1, <2>2 DEF Offered
  <2>4. QED
    BY <2>1, <2>2, <2>3
<1>5. VouchedIsKept'
  BY <1>4 DEF VouchedIsKept, Offered
<1>6. QED
  BY <1>2, <1>3, <1>5 DEF LlmIInv

LEMMA UpdateRoleKeeps ==
    ASSUME LlmIInv, running, NEW name \in Role, NEW provider \in {Absent} \cup Provider,
           NEW model \in {Absent} \cup Model, UpdateRole(name, provider, model)
    PROVE  LlmIInv'
<1>1. LlmTypeOK /\ InSync /\ "config_error" \in Reply /\ "role_not_found" \in Reply
      /\ "ok" \in Reply
  BY DEF LlmIInv, Reply
<1>2. CASE rolesFile = Corrupt \/ rolesFile.roles[name] = Absent
  BY <1>1, <1>2, AnswerKeeps DEF UpdateRole
<1>3. CASE rolesFile # Corrupt /\ rolesFile.roles[name] # Absent
  <2> DEFINE config == Changed(rolesFile.roles[name], provider, model)
             new == [rolesFile EXCEPT !.roles[name] = config]
  <2>1. rolesFile \in RolesConfig /\ rolesFile.roles[name] \in RoleConfig
    BY <1>1, <1>3 DEF LlmTypeOK, RolesConfig
  <2>2. config \in Entry
    BY <2>1 DEF Changed, RoleConfig, Entry
  <2>3. new \in RolesConfig /\ \A r \in Role \ {name} : new.roles[r] = rolesFile.roles[r]
    BY <2>1, <2>2, RoleChanged
  <2>4. /\ vouched' = vouched \ {name}
        /\ UNCHANGED <<manager, providersFile>>
        /\ \/ /\ roles' = new
              /\ rolesFile' = new
              /\ unsaved' = unsaved \ {"roles"}
              /\ Answer("ok")
              /\ UNCHANGED running
           \/ \E outcome \in WriteOutcome \ {"saved"} :
                 /\ rolesFile' = Stored(outcome, rolesFile, new)
                 /\ unsaved' = IF outcome = "truncated"
                               THEN unsaved \cup {"roles"} ELSE unsaved
                 /\ Answer("config_error")
                 /\ UNCHANGED <<running, roles>>
           \/ /\ rolesFile' = new
              /\ running' = FALSE
              /\ unsaved' = unsaved \cup {"roles"}
              /\ UNCHANGED <<roles, llmReply>>
    BY <1>3 DEF UpdateRole
  <2> HIDE DEF new, config
  <2>5. CASE /\ roles' = new /\ rolesFile' = new /\ unsaved' = unsaved \ {"roles"}
             /\ Answer("ok") /\ UNCHANGED running
    <3>1. /\ llmReply' \in Reply /\ running' \in BOOLEAN
          /\ unsaved' \subseteq {"providers", "roles"}
          /\ "providers" \in unsaved => "providers" \in unsaved'
      BY <1>1, <2>5 DEF LlmTypeOK, Answer
    <3>2. QED
      BY <1>3, <2>3, <2>4, <2>5, <3>1, RolesFileKeeps
  <2>6. ASSUME NEW outcome \in WriteOutcome \ {"saved"},
               rolesFile' = Stored(outcome, rolesFile, new),
               unsaved' = (IF outcome = "truncated" THEN unsaved \cup {"roles"} ELSE unsaved),
               Answer("config_error"), UNCHANGED <<running, roles>>
        PROVE  LlmIInv'
    <3>1. /\ llmReply' \in Reply /\ running' \in BOOLEAN /\ roles \in RolesConfig
          /\ unsaved' \subseteq {"providers", "roles"}
          /\ "providers" \in unsaved => "providers" \in unsaved'
      BY <1>1, <2>6 DEF LlmTypeOK, Answer
    <3>2. \/ rolesFile' = rolesFile /\ unsaved' = unsaved
          \/ rolesFile' = Corrupt /\ "roles" \in unsaved'
      BY <2>6 DEF Stored, WriteOutcome
    <3>3. rolesFile' \in RolesConfig \cup {Corrupt}
      BY <2>1, <3>2
    <3>4. QED
      BY <1>3, <2>4, <2>6, <3>1, <3>2, <3>3, RolesFileKeeps
  <2>7. CASE /\ rolesFile' = new /\ running' = FALSE /\ unsaved' = unsaved \cup {"roles"}
             /\ UNCHANGED <<roles, llmReply>>
    <3>1. /\ llmReply' \in Reply /\ running' \in BOOLEAN /\ roles \in RolesConfig
          /\ unsaved' \subseteq {"providers", "roles"} /\ "roles" \in unsaved'
          /\ "providers" \in unsaved => "providers" \in unsaved'
      BY <1>1, <2>7 DEF LlmTypeOK
    <3>2. QED
      BY <1>3, <2>3, <2>4, <2>7, <3>1, RolesFileKeeps
  <2>8. QED
    BY <2>4, <2>5, <2>6, <2>7
<1>4. QED
  BY <1>2, <1>3

LEMMA RoleRequestKeeps ==
    ASSUME LlmIInv, running, RoleRequest
    PROVE  LlmIInv'
<1>1. PICK name \in Role :
         \/ \E config \in RoleConfig : AddRole(name, config) \/ ApplyRolePreset(name, config)
         \/ RemoveRole(name)
         \/ \E provider \in {Absent} \cup Provider, model \in {Absent} \cup Model :
               UpdateRole(name, provider, model)
  BY DEF RoleRequest
<1>2. ASSUME NEW config \in RoleConfig, AddRole(name, config) \/ ApplyRolePreset(name, config)
      PROVE  LlmIInv'
  BY <1>2, AddRoleKeeps, AnswerKeeps DEF ApplyRolePreset, Reply
<1>3. QED
  BY <1>1, <1>2, RemoveRoleKeeps, UpdateRoleKeeps

-----------------------------------------------------------------------------
(* Calls, lists and the process.                                           *)

LEMMA CallKeeps ==
    ASSUME LlmIInv, Call \/ ListRequest
    PROVE  LlmIInv'
<1>1. ASSUME NEW role \in Role, CallProvider(role) PROVE LlmIInv'
  <2>1. Route(role) \in Reply \cup {"sent"} /\ {"ok", "llm_error"} \subseteq Reply
    BY DEF Route, Reply
  <2>2. QED
    BY <1>1, <2>1, AnswerKeeps DEF CallProvider
<1>2. ASSUME NEW role \in Role, HandleChat(role) PROVE LlmIInv'
  BY <1>1, <1>2, AnswerKeeps DEF HandleChat, Reply
<1>3. CASE ListRequest
  BY <1>3, AnswerKeeps
  DEF ListRequest, ListFromMemory, ListProvidersDetail, ListRolesDetail, Reply
<1>4. QED
  BY <1>1, <1>2, <1>3 DEF Call, HandleEmbeddings, HandleImages, CreateChatStream

LEMMA PrepareKeeps == LlmIInv /\ Prepare => LlmIInv'
<1> SUFFICES ASSUME LlmIInv, Prepare PROVE LlmIInv'
  OBVIOUS
<1>1. LlmTypeOK /\ VouchedIsKept
  BY DEF LlmIInv
<1>2. /\ providersFile \in ProviderTable /\ rolesFile \in RolesConfig
      /\ running' = TRUE /\ manager' = providersFile /\ roles' = rolesFile /\ unsaved' = {}
      /\ llmReply' \in Reply /\ UNCHANGED <<providersFile, rolesFile, vouched>>
  BY <1>1 DEF Prepare, LlmTypeOK, Answer, Reply
<1>3. LlmTypeOK' /\ InSync'
  BY <1>1, <1>2 DEF LlmTypeOK, InSync
<1>4. VouchedIsKept'
  BY <1>1, <1>2, NeverCorrupt DEF VouchedIsKept, Offered
<1>5. QED
  BY <1>3, <1>4 DEF LlmIInv

LEMMA RepairKeeps == LlmIInv /\ Repair => LlmIInv'
<1> SUFFICES ASSUME LlmIInv, Repair PROVE LlmIInv'
  OBVIOUS
<1>1. LlmTypeOK /\ InSync
  BY DEF LlmIInv
<1>2. /\ ~running /\ vouched' = {} /\ UNCHANGED <<running, manager, roles, llmReply, unsaved>>
      /\ \/ providersFile = Corrupt /\ providersFile' = NoProviders /\ UNCHANGED rolesFile
         \/ rolesFile = Corrupt /\ rolesFile' = NoRoles /\ UNCHANGED providersFile
  BY DEF Repair
<1>3. NoRoles \in RolesConfig /\ NoProviders \in ProviderTable
  BY DEF NoRoles, NoProviders, RolesConfig, ProviderTable
<1>4. LlmTypeOK'
  BY <1>1, <1>2, <1>3 DEF LlmTypeOK
<1>5. manager # Corrupt /\ roles # Corrupt
  BY <1>1, NeverCorrupt DEF LlmTypeOK
<1>6. InSync'
  BY <1>1, <1>2, <1>5 DEF InSync
<1>7. QED
  BY <1>2, <1>4, <1>6 DEF LlmIInv, VouchedIsKept

LEMMA TableTransactionEndKeeps == LlmIInv /\ CoreEnds => LlmIInv'
  BY DEF CoreEnds, LlmIInv, LlmTypeOK, InSync, VouchedIsKept, Offered, tables

LEMMA LlmStep == LlmIInv /\ [LlmNext]_llmVars => LlmIInv'
<1> SUFFICES ASSUME LlmIInv, [LlmNext]_llmVars PROVE LlmIInv'
  OBVIOUS
<1>1. CASE HandleLlmRequest
  BY <1>1, ProviderRequestKeeps, RoleRequestKeeps, DefaultKeeps, CallKeeps DEF HandleLlmRequest
<1>2. CASE Prepare \/ CoreEnds \/ Repair
  BY <1>2, PrepareKeeps, RepairKeeps, TableTransactionEndKeeps
<1>3. CASE UNCHANGED llmVars
  BY <1>3, UnchangedTables DEF llmVars, LlmIInv, LlmTypeOK
<1>4. QED
  BY <1>1, <1>2, <1>3 DEF LlmNext

-----------------------------------------------------------------------------
(* What a step changes.                                                    *)

OneProvider == \A p, q \in Provider :
                 manager'[p] # manager[p] /\ manager'[q] # manager[q] => p = q
OneRole == \A r, s \in Role :
             roles'.roles[r] # roles.roles[r] /\ roles'.roles[s] # roles.roles[s] => r = s

LEMMA OneRewritten ==
    ASSUME LlmIInv, unsaved = {}, running',
           NEW p \in Provider, NEW config \in Models, RewriteProvider(p, config)
    PROVE  OneProvider /\ OneRole
<1>1. LlmTypeOK /\ providersFile = manager /\ rolesFile = roles
  BY DEF LlmIInv, InSync
<1>2. manager \in ProviderTable /\ roles # Corrupt
  BY <1>1, NeverCorrupt DEF LlmTypeOK
<1>3. \/ UNCHANGED <<manager, roles>>
      \/ manager' = [manager EXCEPT ![p] = config] /\ roles' = roles
  BY <1>1, <1>2 DEF RewriteProvider, Initialize
<1>4. \A q \in Provider \ {p} : manager'[q] = manager[q]
  <2>1. manager' = manager \/ manager' = [manager EXCEPT ![p] = config]
    BY <1>3
  <2>2. \A q \in Provider \ {p} : [manager EXCEPT ![p] = config][q] = manager[q]
    BY <1>2, ProviderChanged
  <2>3. QED
    BY <2>1, <2>2
<1>5. QED
  BY <1>3, <1>4 DEF OneProvider, OneRole

LEMMA OneRoleRequested ==
    ASSUME LlmIInv, unsaved = {}, running', RoleRequest \/ DefaultRequest
    PROVE  OneProvider /\ OneRole
<1>1. LlmTypeOK /\ rolesFile = roles /\ roles \in RolesConfig
  BY DEF LlmIInv, InSync, LlmTypeOK
<1>2. ASSUME NEW name \in Role, NEW entry \in Entry, manager' = manager,
             roles' = [roles EXCEPT !.roles[name] = entry]
      PROVE  OneProvider /\ OneRole
  <2>1. \A r \in Role \ {name} : roles'.roles[r] = roles.roles[r]
    BY <1>1, <1>2, RoleChanged
  <2>2. QED
    BY <1>2, <2>1 DEF OneProvider, OneRole
<1>3. CASE UNCHANGED <<manager, roles>>
  BY <1>3 DEF OneProvider, OneRole
<1>4. ASSUME NEW name \in Role, NEW config \in RoleConfig, AddRole(name, config)
      PROVE  OneProvider /\ OneRole
  <2>1. config \in Entry
    BY DEF Entry
  <2>2. QED
    BY <1>2, <1>3, <1>4, <2>1 DEF AddRole, AnswerOnly, tables, KeepRoles
<1>5. CASE RoleRequest
  <2>1. PICK name \in Role :
           \/ \E config \in RoleConfig : AddRole(name, config) \/ ApplyRolePreset(name, config)
           \/ RemoveRole(name)
           \/ \E provider \in {Absent} \cup Provider, model \in {Absent} \cup Model :
                 UpdateRole(name, provider, model)
    BY <1>5 DEF RoleRequest
  <2>2. ASSUME NEW config \in RoleConfig, AddRole(name, config) \/ ApplyRolePreset(name, config)
        PROVE  OneProvider /\ OneRole
    BY <1>3, <1>4, <2>2 DEF ApplyRolePreset, AnswerOnly, tables
  <2>3. CASE RemoveRole(name)
    <3>1. Absent \in Entry
      BY DEF Entry
    <3>2. QED
      BY <1>2, <2>3, <3>1 DEF RemoveRole, KeepRoles
  <2>4. ASSUME NEW provider \in {Absent} \cup Provider, NEW model \in {Absent} \cup Model,
               UpdateRole(name, provider, model)
        PROVE  OneProvider /\ OneRole
    <3>1. CASE rolesFile = Corrupt \/ rolesFile.roles[name] = Absent
      BY <1>3, <2>4, <3>1 DEF UpdateRole, AnswerOnly, tables
    <3>2. CASE rolesFile # Corrupt /\ rolesFile.roles[name] # Absent
      <4> DEFINE config == Changed(roles.roles[name], provider, model)
      <4>1. config \in Entry
        BY <1>1, <3>2 DEF RolesConfig, RoleConfig, Changed, Entry
      <4>2. /\ manager' = manager
            /\ roles' \in {roles, [roles EXCEPT !.roles[name] = config]}
        BY <1>1, <2>4, <3>2 DEF UpdateRole
      <4> HIDE DEF config
      <4>3. QED
        BY <1>2, <1>3, <4>1, <4>2
    <3>3. QED
      BY <3>1, <3>2
  <2>5. QED
    BY <2>1, <2>2, <2>3, <2>4
<1>6. CASE DefaultRequest
  <2>1. PICK name \in {Absent} \cup Role : SetDefaultRole(name)
    BY <1>6 DEF DefaultRequest
  <2>2. \/ UNCHANGED <<manager, roles>>
        \/ manager' = manager /\ roles' = [roles EXCEPT !.default_role = name]
    BY <2>1 DEF SetDefaultRole, AnswerOnly, tables, KeepRoles
  <2>3. [roles EXCEPT !.default_role = name].roles = roles.roles
    BY <1>1, DefaultChanged
  <2>4. QED
    BY <1>3, <2>2, <2>3 DEF OneProvider, OneRole
<1>7. QED
  BY <1>5, <1>6

LEMMA OneEntryHolds == LlmIInv /\ [LlmNext]_llmVars => OneEntryStep
<1> SUFFICES ASSUME LlmIInv, [LlmNext]_llmVars, running, running', unsaved = {}
             PROVE  OneProvider /\ OneRole
  BY DEF OneEntryStep, OneProvider, OneRole
<1>1. LlmTypeOK /\ providersFile = manager
  BY DEF LlmIInv, InSync
<1>2. CASE UNCHANGED <<manager, roles>>
  BY <1>2 DEF OneProvider, OneRole
<1>3. CASE ProviderRequest
  <2>1. PICK p \in Provider :
           \/ UNCHANGED <<manager, roles>>
           \/ \E config \in Models : RewriteProvider(p, config)
    <3>1. PresetModels \in Models /\ Absent \in Models /\ \A m \in SUBSET Model : m \in Models
      BY LlmAssumption DEF LlmAssumption, Models
    <3>2. \A p \in Provider : manager[p] \in Models
      BY <1>1 DEF LlmTypeOK, ProviderTable, Models
    <3>3. QED
      BY <1>1, <1>3, <3>1, <3>2
      DEF ProviderRequest, AddProvider, RemoveProvider, ApplyPreset, UpdateProvider, TestProvider,
          AnswerOnly, tables
  <2>2. QED
    BY <1>2, <2>1, OneRewritten
<1>4. CASE RoleRequest \/ DefaultRequest
  BY <1>4, OneRoleRequested
<1>5. CASE Call \/ ListRequest
  <2>1. UNCHANGED <<manager, roles>>
    BY <1>5
    DEF Call, HandleEmbeddings, HandleImages, CreateChatStream, HandleChat, CallProvider,
        ListRequest, ListFromMemory, ListProvidersDetail, ListRolesDetail, AnswerOnly, tables
  <2>2. QED
    BY <1>2, <2>1
<1>6. CASE Prepare \/ CoreEnds \/ Repair \/ UNCHANGED llmVars
  BY <1>2, <1>6 DEF Prepare, CoreEnds, Repair, llmVars, tables
<1>7. QED
  BY <1>3, <1>4, <1>5, <1>6 DEF LlmNext, HandleLlmRequest

LEMMA RestartHolds == LlmIInv /\ [LlmNext]_llmVars => RestartStep
<1> SUFFICES ASSUME LlmIInv, [LlmNext]_llmVars, ~running, running', unsaved = {}
             PROVE  UNCHANGED <<manager, roles>>
  BY DEF RestartStep
<1>1. providersFile = manager /\ rolesFile = roles
  BY DEF LlmIInv, InSync
<1>2. Prepare
  BY DEF LlmNext, HandleLlmRequest, CoreEnds, Repair, llmVars
<1>3. QED
  BY <1>1, <1>2 DEF Prepare

-----------------------------------------------------------------------------
(* The properties.                                                         *)

(* Memory and the two files agree but for the changes a failed save left   *)
(* out, and what add_role acknowledged is in both.                         *)
THEOREM TablesAgree == LlmSpec => []LlmIInv
  BY LlmStart, LlmStep, PTL DEF LlmSpec

(* A chat with a role that add_role acknowledged reaches a provider that   *)
(* offers the role's model, whatever saves failed and however often the    *)
(* core was restarted since.                                               *)
THEOREM VouchedRolesAlwaysResolve == LlmSpec => []VouchedRolesResolve
<1>1. LlmIInv => VouchedRolesResolve
  <2> SUFFICES ASSUME LlmIInv, NEW r \in vouched, EffectiveRole(r) = r
               PROVE  /\ Route(r) = "sent"
                      /\ roles.roles[r].model \in manager[roles.roles[r].provider]
    BY DEF VouchedRolesResolve
  <2>1. roles.roles[r] # Absent /\ Offered(roles.roles[r])
    BY DEF LlmIInv, VouchedIsKept
  <2>2. QED
    BY <2>1 DEF Route, Offered
<1>2. QED
  BY <1>1, LlmStart, LlmStep, PTL DEF LlmSpec

(* A restart of the core after saves that succeeded restores the tables.   *)
THEOREM RestartsKeepTheTables == LlmSpec => RestartKeepsTheTables
  BY LlmStart, LlmStep, RestartHolds, PTL DEF LlmSpec, RestartKeepsTheTables

(* A request changes one provider and one role at most: it writes back     *)
(* what an earlier request changed, from the file or from memory.          *)
THEOREM RequestsChangeOneEntry == LlmSpec => OneEntryAtATime
  BY LlmStart, LlmStep, OneEntryHolds, PTL DEF LlmSpec, OneEntryAtATime
=============================================================================

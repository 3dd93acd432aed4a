------------------------- MODULE AssetRefreshProofs -------------------------
(***************************************************************************)
(* AssetRefresh proved for any number of assets, articles, jobs, loops and *)
(* generations and any budgets: RefreshInv and StaleHandlerHarmless.       *)
(*                                                                         *)
(* A transaction of asset_repository.rs is a chain of operators on the     *)
(* tables, and in between the tables are out of order: an entry is in      *)
(* flight without a job, or a chain holds the slot of an asset that nobody *)
(* works on.  It is out of order for one asset x only.  So TablesOK is     *)
(* what holds between transactions, and Apart(d, x) what holds inside one: *)
(* everything about the other assets, and the counters of x.  Lemmas about *)
(* the operators go from TablesOK to Apart, stay there, and lead back.     *)
(*                                                                         *)
(* ChainHasItsJob is not inductive by itself: that the job of a chain is   *)
(* the one that will release it needs that entries in flight, refresh jobs *)
(* and chains match one to one (SlotOK), that entries to work on are only  *)
(* in the generation served last (CountersOK), that no repair is active    *)
(* beside pending refresh work (RepairOK), and that a handler whose job's  *)
(* row is still there has a row of its own kind (HandlersOK).              *)
(*                                                                         *)
(* Two operators fold over sets in any order.  A property that each step   *)
(* preserves holds of the fold: of the subsets where it fails a smallest   *)
(* one is taken, and its last step is undone (SmallestSubset, FoldedIn).   *)
(***************************************************************************)
EXTENDS AssetRefresh, FiniteSetTheorems, WellFoundedInduction, TLAPS

\* Entries that are still to be worked on, or that a job works on.
Live == Pending \cup {"in_flight"}

\* An article's retry lineage, an asset's repair circuit, an entry of a snapshot, the
\* snapshots, an asset's generation counters and the rows of the jobs table.
LineageState == [att : 0 .. RefreshMaxAttempts, cool : BOOLEAN, exh : BOOLEAN]
RepairState == [att : 0 .. RepairMaxAttempts, cool : BOOLEAN, exh : BOOLEAN]
Entry == [art : ArticleIds, st : States]
Snapshots == UNION {[1 .. n -> Entry] : n \in Nat}
Counters == [req : 0 .. MaxGen, comp : 0 .. MaxGen, served : 0 .. MaxGen, chain : Nat]
JobRows == RepairRow \cup RefreshRow \cup {NoJob}

\* The tables' rows, column by column.
RefreshTables ==
    [rec : SUBSET Assets, art : SUBSET ArticleIds, listed : SUBSET ArticleIds,
     link : SUBSET (Assets \X ArticleIds), body : [Assets -> {"present", "queued", "gone"}],
     rep : [Assets -> RepairState], lin : [ArticleIds -> LineageState],
     gen : [Assets -> Counters], ent : [Assets -> [1 .. MaxGen -> Snapshots]],
     jobs : [JobIds -> JobRows]]

\* Relations are between records and articles that are there.
LinksOK(d) == d.art \subseteq d.listed /\ d.link \subseteq d.rec \X d.art

\* A claim is charged, and a job that was charged for all its claims is not queued.
ChargesOK(d) ==
    \A j \in Active(d) :
        IF d.jobs[j].st = "queued" THEN d.jobs[j].att < JobMaxAttempts ELSE d.jobs[j].att > 0

\* No two jobs recover the same thing.
Exclusive(d) ==
    /\ \A j, k \in Refreshes(d) : d.jobs[j].art = d.jobs[k].art => j = k
    /\ \A j, k \in Repairs(d) : d.jobs[j].asset = d.jobs[k].asset => j = k

\* What holds of the jobs table alone.
JobsOK(d) == ChargesOK(d) /\ Exclusive(d)

\* The counters of x are in order; entries to work on are only in the
\* generation served last, and none once it is completed.
CountersOK(d, x) ==
    /\ d.gen[x].comp <= d.gen[x].served /\ d.gen[x].served <= d.gen[x].req
    /\ d.gen[x].served = 0 => d.gen[x].req = 0
    /\ \A g \in 1 .. MaxGen :
          EntriesIn(d, x, g, Live) # {} => g = d.gen[x].served /\ d.gen[x].comp < g

\* The refresh jobs admitted for x.
Carriers(d, x) == {j \in Refreshes(d) : d.jobs[j].asset = x}

\* No job works on a generation of x.
Idle(d, x) ==
    Carriers(d, x) = {} /\ \A g \in 1 .. MaxGen : EntriesIn(d, x, g, {"in_flight"}) = {}

\* Job j, and only it, works on a generation of x, on the entry in flight.
WorkedBy(d, x, j) ==
    /\ Carriers(d, x) = {j}
    /\ begin_article_refresh(d, j)
    /\ EntriesIn(d, x, d.jobs[j].gen, {"in_flight"}) = {d.jobs[j].ord}

\* The slot of x names its job.
SlotOK(d, x) ==
    /\ d.gen[x].chain = 0 => Idle(d, x)
    /\ d.gen[x].chain # 0 => \E j \in JobIds : WorkedBy(d, x, j)

\* A repair and a chain exclude each other.
RepairOK(d, x) ==
    RepairsOf(d, x) # {} => d.gen[x].chain = 0 /\ d.gen[x].req = d.gen[x].comp

\* What holds of x's generations and jobs.
AssetOK(d, x) == CountersOK(d, x) /\ SlotOK(d, x) /\ RepairOK(d, x)

\* What a transaction finds and leaves.
TablesOK(d) ==
    d \in RefreshTables /\ LinksOK(d) /\ JobsOK(d) /\ \A x \in Assets : AssetOK(d, x)

\* What a transaction has while it works on asset x: all of this but for x.
Others(d, x) ==
    d \in RefreshTables /\ LinksOK(d) /\ JobsOK(d) /\ \A y \in Assets \ {x} : AssetOK(d, y)

\* ... and x's counters are in order too, whatever is true of its slot.
Apart(d, x) == Others(d, x) /\ CountersOK(d, x)

\* Where the handler of a repair or of a refresh job may be.
RepairPhases == {"repair load", "repair fetch", "complete", "succeed"}
RefreshPhases == {"refresh load", "refresh fetch"}
Phases == RepairPhases \cup RefreshPhases \cup {"idle", "retry", "fail"}

\* A handler that still has its job's row has the row of its kind.
HandlersOK(d) ==
    /\ worker \in [Workers -> [job : JobIds \cup {Nil}, ph : Phases, sup : BOOLEAN]]
    /\ \A w \in Workers :
          /\ worker[w].ph \in RepairPhases /\ worker[w].job \in Active(d)
                => d.jobs[worker[w].job].type = "repair"
          /\ worker[w].ph \in RefreshPhases /\ worker[w].job \in Active(d)
                => d.jobs[worker[w].job].type = "refresh"

\* What the tables and the handlers keep, and enough to show it.
RefreshIInv == TablesOK(db) /\ HandlersOK(db) /\ Cardinality(Active(db)) <= MaxPending

\* A set of numbers that is not empty has a least one.
LEMMA LeastNumber ==
    ASSUME NEW S, S \subseteq Nat, S # {}
    PROVE  \E n \in S : \A m \in S : n <= m
<1> DEFINE R == {p \in Nat \X Nat : p[1] < p[2]}
<1>1. IsWellFoundedOn(R, Nat)
  BY NatLessThanWellFounded DEF OpToRel
<1> HIDE DEF R
<1>2. PICK n \in S : \A m \in S : ~(<<m, n>> \in R)
  BY <1>1, WFMin
<1>3. \A m \in S : ~(m < n)
  BY <1>2 DEF R
<1> QED
  BY <1>3


\* A family of subsets of a finite set has a smallest member.
LEMMA SmallestSubset ==
    ASSUME NEW S, IsFiniteSet(S), NEW T, T \subseteq SUBSET S, T # {}
    PROVE  \E s \in T : \A u \in T : ~(u \subseteq s /\ u # s)
<1>1. IsWellFoundedOn(StrictSubsetOrdering(S), SUBSET S)
  BY FS_StrictSubsetOrderingWellFounded, FS_FiniteSubsetsOfFinite
<1>2. PICK s \in T : \A u \in T : ~(<<u, s>> \in StrictSubsetOrdering(S))
  BY <1>1, WFMin
<1> QED
  BY <1>2 DEF StrictSubsetOrdering
-----------------------------------------------------------------------------
(* Entries. *)

\* What no operator on generations touches.
Frame(d, e) ==
    /\ e.rec = d.rec /\ e.art = d.art /\ e.listed = d.listed
    /\ e.link = d.link /\ e.body = d.body /\ e.rep = d.rep

\* A sequence of such operators touches none of it either.
LEMMA FrameTrans ==
    ASSUME NEW d, NEW e, NEW f, Frame(d, e), Frame(e, f)
    PROVE  Frame(d, f)
  BY DEF Frame

\* The rows of jobs and entries have their fields.
LEMMA RowTypes ==
    ASSUME NEW d \in RefreshTables
    PROVE  /\ \A j \in JobIds : d.jobs[j] \in JobRows
           /\ \A j \in Active(d) : j \in JobIds /\ d.jobs[j] \in RepairRow \cup RefreshRow
           /\ \A j \in Refreshes(d) : j \in Active(d) /\ d.jobs[j] \in RefreshRow
           /\ \A j \in Repairs(d) : j \in Active(d) /\ d.jobs[j] \in RepairRow
           /\ \A j \in Active(d) : j \in Refreshes(d) \/ j \in Repairs(d)
<1>1. ASSUME NEW j \in JobIds PROVE d.jobs[j] \in JobRows
  BY DEF RefreshTables
<1>2. ASSUME NEW j \in Active(d) PROVE j \in JobIds /\ d.jobs[j] \in RepairRow \cup RefreshRow
  BY <1>1 DEF Active, JobRows
<1> QED
  BY <1>1, <1>2 DEF Refreshes, Repairs, RepairRow, RefreshRow

\* A snapshot of the tables is a list of entries.
LEMMA EntryTypes ==
    ASSUME NEW d \in RefreshTables, NEW x \in Assets, NEW g \in 1 .. MaxGen
    PROVE  /\ DOMAIN d.ent[x][g] \subseteq Nat \ {0}
           /\ d.ent[x][g] = [o \in DOMAIN d.ent[x][g] |-> d.ent[x][g][o]]
           /\ \A o \in DOMAIN d.ent[x][g] : d.ent[x][g][o] \in Entry
           /\ d.ent[x][g] \in Snapshots
<1>0. d.ent \in [Assets -> [1 .. MaxGen -> Snapshots]]
  BY DEF RefreshTables
<1>1. d.ent[x][g] \in Snapshots
  BY <1>0
<1>2. PICK n \in Nat : d.ent[x][g] \in [1 .. n -> Entry]
  BY <1>1 DEF Snapshots
<1> QED
  BY <1>1, <1>2

\* Marking changes the state of the marked entries and nothing else.
LEMMA MarkedEntries ==
    ASSUME NEW s \in Snapshots, NEW S, NEW st \in States
    PROVE  /\ Marked(s, S, st) \in Snapshots
           /\ DOMAIN Marked(s, S, st) = DOMAIN s
           /\ \A o \in DOMAIN s :
                 /\ o \in S => Marked(s, S, st)[o] = [s[o] EXCEPT !.st = st]
                 /\ o \notin S => Marked(s, S, st)[o] = s[o]
<1>1. PICK n \in Nat : s \in [1 .. n -> Entry]
  BY DEF Snapshots
<1>2. \A o \in 1 .. n : s[o] \in Entry /\ [s[o] EXCEPT !.st = st] \in Entry
  BY <1>1 DEF Entry
<1>3. Marked(s, S, st) \in [1 .. n -> Entry]
  BY <1>1, <1>2 DEF Marked
<1> QED
  BY <1>1, <1>3 DEF Marked, Snapshots

\* Marking entries of one generation changes that generation only.
LEMMA MarkTables ==
    ASSUME NEW d \in RefreshTables, NEW x \in Assets, NEW g \in 1 .. MaxGen, NEW S,
           NEW st \in States, NEW e, e = MarkEntries(d, x, g, S, st)
    PROVE  /\ e \in RefreshTables /\ Frame(d, e)
           /\ e.lin = d.lin /\ e.jobs = d.jobs /\ e.gen = d.gen
           /\ e.ent[x][g] = Marked(d.ent[x][g], S, st)
           /\ \A y \in Assets, h \in 1 .. MaxGen :
                 y # x \/ h # g => e.ent[y][h] = d.ent[y][h]
<1> DEFINE s == Marked(d.ent[x][g], S, st)
           c == [d.ent EXCEPT ![x] = [@ EXCEPT ![g] = s]]
<1>1. s \in Snapshots
  BY EntryTypes, MarkedEntries
<1>2. e = [d EXCEPT !.ent = c]
  BY DEF MarkEntries
<1> HIDE DEF s
<1>3. d.ent \in [Assets -> [1 .. MaxGen -> Snapshots]]
  BY DEF RefreshTables
<1>4. /\ c \in [Assets -> [1 .. MaxGen -> Snapshots]]
      /\ c[x][g] = s
      /\ \A y \in Assets, h \in 1 .. MaxGen : y # x \/ h # g => c[y][h] = d.ent[y][h]
  BY <1>1, <1>3
<1> HIDE DEF c
<1>5. /\ e \in RefreshTables /\ e.ent = c
      /\ e.lin = d.lin /\ e.jobs = d.jobs /\ e.gen = d.gen /\ Frame(d, e)
  BY <1>2, <1>4 DEF RefreshTables, Frame
<1> QED
  BY <1>4, <1>5 DEF s

-----------------------------------------------------------------------------
(* Entries that are done without a job, and generations that complete. *)

\* t is s after some entries that waited were given up as done.
Retired(s, t) ==
    /\ DOMAIN t = DOMAIN s
    /\ \A o \in DOMAIN s :
          t[o] = s[o] \/ (s[o].st \in Pending /\ t[o] = [s[o] EXCEPT !.st = "done"])

\* e is d after some entries that wait are done, and some served generations
\* that have none left to work on are completed.
Settles(d, e) ==
    /\ e \in RefreshTables /\ Frame(d, e) /\ e.lin = d.lin /\ e.jobs = d.jobs
    /\ \A y \in Assets, h \in 1 .. MaxGen : Retired(d.ent[y][h], e.ent[y][h])
    /\ \A y \in Assets :
          \/ e.gen[y] = d.gen[y]
          \/ /\ e.gen[y] = [d.gen[y] EXCEPT !.comp = d.gen[y].served]
             /\ EntriesIn(e, y, d.gen[y].served, Live) = {}

\* An asset's counters are numbers in their range.
LEMMA GenTypes ==
    ASSUME NEW d \in RefreshTables, NEW x \in Assets
    PROVE  /\ d.gen[x] \in Counters
           /\ d.gen[x].req \in 0 .. MaxGen /\ d.gen[x].comp \in 0 .. MaxGen
           /\ d.gen[x].served \in 0 .. MaxGen /\ d.gen[x].chain \in Nat
<1>1. d.gen \in [Assets -> Counters]
  BY DEF RefreshTables
<1>2. d.gen[x] \in Counters
  BY <1>1
<1> QED
  BY <1>2 DEF Counters

\* What depends on the rows of jobs alone.
LEMMA SameJobs ==
    ASSUME NEW d, NEW e, e.jobs = d.jobs
    PROVE  /\ Active(e) = Active(d) /\ Repairs(e) = Repairs(d) /\ Refreshes(e) = Refreshes(d)
           /\ \A x : RepairsOf(e, x) = RepairsOf(d, x) /\ Carriers(e, x) = Carriers(d, x)
           /\ \A a : RefreshesOf(e, a) = RefreshesOf(d, a)
           /\ JobsOK(d) => JobsOK(e)
<1>1. Active(e) = Active(d)
  BY DEF Active
<1>2. Repairs(e) = Repairs(d) /\ Refreshes(e) = Refreshes(d)
  BY <1>1 DEF Repairs, Refreshes
<1>3. JobsOK(d) => JobsOK(e)
  BY <1>1, <1>2 DEF JobsOK, ChargesOK, Exclusive
<1> QED
  BY <1>1, <1>2, <1>3 DEF RepairsOf, Carriers, RefreshesOf

\* Giving up waiting entries does not disturb the one in flight.
LEMMA RetiredEntries ==
    ASSUME NEW d \in RefreshTables, NEW e \in RefreshTables,
           NEW x \in Assets, NEW g \in 1 .. MaxGen, Retired(d.ent[x][g], e.ent[x][g])
    PROVE  /\ EntriesIn(e, x, g, Live) \subseteq EntriesIn(d, x, g, Live)
           /\ EntriesIn(e, x, g, {"in_flight"}) = EntriesIn(d, x, g, {"in_flight"})
           /\ \A o \in EntriesIn(d, x, g, {"in_flight"}) : e.ent[x][g][o] = d.ent[x][g][o]
<1>1. g # 0
  OBVIOUS
<1>2. \A o \in DOMAIN d.ent[x][g] : d.ent[x][g][o] \in Entry
  BY EntryTypes
<1>3. \A o \in DOMAIN d.ent[x][g] :
         \/ e.ent[x][g][o] = d.ent[x][g][o]
         \/ d.ent[x][g][o].st \in Pending /\ e.ent[x][g][o].st = "done"
  BY <1>2 DEF Retired, Entry
<1>4. DOMAIN e.ent[x][g] = DOMAIN d.ent[x][g]
  BY DEF Retired
<1> QED
  BY <1>1, <1>3, <1>4 DEF EntriesIn, Live, Pending

\* Entries may be given up one after the other.
LEMMA RetiredTrans ==
    ASSUME NEW s, NEW t, NEW u, Retired(s, t), Retired(t, u),
           \A o \in DOMAIN s : s[o] \in Entry
    PROVE  Retired(s, u)
<1>1. ASSUME NEW o \in DOMAIN s, s[o].st \in Pending, t[o] = [s[o] EXCEPT !.st = "done"]
      PROVE  u[o] = t[o]
  <2>1. t[o].st = "done"
    BY <1>1 DEF Entry
  <2> QED
    BY <2>1 DEF Retired, Pending
<1> QED
  BY <1>1 DEF Retired

\* Settling in several statements is settling.
LEMMA SettlesTrans ==
    ASSUME NEW d \in RefreshTables, NEW e, NEW f, Settles(d, e), Settles(e, f)
    PROVE  Settles(d, f)
<1>1. e \in RefreshTables /\ f \in RefreshTables
  BY DEF Settles
<1>2. Frame(d, f) /\ f.lin = d.lin /\ f.jobs = d.jobs
  BY FrameTrans DEF Settles
<1>3. ASSUME NEW y \in Assets, NEW h \in 1 .. MaxGen PROVE Retired(d.ent[y][h], f.ent[y][h])
  <2>1. Retired(d.ent[y][h], e.ent[y][h]) /\ Retired(e.ent[y][h], f.ent[y][h])
    BY DEF Settles
  <2>2. \A o \in DOMAIN d.ent[y][h] : d.ent[y][h][o] \in Entry
    BY EntryTypes
  <2> QED
    BY <2>1, <2>2, RetiredTrans
<1>4. ASSUME NEW y \in Assets
      PROVE  \/ f.gen[y] = d.gen[y]
             \/ /\ f.gen[y] = [d.gen[y] EXCEPT !.comp = d.gen[y].served]
                /\ EntriesIn(f, y, d.gen[y].served, Live) = {}
  <2>1. d.gen[y] \in Counters
    BY GenTypes
  <2>2. CASE e.gen[y] = d.gen[y]
    BY <2>2 DEF Settles
  <2>3. CASE /\ e.gen[y] = [d.gen[y] EXCEPT !.comp = d.gen[y].served]
             /\ EntriesIn(e, y, d.gen[y].served, Live) = {}
    <3>1. /\ e.gen[y].served = d.gen[y].served
          /\ [e.gen[y] EXCEPT !.comp = e.gen[y].served] = e.gen[y]
      BY <2>1, <2>3 DEF Counters
    <3>2. f.gen[y] = e.gen[y]
      BY <3>1 DEF Settles
    <3>3. EntriesIn(f, y, d.gen[y].served, Live) = {}
      <4>1. CASE d.gen[y].served = 0
        BY <4>1 DEF EntriesIn
      <4>2. CASE d.gen[y].served # 0
        <5>1. d.gen[y].served \in 1 .. MaxGen
          BY <4>2, GenTypes, RefreshConstants
        <5>2. Retired(e.ent[y][d.gen[y].served], f.ent[y][d.gen[y].served])
          BY <5>1 DEF Settles
        <5> QED
          BY <5>1, <5>2, <1>1, <2>3, RetiredEntries
      <4> QED
        BY <4>1, <4>2
    <3> QED
      BY <2>3, <3>2, <3>3
  <2> QED
    BY <2>2, <2>3 DEF Settles
<1> QED
  BY <1>1, <1>2, <1>3, <1>4 DEF Settles

\* A statement that finds nothing to do settles.
LEMMA SettlesSelf ==
    ASSUME NEW d \in RefreshTables
    PROVE  Settles(d, d)
  BY DEF Settles, Frame, Retired

\* Settling keeps the counters in order and completes at most.
LEMMA SettlesCounters ==
    ASSUME NEW d \in RefreshTables, NEW e, Settles(d, e), NEW x \in Assets, CountersOK(d, x)
    PROVE  /\ CountersOK(e, x)
           /\ e.gen[x].req = d.gen[x].req /\ e.gen[x].served = d.gen[x].served
           /\ e.gen[x].chain = d.gen[x].chain /\ d.gen[x].comp <= e.gen[x].comp
<1>1. d.gen[x] \in Counters /\ e \in RefreshTables
  BY GenTypes DEF Settles
<1>2. \A g \in 1 .. MaxGen : EntriesIn(e, x, g, Live) \subseteq EntriesIn(d, x, g, Live)
  BY <1>1, RetiredEntries DEF Settles
<1>3. CASE e.gen[x] = d.gen[x]
  BY <1>1, <1>2, <1>3 DEF CountersOK, Counters
<1>4. CASE /\ e.gen[x] = [d.gen[x] EXCEPT !.comp = d.gen[x].served]
           /\ EntriesIn(e, x, d.gen[x].served, Live) = {}
  <2>1. /\ e.gen[x].req = d.gen[x].req /\ e.gen[x].served = d.gen[x].served
        /\ e.gen[x].chain = d.gen[x].chain /\ e.gen[x].comp = d.gen[x].served
    BY <1>1, <1>4 DEF Counters
  <2>2. \A g \in 1 .. MaxGen : EntriesIn(e, x, g, Live) = {}
    BY <1>2, <1>4 DEF CountersOK
  <2> QED
    BY <1>1, <2>1, <2>2 DEF CountersOK, Counters
<1> QED
  BY <1>3, <1>4 DEF Settles

\* Settling leaves a slot with the job it had, or idle.
LEMMA SettlesSlot ==
    ASSUME NEW d \in RefreshTables, NEW e, Settles(d, e), NEW x \in Assets, CountersOK(d, x)
    PROVE  /\ Idle(d, x) => Idle(e, x)
           /\ \A j \in JobIds : WorkedBy(d, x, j) => WorkedBy(e, x, j)
           /\ SlotOK(d, x) => SlotOK(e, x)
           /\ RepairOK(d, x) => RepairOK(e, x)
<1>1. e \in RefreshTables /\ e.jobs = d.jobs
  BY DEF Settles
<1>2. \A g \in 1 .. MaxGen :
         /\ EntriesIn(e, x, g, {"in_flight"}) = EntriesIn(d, x, g, {"in_flight"})
         /\ \A o \in EntriesIn(d, x, g, {"in_flight"}) : e.ent[x][g][o] = d.ent[x][g][o]
         /\ DOMAIN e.ent[x][g] = DOMAIN d.ent[x][g]
  <2> SUFFICES ASSUME NEW g \in 1 .. MaxGen
               PROVE  /\ EntriesIn(e, x, g, {"in_flight"}) = EntriesIn(d, x, g, {"in_flight"})
                      /\ \A o \in EntriesIn(d, x, g, {"in_flight"}) : e.ent[x][g][o] = d.ent[x][g][o]
                      /\ DOMAIN e.ent[x][g] = DOMAIN d.ent[x][g]
    OBVIOUS
  <2>1. Retired(d.ent[x][g], e.ent[x][g])
    BY DEF Settles
  <2>2. DOMAIN e.ent[x][g] = DOMAIN d.ent[x][g]
    BY <2>1 DEF Retired
  <2> QED
    BY <1>1, <2>1, <2>2, RetiredEntries
<1>3. /\ e.gen[x].req = d.gen[x].req /\ e.gen[x].served = d.gen[x].served
      /\ e.gen[x].chain = d.gen[x].chain /\ d.gen[x].comp <= e.gen[x].comp
      /\ CountersOK(e, x)
  BY SettlesCounters
<1>4. Carriers(e, x) = Carriers(d, x) /\ RepairsOf(e, x) = RepairsOf(d, x)
  BY <1>1, SameJobs
<1>5. Idle(d, x) => Idle(e, x)
  BY <1>2, <1>4 DEF Idle
<1>6. ASSUME NEW j \in JobIds, WorkedBy(d, x, j) PROVE WorkedBy(e, x, j)
  <2>1. j \in Refreshes(d) /\ d.jobs[j].asset = x
    BY <1>6 DEF WorkedBy, Carriers
  <2>2. d.jobs[j] \in RefreshRow
    BY <2>1, RowTypes
  <2>3. d.jobs[j].gen \in 1 .. MaxGen
    BY <2>2 DEF RefreshRow
  <2>4. EntriesIn(d, x, d.jobs[j].gen, {"in_flight"}) = {d.jobs[j].ord}
    BY <1>6 DEF WorkedBy
  <2>5. begin_article_refresh(d, j)
    BY <1>6 DEF WorkedBy
  <2>6. begin_article_refresh(e, j)
    BY <1>1, <1>2, <1>3, <2>1, <2>3, <2>4, <2>5 DEF begin_article_refresh, read_refresh_target
  <2> QED
    BY <1>1, <1>2, <1>4, <1>6, <2>3, <2>6 DEF WorkedBy
<1>7. RepairOK(d, x) => RepairOK(e, x)
  <2>1. e.gen[x].comp \in 0 .. MaxGen /\ e.gen[x].req \in 0 .. MaxGen /\ e.gen[x].served \in 0 .. MaxGen
        /\ d.gen[x].comp \in 0 .. MaxGen
    BY <1>1, GenTypes
  <2>2. e.gen[x].comp <= e.gen[x].served /\ e.gen[x].served <= e.gen[x].req
    BY <1>3 DEF CountersOK
  <2> QED
    BY <1>3, <1>4, <2>1, <2>2, RefreshConstants DEF RepairOK
<1> QED
  BY <1>3, <1>5, <1>6, <1>7 DEF SlotOK

\* Settling keeps the tables in order.
LEMMA SettlesTables ==
    ASSUME NEW d, NEW e, Settles(d, e)
    PROVE  /\ TablesOK(d) => TablesOK(e)
           /\ \A x \in Assets : Apart(d, x) => Apart(e, x)
<1>1. d \in RefreshTables /\ LinksOK(d) => e \in RefreshTables /\ LinksOK(e)
  BY DEF Settles, Frame, LinksOK
<1>2. JobsOK(d) => JobsOK(e)
  BY SameJobs DEF Settles
<1>3. ASSUME d \in RefreshTables, NEW x \in Assets
      PROVE  /\ CountersOK(d, x) => CountersOK(e, x)
             /\ AssetOK(d, x) => AssetOK(e, x)
  BY <1>3, SettlesCounters, SettlesSlot DEF AssetOK
<1> QED
  BY <1>1, <1>2, <1>3 DEF TablesOK, Apart, Others

\* Marking entries that wait as done settles them.
LEMMA MarkSettles ==
    ASSUME NEW d \in RefreshTables, NEW x \in Assets, NEW g \in 1 .. MaxGen,
           NEW S, S \subseteq EntriesIn(d, x, g, Pending)
    PROVE  Settles(d, MarkEntries(d, x, g, S, "done"))
<1> DEFINE e == MarkEntries(d, x, g, S, "done")
<1>1. "done" \in States
  BY DEF States
<1>2. /\ e \in RefreshTables /\ Frame(d, e)
      /\ e.lin = d.lin /\ e.jobs = d.jobs /\ e.gen = d.gen
      /\ e.ent[x][g] = Marked(d.ent[x][g], S, "done")
      /\ \A y \in Assets, h \in 1 .. MaxGen : y # x \/ h # g => e.ent[y][h] = d.ent[y][h]
  BY <1>1, MarkTables
<1> HIDE DEF e
<1>3. Retired(d.ent[x][g], e.ent[x][g])
  <2>1. d.ent[x][g] \in Snapshots
    BY EntryTypes
  <2>2. \A o \in S : o \in DOMAIN d.ent[x][g] => d.ent[x][g][o].st \in Pending
    BY DEF EntriesIn
  <2> QED
    BY <1>1, <1>2, <2>1, <2>2, MarkedEntries DEF Retired
<1>4. ASSUME NEW y \in Assets, NEW h \in 1 .. MaxGen PROVE Retired(d.ent[y][h], e.ent[y][h])
  BY <1>2, <1>3 DEF Retired
<1>5. Settles(d, e)
  BY <1>2, <1>4 DEF Settles
<1> QED
  BY <1>5 DEF e

\* Completing the served generation settles it.
LEMMA CompleteSettles ==
    ASSUME NEW d \in RefreshTables, NEW x \in Assets, CountersOK(d, x),
           NEW g \in 0 .. MaxGen, g = d.gen[x].served
    PROVE  /\ Settles(d, complete_refresh_generation_if_terminal(d, x, g))
           /\ complete_refresh_generation_if_terminal(d, x, g).ent = d.ent
<1> DEFINE e == complete_refresh_generation_if_terminal(d, x, g)
<1>1. CASE e = d
  BY <1>1, SettlesSelf
<1>2. CASE EntriesIn(d, x, g, Pending \cup {"in_flight"}) = {} /\ e = [d EXCEPT !.gen[x].comp = g]
  <2>1. d.gen \in [Assets -> Counters]
    BY DEF RefreshTables
  <2>2. d.gen[x] \in Counters /\ d.gen[x].served \in 0 .. MaxGen
    BY GenTypes
  <2> DEFINE c == [d.gen EXCEPT ![x] = [@ EXCEPT !.comp = g]]
  <2>3. c \in [Assets -> Counters] /\ c[x] = [d.gen[x] EXCEPT !.comp = g]
        /\ \A y \in Assets \ {x} : c[y] = d.gen[y]
    BY <2>1, <2>2 DEF Counters
  <2>4. e = [d EXCEPT !.gen = c]
    BY <1>2
  <2> HIDE DEF c, e
  <2>5. /\ e \in RefreshTables /\ Frame(d, e) /\ e.lin = d.lin /\ e.jobs = d.jobs
        /\ e.ent = d.ent /\ e.gen = c
    BY <2>3, <2>4 DEF RefreshTables, Frame
  <2>6. EntriesIn(e, x, g, Live) = {}
    BY <1>2, <2>5 DEF EntriesIn, Live
  <2>7. \A y \in Assets, h \in 1 .. MaxGen : Retired(d.ent[y][h], e.ent[y][h])
    BY <2>5 DEF Retired
  <2>8. Settles(d, e)
    BY <2>3, <2>5, <2>6, <2>7 DEF Settles
  <2> QED
    BY <2>5, <2>8 DEF e
<1>3. e = d \/ (EntriesIn(d, x, g, Pending \cup {"in_flight"}) = {} /\ e = [d EXCEPT !.gen[x].comp = g])
  BY DEF complete_refresh_generation_if_terminal
<1> QED
  BY <1>1, <1>2, <1>3

\* Entries of exhausted or vanished articles are given up without a job.
LEMMA MarkExhaustedSettles ==
    ASSUME NEW d \in RefreshTables, NEW x \in Assets, NEW g \in 1 .. MaxGen
    PROVE  Settles(d, mark_exhausted_refresh_entries(d, x, g))
  BY MarkSettles DEF mark_exhausted_refresh_entries

\* The selection settles entries, and what it selects can be admitted.
LEMMA SelectSettles ==
    ASSUME NEW d \in RefreshTables, NEW x \in Assets, NEW g \in 1 .. MaxGen, NEW after \in Nat,
           NEW sel, sel = select_refresh_entry(d, x, g, after)
    PROVE  /\ Settles(d, sel.db)
           /\ sel.ord # 0 =>
                 LET a == sel.db.ent[x][g][sel.ord].art IN
                 /\ sel.ord \in EntriesIn(sel.db, x, g, Pending)
                 /\ ~Spent(sel.db.lin[a])
                 /\ RefreshesOf(sel.db, a) = {}
                 /\ a \in d.art /\ <<x, a>> \in d.link
<1> DEFINE dead == {o \in EntriesIn(d, x, g, Pending) :
                      \/ BlobPresent(d, x)
                      \/ ~(d.ent[x][g][o].art \in d.art /\ <<x, d.ent[x][g][o].art>> \in d.link)}
           d1 == MarkEntries(d, x, g, dead, "done")
           able == {o \in EntriesIn(d1, x, g, Eligible) :
                      LET a == d1.ent[x][g][o].art IN
                      /\ o > after
                      /\ ~Spent(d1.lin[a])
                      /\ ~d1.lin[a].cool
                      /\ RefreshesOf(d1, a) = {}}
           n == IF able = {} THEN 0 ELSE CHOOSE o \in able : \A p \in able : o <= p
<1>1. sel = [db |-> d1, ord |-> n]
  BY Zenon DEF select_refresh_entry
<1>2. Settles(d, d1)
  BY MarkSettles
<1>3. "done" \in States
  BY DEF States
<1>4. /\ d1 \in RefreshTables
      /\ d1.ent[x][g] = Marked(d.ent[x][g], dead, "done")
  BY <1>3, MarkTables
<1>5. able \subseteq Nat
  BY Zenon, <1>4, EntryTypes DEF EntriesIn
<1>6. ASSUME NEW o \in able
      PROVE  /\ o \in EntriesIn(d1, x, g, Pending)
             /\ ~Spent(d1.lin[d1.ent[x][g][o].art])
             /\ RefreshesOf(d1, d1.ent[x][g][o].art) = {}
             /\ d1.ent[x][g][o].art \in d.art /\ <<x, d1.ent[x][g][o].art>> \in d.link
  <2> DEFINE s == d.ent[x][g]
             t == d1.ent[x][g]
  <2>1. o \in DOMAIN t /\ t[o].st \in Eligible
    BY Zenon DEF EntriesIn
  <2>2. s \in Snapshots /\ \A p \in DOMAIN s : s[p] \in Entry
    BY Zenon, EntryTypes
  <2>3. DOMAIN t = DOMAIN s /\ (o \in dead => t[o] = [s[o] EXCEPT !.st = "done"])
        /\ (o \notin dead => t[o] = s[o])
    <3> HIDE DEF dead, d1
    <3> QED
      BY <1>3, <1>4, <2>1, <2>2, MarkedEntries
  <2>4. o \notin dead
    <3> HIDE DEF dead, d1
    <3> QED
      BY <2>1, <2>2, <2>3 DEF Entry, Eligible
  <2>5. t[o] = s[o] /\ s[o].st \in Pending /\ o \in DOMAIN s
    BY Zenon, <2>1, <2>3, <2>4 DEF Eligible, Pending
  <2>6. o \in EntriesIn(d, x, g, Pending)
    BY Zenon, <2>5 DEF EntriesIn
  <2>7. s[o].art \in d.art /\ <<x, s[o].art>> \in d.link
    BY Zenon, <2>4, <2>6
  <2>8. o \in EntriesIn(d1, x, g, Pending)
    BY Zenon, <2>1 DEF EntriesIn, Eligible, Pending
  <2> QED
    BY Zenon, <2>5, <2>7, <2>8
<1>7. n # 0 => n \in able
  <2>1. ASSUME able # {} PROVE n \in able
    <3> HIDE DEF able
    <3>1. PICK o \in able : \A p \in able : o <= p
      BY <1>5, <2>1, LeastNumber
    <3> QED
      BY <2>1, <3>1
  <2> QED
    BY Zenon, <2>1
<1> HIDE DEF d1, able, n
<1>8. sel.db = d1 /\ sel.ord = n
  BY <1>1
<1> QED
  BY <1>2, <1>6, <1>7, <1>8

-----------------------------------------------------------------------------
(* Jobs that are admitted. *)

\* Job j keeps what it works on: asset, article, chain, generation and entry.
SameTask(d, e, j) ==
    /\ e.jobs[j].asset = d.jobs[j].asset /\ e.jobs[j].art = d.jobs[j].art
    /\ e.jobs[j].chain = d.jobs[j].chain /\ e.jobs[j].gen = d.jobs[j].gen
    /\ e.jobs[j].ord = d.jobs[j].ord

\* An asset whose counters, entries and jobs are as they were.
LEMMA AssetKept ==
    ASSUME NEW d, NEW e, NEW y, e.gen[y] = d.gen[y],
           \A h \in 1 .. MaxGen : e.ent[y][h] = d.ent[y][h],
           d \in RefreshTables, y \in Assets
    PROVE  /\ CountersOK(d, y) => CountersOK(e, y)
           /\ Carriers(e, y) = Carriers(d, y) /\ Idle(d, y) => Idle(e, y)
           /\ Carriers(e, y) = Carriers(d, y) /\ (\A j \in Carriers(d, y) : SameTask(d, e, j))
                 => (SlotOK(d, y) => SlotOK(e, y))
           /\ RepairsOf(e, y) \subseteq RepairsOf(d, y) => (RepairOK(d, y) => RepairOK(e, y))
<1>1. \A g \in 1 .. MaxGen : \A K : EntriesIn(e, y, g, K) = EntriesIn(d, y, g, K)
  BY DEF EntriesIn
<1>2. CountersOK(d, y) => CountersOK(e, y)
  BY <1>1 DEF CountersOK
<1>3. Carriers(e, y) = Carriers(d, y) /\ Idle(d, y) => Idle(e, y)
  BY <1>1 DEF Idle
<1>4. ASSUME Carriers(e, y) = Carriers(d, y), NEW j \in JobIds, SameTask(d, e, j), WorkedBy(d, y, j)
      PROVE  WorkedBy(e, y, j)
  <2>1. j \in Refreshes(d) /\ d.jobs[j].asset = y
    BY <1>4 DEF WorkedBy, Carriers
  <2>2. d.jobs[j].gen \in 1 .. MaxGen
    BY <2>1, RowTypes DEF RefreshRow
  <2>3. begin_article_refresh(e, j)
    BY <1>4, <2>1, <2>2 DEF WorkedBy, SameTask, begin_article_refresh, read_refresh_target
  <2> QED
    BY <1>1, <1>4, <2>2, <2>3 DEF WorkedBy, SameTask
<1>5. ASSUME Carriers(e, y) = Carriers(d, y), \A j \in Carriers(d, y) : SameTask(d, e, j), SlotOK(d, y)
      PROVE  SlotOK(e, y)
  <2>1. \A j \in JobIds : WorkedBy(d, y, j) => SameTask(d, e, j)
    BY <1>5 DEF WorkedBy
  <2> QED
    BY <1>3, <1>4, <1>5, <2>1 DEF SlotOK
<1>6. RepairsOf(e, y) \subseteq RepairsOf(d, y) => (RepairOK(d, y) => RepairOK(e, y))
  BY DEF RepairOK
<1> QED
  BY <1>2, <1>3, <1>5, <1>6

\* At most one refresh job is new, under an identifier that is new.
Grows(d, e) ==
    \/ e.jobs = d.jobs
    \/ \E k \in JobIds \ Active(d), row \in RefreshRow :
          /\ e.jobs = [d.jobs EXCEPT ![k] = row]
          /\ \A w \in Workers : worker[w].job # k

\* The id of a new job is no active job and in no hand.
LEMMA NewJob ==
    ASSUME NEW d, RoomForJob(d)
    PROVE  NewJobId(d) \in JobIds \ Active(d) /\ \A w \in Workers : worker[w].job # NewJobId(d)
<1> DEFINE P(j) == \A w \in Workers : worker[w].job # j
<1>1. \E j \in JobIds \ Active(d) : P(j)
  BY DEF RoomForJob
<1> HIDE DEF P
<1>2. (CHOOSE j \in JobIds \ Active(d) : P(j)) \in JobIds \ Active(d) /\ P(CHOOSE j \in JobIds \ Active(d) : P(j))
  BY <1>1, Zenon
<1> QED
  BY <1>2 DEF NewJobId, P

\* A set that a function of S covers has no more members than S.
LEMMA ImageBound ==
    ASSUME NEW S, IsFiniteSet(S), NEW f, NEW T, f \in [S -> T], \A t \in T : \E s \in S : t = f[s]
    PROVE  IsFiniteSet(T) /\ Cardinality(T) <= Cardinality(S)
<1>1. f \in Surjection(S, T)
  BY DEF Surjection
<1> QED
  BY <1>1, FS_Surjection

\* A new chain is told from no chain.
LEMMA NewChainPositive ==
    ASSUME NEW d \in RefreshTables
    PROVE  NewChain(d) \in Nat \ {0}
<1> DEFINE R == Refreshes(d)
           A == {d.jobs[j].chain : j \in R}
           B == {d.gen[x].chain : x \in Assets}
           n == Cardinality(JobIds) + Cardinality(Assets) + 1
           P(c) == /\ \A j \in Refreshes(d) : d.jobs[j].chain # c
                   /\ \A x \in Assets : d.gen[x].chain # c
<1>1. /\ IsFiniteSet(JobIds) /\ IsFiniteSet(Assets)
      /\ Cardinality(JobIds) \in Nat /\ Cardinality(Assets) \in Nat
  BY RefreshConstants, FS_CardinalityType
<1>2. IsFiniteSet(R) /\ Cardinality(R) <= Cardinality(JobIds) /\ Cardinality(R) \in Nat
  <2>1. R \in SUBSET JobIds
    BY DEF Refreshes, Active
  <2> QED
    BY <1>1, <2>1, FS_Subset, FS_CardinalityType
<1>3. IsFiniteSet(A) /\ Cardinality(A) <= Cardinality(R) /\ Cardinality(A) \in Nat
  <2> DEFINE f == [j \in R |-> d.jobs[j].chain]
  <2>1. f \in [R -> A] /\ \A t \in A : \E s \in R : t = f[s]
    OBVIOUS
  <2> HIDE DEF f, A, R
  <2> QED
    BY <1>2, <2>1, ImageBound, FS_CardinalityType
<1>4. IsFiniteSet(B) /\ Cardinality(B) <= Cardinality(Assets) /\ Cardinality(B) \in Nat
  <2> DEFINE f == [x \in Assets |-> d.gen[x].chain]
  <2>1. f \in [Assets -> B] /\ \A t \in B : \E s \in Assets : t = f[s]
    OBVIOUS
  <2> HIDE DEF f, B
  <2> QED
    BY <1>1, <2>1, ImageBound, FS_CardinalityType
<1>5. \E c \in 1 .. n : P(c)
  <2> SUFFICES ASSUME \A c \in 1 .. n : c \in A \cup B PROVE FALSE
    OBVIOUS
  <2> HIDE DEF A, B
  <2>1. IsFiniteSet(A \cup B) /\ Cardinality(A \cup B) = Cardinality(A) + Cardinality(B) - Cardinality(A \cap B)
    BY <1>3, <1>4, FS_Union
  <2>2. Cardinality(A \cap B) \in Nat
    <3>1. A \cap B \in SUBSET A
      OBVIOUS
    <3> QED
      BY <3>1, <1>3, FS_Subset, FS_CardinalityType
  <2>3. 1 .. n \in SUBSET (A \cup B)
    OBVIOUS
  <2>4. Cardinality(1 .. n) <= Cardinality(A \cup B)
    BY <2>1, <2>3, FS_Subset
  <2>5. Cardinality(1 .. n) = n
    BY <1>1, FS_Interval
  <2> QED
    BY <1>1, <1>2, <1>3, <1>4, <2>1, <2>2, <2>4, <2>5
<1>6. n \in Nat
  BY <1>1
<1>7. NewChain(d) = CHOOSE c \in 1 .. n : P(c)
  BY DEF NewChain
<1> HIDE DEF P, n
<1>8. NewChain(d) \in 1 .. n
  BY <1>5, <1>7
<1> QED
  BY <1>6, <1>8

\* Job k has this row now.
RowSet(d, e, k, row) == e.jobs = [d.jobs EXCEPT ![k] = row]

\* The rows after one refresh job of x is new.
OneMore(d, e, k, row) ==
    /\ Active(e) = Active(d) \cup {k} /\ Repairs(e) = Repairs(d)
    /\ Refreshes(e) = Refreshes(d) \cup {k}
    /\ e.jobs[k] = row /\ \A j \in JobIds \ {k} : e.jobs[j] = d.jobs[j]
    /\ \A y : RepairsOf(e, y) = RepairsOf(d, y)
    /\ \A y : y # row.asset => Carriers(e, y) = Carriers(d, y)
    /\ \A j \in Active(d) : SameTask(d, e, j)
    /\ Carriers(e, row.asset) = Carriers(d, row.asset) \cup {k}

\* What the jobs table is after one refresh job was inserted.
LEMMA InsertedRows ==
    ASSUME NEW d \in RefreshTables, NEW e, NEW k \in JobIds \ Active(d), NEW row \in RefreshRow,
           RowSet(d, e, k, row)
    PROVE  /\ OneMore(d, e, k, row)
           /\ JobsOK(d) /\ RefreshesOf(d, row.art) = {} /\ row.st = "queued" /\ row.att = 0 => JobsOK(e)
<1>1. d.jobs \in [JobIds -> JobRows]
  BY DEF RefreshTables
<1>2. e.jobs[k] = row /\ \A j \in JobIds \ {k} : e.jobs[j] = d.jobs[j]
  BY <1>1 DEF RowSet
<1>3. row # NoJob /\ row.type = "refresh" /\ d.jobs[k] = NoJob
  BY DEF RefreshRow, NoJob, Nil, Active
<1>4. Active(e) = Active(d) \cup {k}
  BY <1>2, <1>3 DEF Active
<1>5. Repairs(e) = Repairs(d) /\ Refreshes(e) = Refreshes(d) \cup {k}
  BY <1>2, <1>3, <1>4 DEF Repairs, Refreshes, Active
<1>6. k \notin Refreshes(d) /\ k \notin Repairs(d) /\ Refreshes(d) \subseteq JobIds /\ Repairs(d) \subseteq JobIds
  BY DEF Refreshes, Repairs, Active
<1>7. \A y : RepairsOf(e, y) = RepairsOf(d, y)
  BY <1>2, <1>5, <1>6 DEF RepairsOf
<1>8. \A y : y # row.asset => Carriers(e, y) = Carriers(d, y)
  BY <1>2, <1>5, <1>6 DEF Carriers
<1>9. Carriers(e, row.asset) = Carriers(d, row.asset) \cup {k}
  BY <1>2, <1>5, <1>6 DEF Carriers
<1>10. \A j \in Active(d) : SameTask(d, e, j)
  BY <1>2 DEF SameTask, Active
<1>11. ASSUME JobsOK(d), RefreshesOf(d, row.art) = {}, row.st = "queued", row.att = 0 PROVE JobsOK(e)
  <2>1. ChargesOK(e)
    BY <1>2, <1>4, <1>11, RefreshConstants DEF JobsOK, ChargesOK, Active
  <2>2. \A j \in Refreshes(d) : e.jobs[j] = d.jobs[j] /\ d.jobs[j].art # row.art
    BY <1>2, <1>6, <1>11 DEF RefreshesOf
  <2>3. \A i, j \in Refreshes(e) : e.jobs[i].art = e.jobs[j].art => i = j
    BY <1>2, <1>5, <1>11, <2>2 DEF JobsOK, Exclusive
  <2>4. \A i, j \in Repairs(e) : e.jobs[i].asset = e.jobs[j].asset => i = j
    BY <1>2, <1>5, <1>6, <1>11 DEF JobsOK, Exclusive
  <2> QED
    BY <2>1, <2>3, <2>4 DEF JobsOK, Exclusive
<1>12. OneMore(d, e, k, row)
  BY <1>2, <1>4, <1>5, <1>7, <1>8, <1>9, <1>10 DEF OneMore
<1> QED
  BY <1>11, <1>12

\* e is d after entry o is admitted, under a new chain or under the one x has.
Admitted(d, x, g, chain, o, e) ==
    \/ e = admit_refresh_entry(d, x, g, chain, o, TRUE) /\ d.gen[x].chain = 0
    \/ e = admit_refresh_entry(d, x, g, chain, o, FALSE) /\ d.gen[x].chain = chain

\* The columns of the tables after an admission.
NewRow(d, x, g, chain, o, e, k, row) ==
    /\ RowSet(d, e, k, row)
    /\ \A w \in Workers : worker[w].job # k
    /\ row.asset = x /\ row.art = d.ent[x][g][o].art /\ row.chain = chain
    /\ row.gen = g /\ row.ord = o /\ row.st = "queued" /\ row.att = 0

\* What an admission writes: the job, the mark of its entry and the chain in the slot.
AdmitEffect(d, x, g, chain, o, e) ==
    /\ e \in RefreshTables /\ Frame(d, e)
    /\ \E k \in JobIds \ Active(d), row \in RefreshRow : NewRow(d, x, g, chain, o, e, k, row)
    /\ e.ent[x][g] = Marked(d.ent[x][g], {o}, "in_flight")
    /\ \A y \in Assets, h \in 1 .. MaxGen : y # x \/ h # g => e.ent[y][h] = d.ent[y][h]
    /\ \A y \in Assets \ {x} : e.gen[y] = d.gen[y]
    /\ e.gen[x] = [d.gen[x] EXCEPT !.chain = chain]

\* admit_refresh_entry has that effect on an entry whose lineage is not spent.
LEMMA AdmitColumns ==
    ASSUME NEW d \in RefreshTables, NEW x \in Assets, NEW g \in 1 .. MaxGen, NEW chain \in Nat \ {0},
           NEW o \in EntriesIn(d, x, g, Pending),
           ~Spent(d.lin[d.ent[x][g][o].art]), RoomForJob(d),
           NEW e, Admitted(d, x, g, chain, o, e)
    PROVE  AdmitEffect(d, x, g, chain, o, e)
<1> DEFINE a == d.ent[x][g][o].art
           k == NewJobId(d)
           row == [type |-> "refresh", st |-> "queued", att |-> 0, owner |-> Nil,
                   asset |-> x, art |-> a, chain |-> chain, gen |-> g, ord |-> o]
           l == [d.lin[a] EXCEPT !.att = d.lin[a].att + 1, !.cool = FALSE]
           d1 == insert_refresh_job(d, x, g, chain, o)
           d2 == reserve_refresh_lineage(d1, a)
           d3 == MarkEntries(d2, x, g, {o} \cap EntriesIn(d2, x, g, Pending), "in_flight")
<1>0. \/ e = (IF TRUE /\ d3.gen[x].chain = 0 THEN [d3 EXCEPT !.gen[x].chain = chain] ELSE d3)
         /\ d.gen[x].chain = 0
      \/ e = d3 /\ d.gen[x].chain = chain
  BY Zenon DEF Admitted, admit_refresh_entry
<1>1. o \in DOMAIN d.ent[x][g] /\ d.ent[x][g][o] \in Entry /\ o \in Nat \ {0} /\ a \in ArticleIds
  <2>1. o \in DOMAIN d.ent[x][g]
    BY DEF EntriesIn
  <2>2. d.ent[x][g][o] \in Entry /\ o \in Nat \ {0}
    BY <2>1, EntryTypes
  <2> QED
    BY <2>1, <2>2 DEF Entry
<1>2. k \in JobIds \ Active(d) /\ \A w \in Workers : worker[w].job # k
  BY NewJob
<1>3. row \in RefreshRow
  BY <1>1, RefreshConstants DEF RefreshRow
<1>4. d.lin \in [ArticleIds -> LineageState] /\ d.jobs \in [JobIds -> JobRows] /\ d.gen \in [Assets -> Counters]
  BY DEF RefreshTables
<1>5. l \in LineageState
  <2>1. d.lin[a] \in LineageState
    BY <1>1, <1>4
  <2>2. d.lin[a].att \in Nat /\ ~(d.lin[a].att >= RefreshMaxAttempts) /\ RefreshMaxAttempts \in Nat
    BY <2>1, RefreshConstants DEF LineageState, Spent
  <2>3. d.lin[a].att + 1 \in 0 .. RefreshMaxAttempts
    BY <2>2
  <2> QED
    BY Zenon, <2>1, <2>3 DEF LineageState
<1> HIDE DEF k, row, l
<1>6. d1 = [d EXCEPT !.jobs = [d.jobs EXCEPT ![k] = row]]
  BY DEF insert_refresh_job, k, row
<1>7. [d.jobs EXCEPT ![k] = row] \in [JobIds -> JobRows]
  BY <1>2, <1>3, <1>4 DEF JobRows
<1> HIDE DEF d1
<1>8. /\ d1 \in RefreshTables /\ Frame(d, d1) /\ d1.jobs = [d.jobs EXCEPT ![k] = row]
      /\ d1.lin = d.lin /\ d1.gen = d.gen /\ d1.ent = d.ent
  BY <1>6, <1>7 DEF RefreshTables, Frame
<1>9. d2 = [d1 EXCEPT !.lin = [d.lin EXCEPT ![a] = l]]
  BY <1>8 DEF reserve_refresh_lineage, l
<1>10. [d.lin EXCEPT ![a] = l] \in [ArticleIds -> LineageState]
  BY <1>1, <1>4, <1>5
<1> HIDE DEF d2
<1>11. /\ d2 \in RefreshTables /\ Frame(d1, d2) /\ d2.jobs = d1.jobs
       /\ d2.gen = d.gen /\ d2.ent = d.ent
  BY <1>8, <1>9, <1>10 DEF RefreshTables, Frame
<1>12. {o} \cap EntriesIn(d2, x, g, Pending) = {o}
  BY <1>11 DEF EntriesIn
<1>13. d3 = MarkEntries(d2, x, g, {o}, "in_flight") /\ "in_flight" \in States
  BY <1>12 DEF States
<1> HIDE DEF d3
<1>14. /\ d3 \in RefreshTables /\ Frame(d2, d3) /\ d3.jobs = d2.jobs /\ d3.gen = d.gen
       /\ d3.ent[x][g] = Marked(d.ent[x][g], {o}, "in_flight")
       /\ \A y \in Assets, h \in 1 .. MaxGen : y # x \/ h # g => d3.ent[y][h] = d.ent[y][h]
  BY <1>11, <1>13, MarkTables
<1>15. Frame(d, d3)
  BY <1>8, <1>11, <1>14, FrameTrans
<1> DEFINE c == [d.gen EXCEPT ![x] = [@ EXCEPT !.chain = chain]]
<1>16. /\ c \in [Assets -> Counters] /\ c[x] = [d.gen[x] EXCEPT !.chain = chain]
       /\ \A y \in Assets \ {x} : c[y] = d.gen[y]
  <2>1. d.gen[x] \in Counters
    BY GenTypes
  <2> QED
    BY <1>4, <2>1 DEF Counters
<1>17. e = [d3 EXCEPT !.gen = c] \/ (e = d3 /\ d.gen = c)
  <2>1. CASE d.gen[x].chain = 0 /\ e # d3
    BY <1>0, <1>14, <2>1
  <2>2. CASE d.gen[x].chain = chain /\ e = d3
    <3>1. d.gen[x] \in Counters
      BY GenTypes
    <3>2. [d.gen[x] EXCEPT !.chain = chain] = d.gen[x]
      BY <2>2, <3>1 DEF Counters
    <3>3. d.gen = c
      BY <1>4, <3>2
    <3> QED
      BY <2>2, <3>3
  <2>3. CASE d.gen[x].chain = 0 /\ e = d3
    BY <1>0, <1>14, <2>3
  <2> QED
    BY <1>0, <2>1, <2>2, <2>3
<1> HIDE DEF c
<1>18. /\ e \in RefreshTables /\ Frame(d3, e) /\ e.jobs = d3.jobs /\ e.ent = d3.ent
       /\ e.gen = c
  <2>1. CASE e = [d3 EXCEPT !.gen = c]
    <3>1. e \in RefreshTables
      BY <1>14, <1>16, <2>1 DEF RefreshTables
    <3>2. Frame(d3, e) /\ e.jobs = d3.jobs /\ e.ent = d3.ent /\ e.gen = c
      BY <1>14, <2>1 DEF RefreshTables, Frame
    <3> QED
      BY <3>1, <3>2
  <2>2. CASE e = d3 /\ d.gen = c
    BY <1>14, <2>2 DEF Frame
  <2> QED
    BY <1>17, <2>1, <2>2
<1>19. Frame(d, e)
  BY <1>15, <1>18, FrameTrans
<1>20. NewRow(d, x, g, chain, o, e, k, row)
  <2>1. e.jobs = [d.jobs EXCEPT ![k] = row]
    BY <1>8, <1>11, <1>14, <1>18
  <2>2. /\ row.asset = x /\ row.art = a /\ row.chain = chain
        /\ row.gen = g /\ row.ord = o /\ row.st = "queued" /\ row.att = 0
    BY DEF row
  <2> QED
    BY <1>2, <2>1, <2>2 DEF NewRow, RowSet
<1>21. \E i \in JobIds \ Active(d), r \in RefreshRow : NewRow(d, x, g, chain, o, e, i, r)
  BY <1>2, <1>3, <1>20
<1>22. e.ent[x][g] = Marked(d.ent[x][g], {o}, "in_flight")
  BY <1>14, <1>18
<1>23. e.gen[x] = [d.gen[x] EXCEPT !.chain = chain] /\ \A y \in Assets \ {x} : e.gen[y] = d.gen[y]
  BY <1>16, <1>18
<1>24. \A y \in Assets, h \in 1 .. MaxGen : y # x \/ h # g => e.ent[y][h] = d.ent[y][h]
  BY <1>14, <1>18
<1> QED
  BY <1>18, <1>19, <1>21, <1>22, <1>23, <1>24, Zenon DEF AdmitEffect

\* A job was admitted into the generation that is served.
OneAdmitted(d, e, x) == e.gen[x].served = d.gen[x].served /\ Active(e) # Active(d)

\* An entry of the served generation of x that waits, admitted while no job
\* works on x, leaves x with its job.
LEMMA AdmitOK ==
    ASSUME NEW d, NEW x \in Assets, Apart(d, x), Idle(d, x),
           NEW g \in 1 .. MaxGen, g = d.gen[x].served, NEW chain \in Nat \ {0},
           NEW o \in EntriesIn(d, x, g, Pending),
           ~Spent(d.lin[d.ent[x][g][o].art]), RefreshesOf(d, d.ent[x][g][o].art) = {}, RoomForJob(d),
           NEW e, Admitted(d, x, g, chain, o, e)
    PROVE  /\ Apart(e, x) /\ SlotOK(e, x) /\ Frame(d, e) /\ Grows(d, e)
           /\ OneAdmitted(d, e, x)
<1>1. d \in RefreshTables /\ LinksOK(d) /\ JobsOK(d) /\ CountersOK(d, x)
  BY Zenon DEF Apart, Others
<1>2. /\ e \in RefreshTables /\ Frame(d, e)
      /\ \E k \in JobIds \ Active(d), row \in RefreshRow : NewRow(d, x, g, chain, o, e, k, row)
      /\ e.ent[x][g] = Marked(d.ent[x][g], {o}, "in_flight")
      /\ \A y \in Assets, h \in 1 .. MaxGen : y # x \/ h # g => e.ent[y][h] = d.ent[y][h]
      /\ \A y \in Assets \ {x} : e.gen[y] = d.gen[y]
      /\ e.gen[x] = [d.gen[x] EXCEPT !.chain = chain]
  <2>1. AdmitEffect(d, x, g, chain, o, e)
    BY Zenon, <1>1, AdmitColumns
  <2> QED
    BY <2>1, Zenon DEF AdmitEffect
<1>3a. PICK k \in JobIds \ Active(d), row \in RefreshRow : NewRow(d, x, g, chain, o, e, k, row)
  BY Zenon, <1>2
<1>3. /\ RowSet(d, e, k, row)
      /\ \A w \in Workers : worker[w].job # k
      /\ row.asset = x /\ row.art = d.ent[x][g][o].art /\ row.chain = chain
      /\ row.gen = g /\ row.ord = o /\ row.st = "queued" /\ row.att = 0
  BY Zenon, <1>3a DEF NewRow
<1>4. /\ Active(e) = Active(d) \cup {k} /\ Refreshes(e) = Refreshes(d) \cup {k}
      /\ e.jobs[k] = row /\ \A y : RepairsOf(e, y) = RepairsOf(d, y)
      /\ \A y : y # x => Carriers(e, y) = Carriers(d, y)
      /\ \A j \in Active(d) : SameTask(d, e, j)
      /\ Carriers(e, x) = Carriers(d, x) \cup {k}
      /\ JobsOK(e)
  <2>1. RefreshesOf(d, row.art) = {} /\ row.asset = x /\ row.st = "queued" /\ row.att = 0
    BY Zenon, <1>3
  <2>2. OneMore(d, e, k, row) /\ JobsOK(e)
    BY Zenon, <1>1, <1>3, <2>1, InsertedRows
  <2> QED
    BY Zenon, <2>1, <2>2 DEF OneMore
<1>5. /\ e.gen[x].req = d.gen[x].req /\ e.gen[x].comp = d.gen[x].comp
      /\ e.gen[x].served = d.gen[x].served /\ e.gen[x].chain = chain
  <2>1. d.gen[x] \in Counters
    BY Zenon, <1>1, GenTypes
  <2> QED
    BY Zenon, <1>2, <2>1 DEF Counters
<1>6. ASSUME NEW y \in Assets \ {x} PROVE AssetOK(e, y)
  <2>1. AssetOK(d, y)
    BY Zenon DEF Apart, Others
  <2>2. \A h \in 1 .. MaxGen : e.ent[y][h] = d.ent[y][h]
    BY Zenon, <1>2
  <2>3. Carriers(e, y) = Carriers(d, y) /\ \A j \in Carriers(d, y) : SameTask(d, e, j)
    BY Zenon, <1>4 DEF Carriers, Refreshes
  <2> QED
    BY Zenon, <1>1, <1>2, <1>4, <2>1, <2>2, <2>3, AssetKept DEF AssetOK
<1>7. /\ DOMAIN e.ent[x][g] = DOMAIN d.ent[x][g] /\ o \in DOMAIN d.ent[x][g]
      /\ e.ent[x][g][o] = [d.ent[x][g][o] EXCEPT !.st = "in_flight"]
      /\ \A p \in DOMAIN d.ent[x][g] : p # o => e.ent[x][g][p] = d.ent[x][g][p]
      /\ d.ent[x][g][o] \in Entry /\ d.ent[x][g][o].st \in Pending
  <2> DEFINE s == d.ent[x][g]
  <2>1. "in_flight" \in States
    BY Zenon DEF States
  <2>2. s \in Snapshots /\ \A p \in DOMAIN s : s[p] \in Entry
    BY Zenon, <1>1, EntryTypes
  <2>3. o \in DOMAIN s /\ s[o].st \in Pending
    BY Zenon DEF EntriesIn
  <2>4. e.ent[x][g] = Marked(s, {o}, "in_flight")
    BY Zenon, <1>2
  <2> HIDE DEF s
  <2>5. /\ DOMAIN Marked(s, {o}, "in_flight") = DOMAIN s
        /\ Marked(s, {o}, "in_flight")[o] = [s[o] EXCEPT !.st = "in_flight"]
        /\ \A p \in DOMAIN s : p # o => Marked(s, {o}, "in_flight")[p] = s[p]
    BY Zenon, <2>3 DEF Marked
  <2> QED
    BY Zenon, <2>2, <2>3, <2>4, <2>5 DEF s
<1>8. /\ e.ent[x][g][o] = [art |-> row.art, st |-> "in_flight"]
      /\ e.ent[x][g][o].st = "in_flight"
  BY Zenon, <1>3, <1>7 DEF Entry
<1>9. \A h \in 1 .. MaxGen : EntriesIn(e, x, h, Live) # {} => EntriesIn(d, x, h, Live) # {}
  <2>1. EntriesIn(d, x, g, Live) # {}
    BY Zenon, <1>7 DEF EntriesIn, Live
  <2>2. \A h \in 1 .. MaxGen : h # g => EntriesIn(e, x, h, Live) = EntriesIn(d, x, h, Live)
    BY Zenon, <1>2 DEF EntriesIn
  <2> QED
    BY Zenon, <2>1, <2>2
<1>10. CountersOK(e, x)
  BY Zenon, <1>1, <1>5, <1>9 DEF CountersOK
<1>11. EntriesIn(e, x, g, {"in_flight"}) = {o}
  <2>1. EntriesIn(d, x, g, {"in_flight"}) = {}
    BY Zenon DEF Idle
  <2>2. e.ent[x][g][o].st = "in_flight"
    BY Zenon, <1>8
  <2> QED
    BY Zenon, <1>7, <2>1, <2>2 DEF EntriesIn
<1>12. WorkedBy(e, x, k)
  <2>1. Carriers(e, x) = {k}
    BY Zenon, <1>4 DEF Idle
  <2>2. begin_article_refresh(e, k)
    BY Zenon, <1>3, <1>4, <1>5, <1>7, <1>8 DEF begin_article_refresh, read_refresh_target
  <2> QED
    BY Zenon, <1>3, <1>4, <1>11, <2>1, <2>2 DEF WorkedBy
<1>13. SlotOK(e, x)
  BY Zenon, <1>5, <1>12 DEF SlotOK
<1>14. LinksOK(e)
  BY Zenon, <1>1, <1>2 DEF Frame, LinksOK
<1>15. Apart(e, x)
  BY Zenon, <1>2, <1>4, <1>6, <1>10, <1>14 DEF Apart, Others
<1>16. Grows(d, e)
  BY Zenon, <1>3 DEF Grows, RowSet
<1>17. OneAdmitted(d, e, x)
  BY Zenon, <1>3, <1>4, <1>5 DEF OneAdmitted
<1> QED
  BY Zenon, <1>2, <1>13, <1>15, <1>16, <1>17


\* What an operator on the generations of x leaves: everything but, for now, the
\* repair of x, with at most one refresh job more.
Progress(d, e, x) == Apart(e, x) /\ SlotOK(e, x) /\ Frame(d, e) /\ Grows(d, e)

\* What at most one inserted refresh job means for the jobs table.
LEMMA GrowsRows ==
    ASSUME NEW d \in RefreshTables, NEW e, Grows(d, e)
    PROVE  /\ \A y : RepairsOf(e, y) = RepairsOf(d, y)
           /\ Active(d) \subseteq Active(e)
           /\ \A j \in Active(e) : j \in Active(d) \/ \A w \in Workers : worker[w].job # j
           /\ \A j \in Active(d) : e.jobs[j] = d.jobs[j]
           /\ IsFiniteSet(Active(d)) /\ IsFiniteSet(Active(e))
           /\ Cardinality(Active(d)) \in Nat /\ Cardinality(Active(e)) \in Nat
           /\ Cardinality(Active(e)) <= Cardinality(Active(d)) + 1
           /\ Cardinality(Active(e)) <= Cardinality(Active(d)) => e.jobs = d.jobs
<1>1. IsFiniteSet(Active(d)) /\ Cardinality(Active(d)) \in Nat
  <2>1. Active(d) \in SUBSET JobIds
    BY DEF Active
  <2> QED
    BY <2>1, RefreshConstants, FS_Subset, FS_CardinalityType
<1>2. CASE e.jobs = d.jobs
  <2>1. Active(e) = Active(d) /\ \A y : RepairsOf(e, y) = RepairsOf(d, y)
    BY <1>2, SameJobs
  <2> QED
    BY <1>1, <1>2, <2>1
<1>3. CASE e.jobs # d.jobs
  <2>1. PICK k \in JobIds \ Active(d), row \in RefreshRow :
           /\ e.jobs = [d.jobs EXCEPT ![k] = row]
           /\ \A w \in Workers : worker[w].job # k
    BY <1>3 DEF Grows
  <2>2. RowSet(d, e, k, row)
    BY <2>1 DEF RowSet
  <2>3. OneMore(d, e, k, row)
    BY <2>2, InsertedRows
  <2>4. /\ Active(e) = Active(d) \cup {k} /\ \A y : RepairsOf(e, y) = RepairsOf(d, y)
        /\ \A j \in JobIds \ {k} : e.jobs[j] = d.jobs[j]
    BY <2>3, Zenon DEF OneMore
  <2>5. IsFiniteSet(Active(e)) /\ Cardinality(Active(e)) = Cardinality(Active(d)) + 1
    BY <1>1, <2>4, FS_AddElement
  <2>6. \A j \in Active(d) : e.jobs[j] = d.jobs[j]
    BY <2>4 DEF Active
  <2>7. \A j \in Active(e) : j \in Active(d) \/ \A w \in Workers : worker[w].job # j
    BY <2>1, <2>4
  <2> QED
    BY <1>1, <2>4, <2>5, <2>6, <2>7
<1> QED
  BY <1>2, <1>3

\* Without a repair of x, that is everything.
LEMMA ProgressTables ==
    ASSUME NEW d \in RefreshTables, NEW e, NEW x \in Assets, Progress(d, e, x), RepairsOf(d, x) = {}
    PROVE  TablesOK(e)
<1>1. RepairsOf(e, x) = {}
  BY GrowsRows DEF Progress
<1>2. AssetOK(e, x)
  BY <1>1 DEF Progress, Apart, AssetOK, RepairOK
<1> QED
  BY <1>2 DEF Progress, Apart, Others, TablesOK

\* Settling entries of an asset nothing works on.
LEMMA SettledProgress ==
    ASSUME NEW d, NEW x \in Assets, Apart(d, x), Idle(d, x), d.gen[x].chain = 0,
           NEW e, Settles(d, e)
    PROVE  Progress(d, e, x) /\ Idle(e, x) /\ e.gen[x].chain = 0
<1>1. d \in RefreshTables /\ CountersOK(d, x)
  BY DEF Apart, Others
<1>2. Apart(e, x)
  BY SettlesTables
<1>3. Idle(e, x) /\ e.gen[x].chain = 0
  BY <1>1, SettlesSlot, SettlesCounters
<1>4. SlotOK(e, x)
  BY <1>3 DEF SlotOK
<1>5. Frame(d, e) /\ Grows(d, e)
  BY DEF Settles, Grows
<1> QED
  BY <1>2, <1>3, <1>4, <1>5 DEF Progress

\* A chain starts on a generation at rest: its first entry is admitted, or none is left.
LEMMA SelectAndAdmitOK ==
    ASSUME NEW d, NEW x \in Assets, Apart(d, x), Idle(d, x), d.gen[x].chain = 0,
           NEW g \in 1 .. MaxGen, g = d.gen[x].served, RoomForJob(d),
           NEW e, \/ e = SelectAndAdmit(d, x, g, TRUE)
                  \/ e = SelectAndAdmit(d, x, g, FALSE)
    PROVE  Progress(d, e, x)
<1> DEFINE sel == select_refresh_entry(d, x, g, 0)
           f == sel.db
<1>1. d \in RefreshTables /\ CountersOK(d, x)
  BY DEF Apart, Others
<1>2. /\ Settles(d, f)
      /\ sel.ord # 0 =>
            /\ sel.ord \in EntriesIn(f, x, g, Pending)
            /\ ~Spent(f.lin[f.ent[x][g][sel.ord].art])
            /\ RefreshesOf(f, f.ent[x][g][sel.ord].art) = {}
  <2>1. 0 \in Nat /\ sel = select_refresh_entry(d, x, g, 0)
    OBVIOUS
  <2> HIDE DEF sel
  <2> QED
    BY Zenon, <1>1, <2>1, SelectSettles
<1>3. \/ sel.ord # 0 /\ e = admit_refresh_entry(f, x, g, NewChain(f), sel.ord, TRUE)
      \/ sel.ord = 0 /\ e = complete_refresh_generation_if_terminal(f, x, g)
      \/ sel.ord = 0 /\ e = f
  BY DEF SelectAndAdmit
<1> HIDE DEF sel, f
<1>4. Progress(d, f, x) /\ Idle(f, x) /\ f.gen[x].chain = 0
  BY Zenon, <1>2, SettledProgress
<1>5. f.gen[x].served = g /\ CountersOK(f, x) /\ f \in RefreshTables /\ f.jobs = d.jobs /\ Apart(f, x) /\ Frame(d, f)
  <2>0. Settles(d, f)
    BY Zenon, <1>2
  <2>1. f.gen[x].served = d.gen[x].served /\ CountersOK(f, x)
    BY <1>1, <2>0, SettlesCounters
  <2>2. f \in RefreshTables /\ f.jobs = d.jobs
    BY Zenon, <1>2 DEF Settles
  <2> QED
    BY <1>4, <2>1, <2>2 DEF Progress
<1>6. CASE sel.ord # 0 /\ e = admit_refresh_entry(f, x, g, NewChain(f), sel.ord, TRUE)
  <2>1. NewChain(f) \in Nat \ {0}
    BY <1>5, NewChainPositive
  <2>2. RoomForJob(f)
    BY <1>5, SameJobs DEF RoomForJob
  <2>3. Admitted(f, x, g, NewChain(f), sel.ord, e)
    BY <1>4, <1>6 DEF Admitted
  <2>4. Apart(e, x) /\ SlotOK(e, x) /\ Frame(f, e) /\ Grows(f, e)
    BY Zenon, <1>2, <1>4, <1>5, <1>6, <2>1, <2>2, <2>3, AdmitOK
  <2>5. Grows(d, e)
    BY Zenon, <1>5, <2>4, SameJobs DEF Grows
  <2> QED
    BY <1>5, <2>4, <2>5, FrameTrans DEF Progress
<1>7. CASE e = complete_refresh_generation_if_terminal(f, x, g)
  <2>1. Settles(f, e)
    BY <1>5, <1>7, CompleteSettles
  <2>2. Settles(d, e)
    BY Zenon, <1>1, <1>2, <2>1, SettlesTrans
  <2> QED
    BY <2>2, SettledProgress
<1>8. CASE e = f
  BY <1>4, <1>8
<1> QED
  BY Zenon, <1>3, <1>6, <1>7, <1>8


-----------------------------------------------------------------------------
(* Generations that are served. *)

\* The first n members of s are in order.
Increasing(s, n) == \A i, k \in 1 .. n : i < k => s[i] < s[k]

\* A finite set of numbers can be listed in order.
LEMMA Listed ==
    ASSUME NEW S, IsFiniteSet(S)
    PROVE  S \subseteq Nat => \E s \in [1 .. Cardinality(S) -> S] : Increasing(s, Cardinality(S))
<1> DEFINE Can(u) == \E s \in [1 .. Cardinality(u) -> u] : Increasing(s, Cardinality(u))
           T == {u \in SUBSET S : u \subseteq Nat /\ ~Can(u)}
<1>1. SUFFICES ASSUME T # {} PROVE FALSE
  OBVIOUS
<1>2. PICK u \in T : \A v \in T : ~(v \subseteq u /\ v # u)
  <2>1. T \subseteq SUBSET S
    OBVIOUS
  <2> HIDE DEF T
  <2> QED
    BY <1>1, <2>1, SmallestSubset
<1>3. u \in SUBSET S /\ u \subseteq Nat /\ ~Can(u)
  BY <1>2
<1>4. IsFiniteSet(u) /\ Cardinality(u) \in Nat /\ u \subseteq Nat
  BY <1>3, FS_Subset, FS_CardinalityType
<1>5. u # {}
  <2> SUFFICES ASSUME u = {} PROVE FALSE
    OBVIOUS
  <2>1. Cardinality(u) = 0
    BY FS_EmptySet
  <2> DEFINE s == [i \in 1 .. Cardinality(u) |-> 0]
  <2>2. s \in [1 .. Cardinality(u) -> u] /\ Increasing(s, Cardinality(u))
    BY <2>1 DEF Increasing
  <2> QED
    BY <1>3, <2>2
<1>6. PICK m \in u : \A k \in u : m <= k
  BY <1>4, <1>5, LeastNumber
<1> DEFINE v == u \ {m}
           n == Cardinality(v)
<1>7. n \in Nat /\ Cardinality(u) = n + 1
  <2>1. IsFiniteSet(v) /\ Cardinality(v) = Cardinality(u) - 1
    BY <1>4, <1>6, FS_RemoveElement, Zenon
  <2>2. Cardinality(v) \in Nat
    BY <2>1, FS_CardinalityType
  <2> QED
    BY <1>4, <2>1, <2>2
<1>8. Can(v)
  <2>1. v \in SUBSET S /\ v \subseteq u /\ v # u /\ v \subseteq Nat
    BY <1>3
  <2> HIDE DEF v
  <2> QED
    BY <1>2, <2>1
<1>9. PICK s \in [1 .. n -> v] : Increasing(s, n)
  BY <1>8
<1> DEFINE t == [i \in 1 .. n + 1 |-> IF i = 1 THEN m ELSE s[i - 1]]
<1>10. \A i \in 1 .. n : s[i] \in u /\ m < s[i] /\ s[i] \in Nat
  <2>1. \A k \in v : k \in u /\ m < k /\ k \in Nat
    BY <1>4, <1>6
  <2> HIDE DEF v, n
  <2> QED
    BY <1>9, <2>1
<1> HIDE DEF n, v
<1>11. \A i \in 1 .. n + 1 : i = 1 \/ i - 1 \in 1 .. n
  BY <1>7
<1>12. t \in [1 .. n + 1 -> u]
  BY <1>6, <1>10, <1>11
<1>13. ASSUME NEW i \in 1 .. n + 1, NEW k \in 1 .. n + 1, i < k PROVE t[i] < t[k]
  <2>1. k # 1 /\ k - 1 \in 1 .. n /\ t[k] = s[k - 1]
    BY <1>7, <1>13
  <2>2. CASE i = 1
    BY <1>10, <2>1, <2>2
  <2>3. CASE i # 1
    <3>1. i - 1 \in 1 .. n /\ t[i] = s[i - 1] /\ i - 1 < k - 1
      BY <1>7, <1>13, <2>3
    <3> QED
      BY <1>9, <2>1, <3>1 DEF Increasing
  <2> QED
    BY <2>2, <2>3
<1>14. Increasing(t, n + 1)
  BY <1>13 DEF Increasing
<1> QED
  BY <1>3, <1>7, <1>12, <1>14

\* The snapshot is a list of the articles that show x, all unseen.
LEMMA SnapshotOK ==
    ASSUME NEW d \in RefreshTables, NEW x \in Assets, NEW g \in 1 .. MaxGen,
           NEW e, e = snapshot_asset_generation(d, x, g)
    PROVE  /\ e \in RefreshTables /\ Frame(d, e) /\ e.lin = d.lin /\ e.jobs = d.jobs /\ e.gen = d.gen
           /\ \A o \in DOMAIN e.ent[x][g] : e.ent[x][g][o].st = "unseen"
           /\ e.ent[x][g] = <<>> \/ EntriesIn(e, x, g, Pending) # {}
           /\ \A y \in Assets, h \in 1 .. MaxGen :
                 y # x \/ h # g => e.ent[y][h] = d.ent[y][h]
<1> DEFINE S == {a \in d.art : <<x, a>> \in d.link}
           n == Cardinality(S)
           P(s) == \A i, k \in 1 .. n : i < k => s[i] < s[k]
           order == CHOOSE s \in [1 .. n -> S] : P(s)
           list == [o \in 1 .. n |-> [art |-> order[o], st |-> "unseen"]]
           c == [d.ent EXCEPT ![x] = [@ EXCEPT ![g] = list]]
<1>0. S \in SUBSET ArticleIds
  BY DEF RefreshTables
<1>1. IsFiniteSet(S) /\ S \subseteq Nat /\ n \in Nat
  BY <1>0, RefreshConstants, FS_Subset, FS_CardinalityType
<1>2. order \in [1 .. n -> S]
  <2>1. \E s \in [1 .. n -> S] : P(s)
    <3> HIDE DEF S
    <3> QED
      BY <1>1, Listed DEF Increasing
  <2> HIDE DEF P, S, n
  <2> QED
    BY <2>1
<1>3. e = [d EXCEPT !.ent = c]
  BY DEF snapshot_asset_generation
<1> HIDE DEF S, n, order
<1>4. list \in Snapshots /\ DOMAIN list = 1 .. n /\ \A o \in DOMAIN list : list[o].st = "unseen"
  <2>1. list \in [1 .. n -> Entry]
    BY <1>0, <1>2 DEF Entry, States, Pending
  <2> QED
    BY <1>1, <2>1 DEF Snapshots
<1>5. list = <<>> \/ 1 \in DOMAIN list
  <2>1. CASE n = 0
    <3>1. 1 .. n = {}
      BY <2>1
    <3>2. list = [o \in {} |-> [art |-> order[o], st |-> "unseen"]]
      BY <3>1
    <3> QED
      BY <3>2
  <2>2. CASE n # 0
    BY <1>1, <2>2
  <2> QED
    BY <2>1, <2>2
<1> HIDE DEF list
<1>6. /\ c \in [Assets -> [1 .. MaxGen -> Snapshots]] /\ c[x][g] = list
      /\ \A y \in Assets, h \in 1 .. MaxGen : y # x \/ h # g => c[y][h] = d.ent[y][h]
  <2>1. d.ent \in [Assets -> [1 .. MaxGen -> Snapshots]]
    BY DEF RefreshTables
  <2> QED
    BY <1>4, <2>1
<1> HIDE DEF c
<1>7. /\ e \in RefreshTables /\ e.ent = c /\ e.lin = d.lin /\ e.jobs = d.jobs /\ e.gen = d.gen
      /\ Frame(d, e)
  BY <1>3, <1>6 DEF RefreshTables, Frame
<1>8. list = <<>> \/ EntriesIn(e, x, g, Pending) # {}
  <2>1. ASSUME 1 \in DOMAIN list PROVE 1 \in EntriesIn(e, x, g, Pending)
    <3>1. e.ent[x][g] = list /\ list[1].st \in Pending /\ g # 0
      BY <1>4, <1>6, <1>7, <2>1 DEF Pending
    <3> QED
      BY <2>1, <3>1 DEF EntriesIn
  <2> QED
    BY <1>5, <2>1
<1> QED
  BY <1>4, <1>6, <1>7, <1>8


\* d with other counters for x.
WithGen(d, x, c) == [d EXCEPT !.gen = [d.gen EXCEPT ![x] = c]]

\* The tables with other counters for x.
LEMMA WithGenTables ==
    ASSUME NEW d \in RefreshTables, NEW x \in Assets, NEW c \in Counters, NEW e, e = WithGen(d, x, c)
    PROVE  /\ e \in RefreshTables /\ Frame(d, e) /\ e.lin = d.lin /\ e.jobs = d.jobs /\ e.ent = d.ent
           /\ e.gen[x] = c /\ \A y \in Assets \ {x} : e.gen[y] = d.gen[y]
<1> DEFINE f == [d.gen EXCEPT ![x] = c]
<1>1. f \in [Assets -> Counters] /\ f[x] = c /\ \A y \in Assets \ {x} : f[y] = d.gen[y]
  BY DEF RefreshTables
<1>2. e = [d EXCEPT !.gen = f]
  BY DEF WithGen
<1> HIDE DEF f
<1>3. e \in RefreshTables /\ e.gen = f /\ e.lin = d.lin /\ e.jobs = d.jobs /\ e.ent = d.ent /\ Frame(d, e)
  BY <1>1, <1>2 DEF RefreshTables, Frame
<1> QED
  BY <1>1, <1>3

\* The other assets do not notice a change of x's counters and entries.
LEMMA OthersKept ==
    ASSUME NEW d, NEW x \in Assets, Others(d, x), NEW e \in RefreshTables, Frame(d, e), e.jobs = d.jobs,
           \A y \in Assets \ {x} : e.gen[y] = d.gen[y],
           \A y \in Assets \ {x}, h \in 1 .. MaxGen : e.ent[y][h] = d.ent[y][h]
    PROVE  Others(e, x)
<1>1. d \in RefreshTables /\ LinksOK(d) /\ JobsOK(d)
  BY DEF Others
<1>2. LinksOK(e)
  BY <1>1 DEF LinksOK, Frame
<1>3. JobsOK(e) /\ \A y : RepairsOf(e, y) = RepairsOf(d, y) /\ Carriers(e, y) = Carriers(d, y)
  BY <1>1, SameJobs
<1>4. ASSUME NEW y \in Assets \ {x} PROVE AssetOK(e, y)
  <2>1. AssetOK(d, y)
    BY DEF Others
  <2>2. \A j \in Carriers(d, y) : SameTask(d, e, j)
    BY DEF SameTask
  <2> QED
    BY <1>1, <1>3, <2>1, <2>2, AssetKept DEF AssetOK
<1> QED
  BY <1>2, <1>3, <1>4 DEF Others

\* A generation is served to an asset at rest: a snapshot of unseen entries and no job yet.
LEMMA ServeOK ==
    ASSUME NEW d, NEW x \in Assets, Others(d, x), Idle(d, x), d.gen[x].chain = 0,
           \A h \in 1 .. MaxGen : EntriesIn(d, x, h, Live) = {},
           d.gen[x].comp <= d.gen[x].served,
           NEW g \in 1 .. MaxGen, d.gen[x].served < g, g <= d.gen[x].req,
           NEW e, e = ServeGeneration(d, x, g)
    PROVE  /\ Apart(e, x) /\ Idle(e, x) /\ Frame(d, e) /\ e.jobs = d.jobs
           /\ e.gen[x].chain = 0 /\ e.gen[x].served = g /\ e.gen[x].req = d.gen[x].req
<1> DEFINE c == [d.gen[x] EXCEPT !.served = g]
           d0 == [d EXCEPT !.gen[x].served = g]
           d1 == snapshot_asset_generation(d0, x, g)
<1>1. d \in RefreshTables
  BY DEF Others
<1>2. d.gen[x] \in Counters /\ d.gen[x].comp \in 0 .. MaxGen /\ d.gen[x].served \in 0 .. MaxGen
  BY <1>1, GenTypes
<1>3. c \in Counters /\ c.served = g /\ c.comp = d.gen[x].comp /\ c.req = d.gen[x].req /\ c.chain = 0
  BY <1>2, RefreshConstants DEF Counters
<1>4. d0 = WithGen(d, x, c)
  BY DEF WithGen
<1> HIDE DEF c, d0
<1>5. /\ d0 \in RefreshTables /\ Frame(d, d0) /\ d0.jobs = d.jobs /\ d0.ent = d.ent
      /\ d0.gen[x] = c /\ \A y \in Assets \ {x} : d0.gen[y] = d.gen[y]
  BY <1>1, <1>3, <1>4, WithGenTables
<1>6. /\ d1 \in RefreshTables /\ Frame(d0, d1) /\ d1.jobs = d0.jobs /\ d1.gen = d0.gen
      /\ \A o \in DOMAIN d1.ent[x][g] : d1.ent[x][g][o].st = "unseen"
      /\ d1.ent[x][g] = <<>> \/ EntriesIn(d1, x, g, Pending) # {}
      /\ \A y \in Assets, h \in 1 .. MaxGen : y # x \/ h # g => d1.ent[y][h] = d0.ent[y][h]
  BY <1>5, SnapshotOK
<1>7. e = d1 \/ (d1.ent[x][g] = <<>> /\ e = [d1 EXCEPT !.gen[x].comp = g])
  BY DEF ServeGeneration, d0
<1> HIDE DEF d1
<1>8. /\ e \in RefreshTables /\ Frame(d1, e) /\ e.jobs = d1.jobs /\ e.ent = d1.ent
      /\ e.gen[x].chain = 0 /\ e.gen[x].served = g /\ e.gen[x].req = d.gen[x].req
      /\ \A y \in Assets \ {x} : e.gen[y] = d1.gen[y]
      /\ \/ e.gen[x].comp = d.gen[x].comp
         \/ e.gen[x].comp = g /\ d1.ent[x][g] = <<>>
  <2>1. CASE e = d1
    BY <1>3, <1>5, <1>6, <2>1 DEF Frame
  <2>2. CASE d1.ent[x][g] = <<>> /\ e = [d1 EXCEPT !.gen[x].comp = g]
    <3> DEFINE b == [c EXCEPT !.comp = g]
    <3>1. b \in Counters /\ b.served = g /\ b.comp = g /\ b.req = d.gen[x].req /\ b.chain = 0
      BY <1>3, RefreshConstants DEF Counters
    <3>2. e = WithGen(d1, x, b)
      BY <1>5, <1>6, <2>2 DEF WithGen
    <3> HIDE DEF b
    <3>3. d1 \in RefreshTables
      BY <1>6
    <3>4. /\ e \in RefreshTables /\ Frame(d1, e) /\ e.jobs = d1.jobs /\ e.ent = d1.ent
          /\ e.gen[x] = b /\ \A y \in Assets \ {x} : e.gen[y] = d1.gen[y]
      BY <3>1, <3>2, <3>3, WithGenTables
    <3> QED
      BY <2>2, <3>1, <3>4
  <2> QED
    BY <1>7, <2>1, <2>2
<1>9. Frame(d, e) /\ e.jobs = d.jobs
  BY <1>5, <1>6, <1>8, FrameTrans
<1>10. \A h \in 1 .. MaxGen : h # g => e.ent[x][h] = d.ent[x][h]
  BY <1>5, <1>6, <1>8
<1>11. Others(e, x)
  <2>1. \A y \in Assets \ {x} : e.gen[y] = d.gen[y]
    BY <1>5, <1>6, <1>8
  <2>2. \A y \in Assets \ {x}, h \in 1 .. MaxGen : e.ent[y][h] = d.ent[y][h]
    BY <1>5, <1>6, <1>8
  <2> QED
    BY <1>8, <1>9, <2>1, <2>2, OthersKept
<1>12. \A h \in 1 .. MaxGen : h # g => EntriesIn(e, x, h, Live) = {} /\ EntriesIn(e, x, h, {"in_flight"}) = {}
  <2>1. \A h \in 1 .. MaxGen : h # g => EntriesIn(e, x, h, Live) = EntriesIn(d, x, h, Live)
    BY <1>10 DEF EntriesIn
  <2>2. \A h \in 1 .. MaxGen : EntriesIn(e, x, h, {"in_flight"}) \subseteq EntriesIn(e, x, h, Live)
    BY DEF EntriesIn, Live
  <2> QED
    BY <2>1, <2>2
<1>13. EntriesIn(e, x, g, {"in_flight"}) = {} /\ (d1.ent[x][g] = <<>> => EntriesIn(e, x, g, Live) = {})
  <2>1. \A o \in DOMAIN e.ent[x][g] : e.ent[x][g][o].st = "unseen"
    BY <1>6, <1>8
  <2>2. EntriesIn(e, x, g, {"in_flight"}) = {}
    BY <2>1 DEF EntriesIn
  <2>3. ASSUME d1.ent[x][g] = <<>> PROVE EntriesIn(e, x, g, Live) = {}
    <3>1. DOMAIN e.ent[x][g] = {}
      BY <1>8, <2>3
    <3> QED
      BY <3>1 DEF EntriesIn
  <2> QED
    BY <2>2, <2>3
<1>14. Idle(e, x)
  <2>1. Carriers(e, x) = {}
    BY <1>9, SameJobs DEF Idle
  <2> QED
    BY <2>1, <1>12, <1>13 DEF Idle
<1>15. CountersOK(e, x)
  <2>1. e.gen[x].comp <= g /\ (e.gen[x].comp < g \/ EntriesIn(e, x, g, Live) = {})
    BY <1>2, <1>8, <1>13, RefreshConstants
  <2> QED
    BY <1>8, <1>12, <2>1 DEF CountersOK
<1> QED
  BY <1>8, <1>9, <1>11, <1>14, <1>15 DEF Apart


\* Entries of x that no job may still work on.
LEMMA NoneLive ==
    ASSUME NEW d \in RefreshTables, NEW x \in Assets, CountersOK(d, x),
           \/ d.gen[x].comp >= d.gen[x].served
           \/ EntriesIn(d, x, d.gen[x].served, Pending \cup {"in_flight"}) = {}
    PROVE  \A h \in 1 .. MaxGen : EntriesIn(d, x, h, Live) = {}
<1> SUFFICES ASSUME NEW h \in 1 .. MaxGen, EntriesIn(d, x, h, Live) # {} PROVE FALSE
  OBVIOUS
<1>1. h = d.gen[x].served /\ d.gen[x].comp < h
  BY DEF CountersOK
<1>2. d.gen[x].comp \in 0 .. MaxGen /\ d.gen[x].served \in 0 .. MaxGen
  BY GenTypes
<1>3. EntriesIn(d, x, d.gen[x].served, Pending \cup {"in_flight"}) = {}
  <2>1. ~(d.gen[x].comp >= d.gen[x].served)
    BY <1>1, <1>2
  <2> QED
    BY <2>1
<1> QED
  BY <1>1, <1>3 DEF Live

\* The generation that was asked for meanwhile starts, or there is none.
LEMMA FollowUpOK ==
    ASSUME NEW d, NEW x \in Assets, Apart(d, x), Idle(d, x), d.gen[x].chain = 0,
           \A h \in 1 .. MaxGen : EntriesIn(d, x, h, Live) = {}, RoomForJob(d),
           NEW e, e = start_follow_up_generation(d, x, d.gen[x].req)
    PROVE  Progress(d, e, x)
<1> DEFINE g == d.gen[x].req
           d1 == ServeGeneration(d, x, g)
           m == mark_exhausted_refresh_entries(d1, x, g)
           d2 == complete_refresh_generation_if_terminal(m, x, g)
<1>1. d \in RefreshTables /\ CountersOK(d, x) /\ Others(d, x)
  BY DEF Apart, Others
<1>2. e = d \/ (d.gen[x].served < g /\ (e = d1 \/ e = SelectAndAdmit(d2, x, g, FALSE)))
  BY DEF start_follow_up_generation
<1>3. CASE e = d
  BY <1>1, <1>3, SettlesSelf, SettledProgress
<1>4. CASE d.gen[x].served < g /\ (e = d1 \/ e = SelectAndAdmit(d2, x, g, FALSE))
  <2>1. g \in 1 .. MaxGen /\ g <= d.gen[x].req /\ d.gen[x].comp <= d.gen[x].served
    BY <1>1, <1>4, GenTypes, RefreshConstants DEF CountersOK
  <2> HIDE DEF g
  <2>2. /\ Apart(d1, x) /\ Idle(d1, x) /\ Frame(d, d1) /\ d1.jobs = d.jobs
        /\ d1.gen[x].chain = 0 /\ d1.gen[x].served = g
    BY <1>1, <1>4, <2>1, ServeOK
  <2> HIDE DEF d1
  <2>3. CASE e = d1
    <3>1. SlotOK(d1, x)
      BY <2>2 DEF SlotOK
    <3> QED
      BY <2>2, <2>3, <3>1 DEF Progress, Grows
  <2>4. CASE e = SelectAndAdmit(d2, x, g, FALSE)
    <3>0. d1 \in RefreshTables /\ CountersOK(d1, x)
      BY <2>2 DEF Apart, Others
    <3>1. Settles(d1, m)
      BY <2>1, <3>0, MarkExhaustedSettles
    <3> HIDE DEF m
    <3>2. m.gen[x].served = d1.gen[x].served /\ CountersOK(m, x)
      BY <3>0, <3>1, SettlesCounters
    <3>3. m \in RefreshTables /\ g \in 0 .. MaxGen
      BY <2>1, <3>1, RefreshConstants DEF Settles
    <3>4. Settles(m, d2)
      BY <2>2, <3>2, <3>3, CompleteSettles
    <3> HIDE DEF d2
    <3>5. Settles(d1, d2)
      BY <3>0, <3>1, <3>4, SettlesTrans
    <3>6. Progress(d1, d2, x) /\ Idle(d2, x) /\ d2.gen[x].chain = 0
      BY <2>2, <3>5, SettledProgress
    <3>7. d2.gen[x].served = d1.gen[x].served
      BY <3>0, <3>5, SettlesCounters
    <3>8. d2.jobs = d.jobs /\ Apart(d2, x) /\ Frame(d1, d2)
      BY <2>2, <3>5, <3>6 DEF Settles, Progress
    <3>9. RoomForJob(d2)
      BY <3>8, SameJobs DEF RoomForJob
    <3>10. Progress(d2, e, x)
      BY <2>1, <2>2, <2>4, <3>6, <3>7, <3>8, <3>9, SelectAndAdmitOK
    <3>11. Grows(d, e)
      BY <3>8, <3>10, SameJobs DEF Progress, Grows
    <3>12. Frame(d, e)
      BY <2>2, <3>8, <3>10, FrameTrans DEF Progress
    <3> QED
      BY <3>10, <3>11, <3>12 DEF Progress
  <2> QED
    BY <1>4, <2>3, <2>4
<1> QED
  BY <1>2, <1>3, <1>4

\* A miss while a chain works on x asks for one more generation.
LEMMA CoalesceOK ==
    ASSUME NEW d, NEW x \in Assets, TablesOK(d), d.gen[x].chain # 0, d.gen[x].req < MaxGen,
           NEW e, e = CoalesceRequest(d, x)
    PROVE  TablesOK(e) /\ e.jobs = d.jobs
<1>1. CASE e = d
  BY <1>1
<1>2. CASE d.gen[x].req < d.gen[x].served + 1 /\ e = [d EXCEPT !.gen[x].req = d.gen[x].served + 1]
  <2> DEFINE c == [d.gen[x] EXCEPT !.req = d.gen[x].served + 1]
  <2>0. d \in RefreshTables /\ AssetOK(d, x) /\ Others(d, x)
    BY DEF TablesOK, Others
  <2>1. /\ d.gen[x] \in Counters /\ d.gen[x].req \in 0 .. MaxGen /\ d.gen[x].served \in 0 .. MaxGen
        /\ d.gen[x].comp \in 0 .. MaxGen /\ MaxGen \in Nat
    BY <2>0, GenTypes, RefreshConstants
  <2>2. d.gen[x].served + 1 \in 0 .. MaxGen
    BY <2>0, <2>1 DEF AssetOK, CountersOK
  <2>3. /\ c \in Counters /\ c.req = d.gen[x].served + 1 /\ c.served = d.gen[x].served
        /\ c.comp = d.gen[x].comp /\ c.chain = d.gen[x].chain
    BY <2>1, <2>2 DEF Counters
  <2>4. e = WithGen(d, x, c)
    BY <1>2 DEF WithGen
  <2> HIDE DEF c
  <2>5. /\ e \in RefreshTables /\ Frame(d, e) /\ e.jobs = d.jobs /\ e.ent = d.ent
        /\ e.gen[x] = c /\ \A y \in Assets \ {x} : e.gen[y] = d.gen[y]
    BY <2>0, <2>3, <2>4, WithGenTables
  <2>6. Others(e, x)
    BY <2>0, <2>5, OthersKept
  <2>7. /\ Carriers(e, x) = Carriers(d, x) /\ RepairsOf(e, x) = RepairsOf(d, x)
        /\ \A g, K : EntriesIn(e, x, g, K) = EntriesIn(d, x, g, K)
    BY <2>5, SameJobs DEF EntriesIn
  <2>8. PICK j \in JobIds : WorkedBy(d, x, j)
    BY <2>0 DEF AssetOK, SlotOK
  <2>9. d.gen[x].served \in 1 .. MaxGen
    <3>1. j \in Refreshes(d) /\ d.jobs[j].asset = x
      BY <2>8 DEF WorkedBy, Carriers
    <3>2. d.jobs[j].gen \in 1 .. MaxGen
      BY <2>0, <3>1, RowTypes DEF RefreshRow
    <3> QED
      BY <2>8, <3>1, <3>2 DEF WorkedBy, begin_article_refresh
  <2>10. CountersOK(e, x)
    BY <2>0, <2>1, <2>3, <2>5, <2>7, <2>9 DEF AssetOK, CountersOK
  <2>11. WorkedBy(e, x, j)
    <3>1. begin_article_refresh(e, j)
      <4>1. d.jobs[j].asset = x
        BY <2>8 DEF WorkedBy, Carriers
      <4> QED
        BY <2>3, <2>5, <2>8, <4>1 DEF WorkedBy, begin_article_refresh, read_refresh_target
    <3> QED
      BY <2>5, <2>7, <2>8, <3>1 DEF WorkedBy
  <2>12. SlotOK(e, x)
    BY <2>3, <2>5, <2>11 DEF SlotOK
  <2>13. RepairOK(e, x)
    BY <2>0, <2>7 DEF AssetOK, RepairOK
  <2> QED
    BY <2>5, <2>6, <2>10, <2>12, <2>13 DEF TablesOK, Others, AssetOK
<1> QED
  BY <1>1, <1>2 DEF CoalesceRequest


\* Progress from tables that settled is progress.
LEMMA SettlesProgress ==
    ASSUME NEW d \in RefreshTables, NEW e, Settles(d, e), NEW x \in Assets, NEW f, Progress(e, f, x)
    PROVE  Progress(d, f, x)
<1>1. Frame(d, e) /\ e.jobs = d.jobs
  BY DEF Settles
<1>2. Frame(d, f)
  BY <1>1, FrameTrans DEF Progress
<1>3. Grows(d, f)
  BY <1>1, SameJobs DEF Progress, Grows
<1> QED
  BY <1>2, <1>3 DEF Progress

\* A miss that refresh state answers, and the maintenance pass that resumes it.
LEMMA ResumeOK ==
    ASSUME NEW d, NEW x \in Assets, TablesOK(d), RoomForJob(d),
           d.gen[x].chain # 0 => d.gen[x].req < MaxGen,
           NEW e, e = resume_refresh_after_cache_miss(d, x)
    PROVE  TablesOK(e) /\ Grows(d, e) /\ (e.jobs = d.jobs \/ refresh_capacity_available(d))
<1> DEFINE g == d.gen[x].served
           d1 == mark_exhausted_refresh_entries(d, x, g)
           sel == select_refresh_entry(d1, x, g, 0)
           f == complete_refresh_generation_if_terminal(sel.db, x, g)
<1>1. d \in RefreshTables /\ AssetOK(d, x) /\ Apart(d, x) /\ CountersOK(d, x)
  BY DEF TablesOK, Apart, Others, AssetOK
<1>2. CASE d.gen[x].chain # 0
  <2>1. e = CoalesceRequest(d, x)
    BY <1>2 DEF resume_refresh_after_cache_miss
  <2> QED
    BY <1>2, <2>1, CoalesceOK DEF Grows
<1>3. CASE d.gen[x].chain = 0 /\ (~RefreshAnswersMiss(d, x) \/ ~refresh_capacity_available(d))
  <2>1. e = d
    BY <1>3 DEF resume_refresh_after_cache_miss
  <2> QED
    BY <2>1 DEF Grows
<1>4. CASE d.gen[x].chain = 0 /\ RefreshAnswersMiss(d, x) /\ refresh_capacity_available(d)
  <2>1. /\ d.gen[x].req \in 0 .. MaxGen /\ d.gen[x].comp \in 0 .. MaxGen /\ g \in 0 .. MaxGen
        /\ MaxGen \in Nat
    BY <1>1, GenTypes, RefreshConstants
  <2>2. d.gen[x].req > d.gen[x].comp /\ g # 0 /\ g \in 1 .. MaxGen
    BY <1>4, <2>1 DEF RefreshAnswersMiss
  <2>3. RepairsOf(d, x) = {} /\ Idle(d, x)
    <3>1. d.gen[x].req # d.gen[x].comp
      BY <2>1, <2>2
    <3> QED
      BY <1>1, <1>4, <3>1 DEF AssetOK, RepairOK, SlotOK
  <2>4. \/ g <= d.gen[x].comp /\ e = start_follow_up_generation(d, x, d.gen[x].req)
        \/ sel.ord # 0 /\ e = admit_refresh_entry(sel.db, x, g, NewChain(sel.db), sel.ord, TRUE)
        \/ sel.ord = 0 /\ e = resume_follow_up_generation(f, x, g)
    BY <1>4 DEF resume_refresh_after_cache_miss
  <2>5. Settles(d, d1)
    BY <1>1, <2>2, MarkExhaustedSettles
  <2>6. d1 \in RefreshTables /\ d1.jobs = d.jobs
    BY <2>5 DEF Settles
  <2>7. Apart(d1, x) /\ Idle(d1, x) /\ d1.gen[x].chain = 0
    BY <1>1, <1>4, <2>3, <2>5, SettledProgress DEF Progress
  <2>8. d1.gen[x].served = g /\ CountersOK(d1, x)
    BY <1>1, <2>5, SettlesCounters
  <2>9. RoomForJob(d1)
    BY <2>6, SameJobs DEF RoomForJob
  <2>10. Progress(d, e, x)
    <3>1. CASE g <= d.gen[x].comp /\ e = start_follow_up_generation(d, x, d.gen[x].req)
      <4>1. d.gen[x].comp >= d.gen[x].served
        BY <2>1, <3>1
      <4>2. \A h \in 1 .. MaxGen : EntriesIn(d, x, h, Live) = {}
        BY <1>1, <4>1, NoneLive
      <4> QED
        BY <1>1, <1>4, <2>3, <3>1, <4>2, FollowUpOK
    <3>2. CASE sel.ord # 0 /\ e = admit_refresh_entry(sel.db, x, g, NewChain(sel.db), sel.ord, TRUE)
      <4>1. e = SelectAndAdmit(d1, x, g, TRUE)
        BY <3>2 DEF SelectAndAdmit
      <4> HIDE DEF d1
      <4>2. Progress(d1, e, x)
        BY <2>2, <2>7, <2>8, <2>9, <4>1, SelectAndAdmitOK
      <4> QED
        BY <1>1, <2>5, <4>2, SettlesProgress
    <3>3. CASE sel.ord = 0 /\ e = resume_follow_up_generation(f, x, g)
      <4> HIDE DEF d1
      <4>1. Settles(d1, sel.db)
        <5>1. 0 \in Nat /\ sel = select_refresh_entry(d1, x, g, 0)
          OBVIOUS
        <5> HIDE DEF sel, g
        <5> QED
          BY <2>2, <2>6, <5>1, SelectSettles
      <4> DEFINE b == sel.db
      <4> HIDE DEF sel
      <4>2. b.gen[x].served = d1.gen[x].served /\ CountersOK(b, x) /\ b \in RefreshTables
        <5>1. b \in RefreshTables
          BY <4>1 DEF Settles
        <5> QED
          BY <2>6, <2>8, <4>1, <5>1, SettlesCounters
      <4>3. Settles(b, f)
        BY <2>1, <2>8, <4>2, CompleteSettles
      <4> HIDE DEF f
      <4>4. Settles(d, f)
        BY <1>1, <2>5, <2>6, <4>1, <4>3, SettlesTrans
      <4>5. Progress(d, f, x) /\ Idle(f, x) /\ f.gen[x].chain = 0
        BY <1>1, <1>4, <2>3, <4>4, SettledProgress
      <4>6. f.gen[x].served = d.gen[x].served /\ CountersOK(f, x)
        BY <1>1, <4>4, SettlesCounters
      <4>7. CASE e = f
        BY <4>5, <4>7
      <4>8. CASE refresh_generation_completed(f, x, g) /\ e = start_follow_up_generation(f, x, f.gen[x].req)
        <5>1. f \in RefreshTables /\ f.jobs = d.jobs /\ Apart(f, x)
          BY <4>4, <4>5 DEF Settles, Progress
        <5>2. \A h \in 1 .. MaxGen : EntriesIn(f, x, h, Live) = {}
          BY <4>6, <4>8, <5>1, NoneLive DEF refresh_generation_completed
        <5>3. RoomForJob(f)
          BY <5>1, SameJobs DEF RoomForJob
        <5>4. Progress(f, e, x)
          BY <4>5, <4>8, <5>1, <5>2, <5>3, FollowUpOK
        <5> QED
          BY <1>1, <4>4, <5>4, SettlesProgress
      <4> QED
        BY <3>3, <4>7, <4>8 DEF resume_follow_up_generation
    <3> QED
      BY <2>4, <3>1, <3>2, <3>3
  <2>11. TablesOK(e)
    BY <1>1, <2>3, <2>10, ProgressTables
  <2> QED
    BY <1>4, <2>10, <2>11 DEF Progress
<1> QED
  BY <1>2, <1>3, <1>4


-----------------------------------------------------------------------------
(* Jobs that change and jobs that end. *)

\* A row that keeps its task.
KeepsTask(r, row) ==
    /\ row.type = r.type /\ row.asset = r.asset
    /\ \/ r \in RepairRow /\ row \in RepairRow
       \/ /\ r \in RefreshRow /\ row \in RefreshRow
          /\ row.art = r.art /\ row.chain = r.chain /\ row.gen = r.gen /\ row.ord = r.ord

\* The attempts of a row fit its status.
Charged(row) == IF row.st = "queued" THEN row.att < JobMaxAttempts ELSE row.att > 0

\* A claim, a retry, a deferral or a refund leaves the task and who does it.
LEMMA TouchedOK ==
    ASSUME NEW d, TablesOK(d), NEW j \in Active(d), NEW row, KeepsTask(d.jobs[j], row), Charged(row),
           NEW e \in RefreshTables, RowSet(d, e, j, row), e.gen = d.gen, e.ent = d.ent,
           e.art = d.art, e.listed = d.listed, e.rec = d.rec, e.link = d.link
    PROVE  /\ TablesOK(e) /\ Active(e) = Active(d)
           /\ e.jobs[j] = row /\ \A i \in Active(d) : e.jobs[i].type = d.jobs[i].type
           /\ \A y : RepairsOf(e, y) = RepairsOf(d, y)
<1>1. d \in RefreshTables /\ LinksOK(d) /\ JobsOK(d) /\ \A x \in Assets : AssetOK(d, x)
  BY DEF TablesOK
<1>2. j \in JobIds /\ d.jobs \in [JobIds -> JobRows] /\ d.jobs[j] # NoJob
  BY <1>1 DEF Active, RefreshTables
<1>3. e.jobs[j] = row /\ \A i \in JobIds \ {j} : e.jobs[i] = d.jobs[i]
  BY <1>2 DEF RowSet
<1>4. row # NoJob /\ row.type = d.jobs[j].type /\ row.asset = d.jobs[j].asset
  BY DEF KeepsTask, RepairRow, RefreshRow, NoJob, Nil
<1>5. Active(e) = Active(d)
  BY <1>2, <1>3, <1>4 DEF Active
<1>6. \A i \in Active(d) : e.jobs[i].type = d.jobs[i].type /\ e.jobs[i].asset = d.jobs[i].asset
  BY <1>3, <1>4 DEF Active
<1>7. Repairs(e) = Repairs(d) /\ Refreshes(e) = Refreshes(d)
  BY <1>5, <1>6 DEF Repairs, Refreshes
<1>8. \A y : RepairsOf(e, y) = RepairsOf(d, y) /\ Carriers(e, y) = Carriers(d, y)
  BY <1>6, <1>7 DEF RepairsOf, Carriers, Repairs, Refreshes
<1>9. \A i \in Refreshes(d) : SameTask(d, e, i)
  <2> SUFFICES ASSUME NEW i \in Refreshes(d) PROVE SameTask(d, e, i)
    OBVIOUS
  <2>1. CASE i # j
    BY <1>3, <2>1 DEF SameTask, Refreshes, Active
  <2>2. CASE i = j
    <3>1. d.jobs[j].type = "refresh"
      BY <2>2 DEF Refreshes
    <3>2. d.jobs[j] \notin RepairRow
      BY <3>1 DEF RepairRow
    <3> QED
      BY <1>3, <2>2, <3>2 DEF KeepsTask, SameTask
  <2> QED
    BY <2>1, <2>2
<1>10. JobsOK(e)
  <2>1. ChargesOK(e)
    BY <1>1, <1>3, <1>5 DEF JobsOK, ChargesOK, Charged, Active
  <2>2. Exclusive(e)
    BY <1>1, <1>6, <1>7, <1>9 DEF JobsOK, Exclusive, SameTask, Repairs
  <2> QED
    BY <2>1, <2>2 DEF JobsOK
<1>11. ASSUME NEW y \in Assets PROVE AssetOK(e, y)
  <2>1. AssetOK(d, y) /\ e.gen[y] = d.gen[y] /\ \A h \in 1 .. MaxGen : e.ent[y][h] = d.ent[y][h]
    BY <1>1
  <2>2. \A i \in Carriers(d, y) : SameTask(d, e, i)
    BY <1>9 DEF Carriers
  <2> QED
    BY <1>1, <1>8, <2>1, <2>2, AssetKept DEF AssetOK
<1>12. LinksOK(e)
  BY <1>1 DEF LinksOK
<1> QED
  BY <1>3, <1>5, <1>6, <1>8, <1>10, <1>11, <1>12 DEF TablesOK

\* The rows after a job ended.
OneLess(d, e, j) ==
    /\ Active(e) = Active(d) \ {j} /\ Repairs(e) = Repairs(d) \ {j}
    /\ Refreshes(e) = Refreshes(d) \ {j}
    /\ \A i \in Active(e) : e.jobs[i] = d.jobs[i]
    /\ \A y : RepairsOf(e, y) = RepairsOf(d, y) \ {j}
    /\ \A y : Carriers(e, y) = Carriers(d, y) \ {j}
    /\ \A i \in Active(e) : SameTask(d, e, i)

\* What the jobs table is after one job ended.
LEMMA RemovedRows ==
    ASSUME NEW d \in RefreshTables, NEW j \in Active(d), NEW e, e = RemoveJob(d, j)
    PROVE  /\ OneLess(d, e, j)
           /\ e \in RefreshTables /\ Frame(d, e) /\ e.gen = d.gen /\ e.ent = d.ent /\ e.lin = d.lin
           /\ JobsOK(d) => JobsOK(e)
           /\ LinksOK(d) => LinksOK(e)
           /\ IsFiniteSet(Active(d)) /\ Cardinality(Active(d)) \in Nat
           /\ Cardinality(Active(e)) = Cardinality(Active(d)) - 1
<1> DEFINE c == [d.jobs EXCEPT ![j] = NoJob]
<1>1. d.jobs \in [JobIds -> JobRows] /\ j \in JobIds
  BY DEF RefreshTables, Active
<1>2. c \in [JobIds -> JobRows] /\ c[j] = NoJob /\ \A i \in JobIds \ {j} : c[i] = d.jobs[i]
  BY <1>1 DEF JobRows
<1>3. e = [d EXCEPT !.jobs = c]
  BY DEF RemoveJob
<1> HIDE DEF c
<1>4. /\ e \in RefreshTables /\ Frame(d, e) /\ e.gen = d.gen /\ e.ent = d.ent /\ e.jobs = c
      /\ e.lin = d.lin
  BY <1>2, <1>3 DEF RefreshTables, Frame
<1>5. Active(e) = Active(d) \ {j} /\ \A i \in Active(e) : e.jobs[i] = d.jobs[i]
  BY <1>2, <1>4 DEF Active
<1>6. Repairs(e) = Repairs(d) \ {j} /\ Refreshes(e) = Refreshes(d) \ {j}
  BY <1>5 DEF Repairs, Refreshes
<1>7. Repairs(e) \subseteq Active(e) /\ Refreshes(e) \subseteq Active(e)
  BY DEF Repairs, Refreshes
<1>8. \A y : RepairsOf(e, y) = RepairsOf(d, y) \ {j} /\ Carriers(e, y) = Carriers(d, y) \ {j}
  BY <1>5, <1>6, <1>7 DEF RepairsOf, Carriers
<1>9. \A i \in Active(e) : SameTask(d, e, i)
  BY <1>5 DEF SameTask
<1>10. ASSUME JobsOK(d) PROVE JobsOK(e)
  <2>1. ChargesOK(e)
    BY <1>5, <1>10 DEF JobsOK, ChargesOK
  <2>2. Exclusive(e)
    BY <1>5, <1>6, <1>7, <1>10 DEF JobsOK, Exclusive
  <2> QED
    BY <2>1, <2>2 DEF JobsOK
<1>11. LinksOK(d) => LinksOK(e)
  BY <1>4 DEF Frame, LinksOK
<1>12. /\ IsFiniteSet(Active(d)) /\ Cardinality(Active(d)) \in Nat
       /\ Cardinality(Active(e)) = Cardinality(Active(d)) - 1
  <2>1. Active(d) \in SUBSET JobIds
    BY DEF Active
  <2>2. IsFiniteSet(Active(d)) /\ Cardinality(Active(d)) \in Nat
    BY <2>1, RefreshConstants, FS_Subset, FS_CardinalityType
  <2> QED
    BY <1>5, <2>2, FS_RemoveElement
<1>13. OneLess(d, e, j)
  BY <1>5, <1>6, <1>8, <1>9 DEF OneLess
<1> QED
  BY <1>4, <1>10, <1>11, <1>12, <1>13

\* The repair of x ends, whatever it left of x's refresh state.
LEMMA RemoveRepairOK ==
    ASSUME NEW d, NEW x \in Assets, Apart(d, x), SlotOK(d, x),
           NEW j \in Repairs(d), d.jobs[j].asset = x, NEW e, e = RemoveJob(d, j)
    PROVE  TablesOK(e)
<1>1. d \in RefreshTables /\ LinksOK(d) /\ JobsOK(d) /\ CountersOK(d, x)
  BY DEF Apart, Others
<1>2. j \in Active(d) /\ j \notin Refreshes(d)
  BY DEF Repairs, Refreshes
<1>3. /\ OneLess(d, e, j) /\ e \in RefreshTables /\ e.gen = d.gen /\ e.ent = d.ent
      /\ JobsOK(e) /\ LinksOK(e)
  BY <1>1, <1>2, RemovedRows
<1>4. ASSUME NEW y \in Assets
      PROVE  /\ CountersOK(d, y) => CountersOK(e, y)
             /\ SlotOK(d, y) => SlotOK(e, y)
             /\ RepairOK(d, y) => RepairOK(e, y)
  <2>1. Carriers(e, y) = Carriers(d, y) \ {j} /\ RepairsOf(e, y) = RepairsOf(d, y) \ {j}
    BY <1>3 DEF OneLess
  <2>2. Carriers(e, y) = Carriers(d, y)
    BY <1>2, <2>1 DEF Carriers
  <2>3. \A i \in Carriers(d, y) : SameTask(d, e, i)
    <3>1. Carriers(d, y) \subseteq Active(e)
      BY <2>2 DEF Carriers, Refreshes
    <3> QED
      BY <1>3, <3>1 DEF OneLess
  <2>4. e.gen[y] = d.gen[y] /\ \A h \in 1 .. MaxGen : e.ent[y][h] = d.ent[y][h]
    BY <1>3
  <2> QED
    BY <1>1, <2>1, <2>2, <2>3, <2>4, AssetKept
<1>5. RepairsOf(e, x) = {}
  <2>1. RepairsOf(d, x) = {j}
    BY <1>1 DEF RepairsOf, JobsOK, Exclusive
  <2>2. RepairsOf(e, x) = RepairsOf(d, x) \ {j}
    BY <1>3 DEF OneLess
  <2> QED
    BY <2>1, <2>2
<1>6. AssetOK(e, x)
  BY <1>1, <1>4, <1>5 DEF AssetOK, RepairOK
<1>7. \A y \in Assets \ {x} : AssetOK(e, y)
  BY <1>4 DEF AssetOK, Apart, Others
<1> QED
  BY <1>3, <1>6, <1>7 DEF TablesOK

\* The refresh job of x ends after its entry left flight.
LEMMA RemoveRefreshOK ==
    ASSUME NEW d, NEW x \in Assets, Apart(d, x), NEW j \in JobIds, Carriers(d, x) = {j},
           \A g \in 1 .. MaxGen : EntriesIn(d, x, g, {"in_flight"}) = {},
           NEW e, e = RemoveJob(d, j)
    PROVE  Apart(e, x) /\ Idle(e, x)
<1>1. d \in RefreshTables /\ LinksOK(d) /\ JobsOK(d) /\ CountersOK(d, x)
  BY DEF Apart, Others
<1>2. j \in Active(d) /\ j \in Refreshes(d) /\ j \notin Repairs(d) /\ d.jobs[j].asset = x
  BY DEF Carriers, Repairs, Refreshes
<1>3. /\ OneLess(d, e, j) /\ e \in RefreshTables /\ e.gen = d.gen /\ e.ent = d.ent
      /\ JobsOK(e) /\ LinksOK(e)
  BY <1>1, <1>2, RemovedRows
<1>4. ASSUME NEW y \in Assets \ {x} PROVE AssetOK(e, y)
  <2>1. Carriers(e, y) = Carriers(d, y) \ {j} /\ RepairsOf(e, y) = RepairsOf(d, y) \ {j}
    BY <1>3 DEF OneLess
  <2>2. Carriers(e, y) = Carriers(d, y)
    BY <1>2, <2>1 DEF Carriers
  <2>3. \A i \in Carriers(d, y) : SameTask(d, e, i)
    <3>1. Carriers(d, y) \subseteq Active(e)
      BY <2>2 DEF Carriers, Refreshes
    <3> QED
      BY <1>3, <3>1 DEF OneLess
  <2>4. e.gen[y] = d.gen[y] /\ \A h \in 1 .. MaxGen : e.ent[y][h] = d.ent[y][h]
    BY <1>3
  <2>5. AssetOK(d, y)
    BY DEF Apart, Others
  <2> QED
    BY <1>1, <2>1, <2>2, <2>3, <2>4, <2>5, AssetKept DEF AssetOK
<1>5. CountersOK(e, x)
  BY <1>1, <1>3, AssetKept
<1>6. Idle(e, x)
  <2>1. Carriers(e, x) = {}
    BY <1>3 DEF OneLess
  <2> QED
    BY <1>3, <2>1 DEF Idle, EntriesIn
<1> QED
  BY <1>3, <1>4, <1>5, <1>6 DEF Apart, Others


-----------------------------------------------------------------------------
(* A repair that hands its slot to a generation. *)

\* A job of e is one of d, of the same kind, or no handler works on it.
Heirs(d, e) ==
    \A i \in Active(e) :
        \/ i \in Active(d) /\ e.jobs[i].type = d.jobs[i].type
        \/ \A w \in Workers : worker[w].job # i

\* An inserted job is in no hand.
LEMMA GrowsHeirs ==
    ASSUME NEW d \in RefreshTables, NEW e, Grows(d, e)
    PROVE  Heirs(d, e)
<1>1. /\ \A j \in Active(e) : j \in Active(d) \/ \A w \in Workers : worker[w].job # j
      /\ \A j \in Active(d) : e.jobs[j] = d.jobs[j]
  BY GrowsRows
<1> QED
  BY <1>1 DEF Heirs

\* Transactions one after the other leave every handler its own job.
LEMMA HeirsTrans ==
    ASSUME NEW d, NEW e, NEW f, Heirs(d, e), Heirs(e, f)
    PROVE  Heirs(d, f)
  BY DEF Heirs

\* A repair finds its asset's refresh state at rest, and starts a generation.
LEMMA RouteOK ==
    ASSUME NEW d, TablesOK(d), NEW x \in Assets, RepairsOf(d, x) # {}, d.gen[x].req < MaxGen,
           RoomForJob(d), NEW e, e = route_confirmed_expiry(d, x)
    PROVE  Apart(e, x) /\ SlotOK(e, x) /\ Grows(d, e)
<1> DEFINE g == d.gen[x].req + 1
           c == [d.gen[x] EXCEPT !.req = g]
           d0 == [d EXCEPT !.gen[x].req = g]
           d2 == ServeGeneration(d0, x, g)
           m == mark_exhausted_refresh_entries(d2, x, g)
<1>1. d \in RefreshTables /\ CountersOK(d, x) /\ SlotOK(d, x) /\ RepairOK(d, x) /\ Others(d, x)
  BY DEF TablesOK, AssetOK, Others
<1>2. /\ d.gen[x] \in Counters /\ d.gen[x].req \in 0 .. MaxGen /\ d.gen[x].served \in 0 .. MaxGen
      /\ d.gen[x].comp \in 0 .. MaxGen /\ MaxGen \in Nat
  BY <1>1, GenTypes, RefreshConstants
<1>3. /\ d.gen[x].chain = 0 /\ d.gen[x].req = d.gen[x].comp /\ d.gen[x].served = d.gen[x].comp
      /\ Idle(d, x) /\ ~(d.gen[x].served > d.gen[x].comp) /\ ~(d.gen[x].req > d.gen[x].comp)
  BY <1>1, <1>2 DEF RepairOK, SlotOK, CountersOK
<1>4. e = d2 \/ e = SelectAndAdmit(m, x, g, TRUE)
  BY <1>3 DEF route_confirmed_expiry
<1>5. \A h \in 1 .. MaxGen : EntriesIn(d, x, h, Live) = {}
  BY <1>1, <1>2, <1>3, NoneLive
<1>6. g \in 1 .. MaxGen /\ d.gen[x].served < g
  BY <1>2, <1>3
<1>7. c \in Counters /\ c.req = g /\ c.served = d.gen[x].served /\ c.comp = d.gen[x].comp /\ c.chain = 0
  BY <1>2, <1>3, <1>6 DEF Counters
<1>8. d0 = WithGen(d, x, c)
  BY DEF WithGen
<1> HIDE DEF g, c, d0
<1>9. /\ d0 \in RefreshTables /\ Frame(d, d0) /\ d0.jobs = d.jobs /\ d0.ent = d.ent
      /\ d0.gen[x] = c /\ \A y \in Assets \ {x} : d0.gen[y] = d.gen[y]
  BY <1>1, <1>7, <1>8, WithGenTables
<1>10. Others(d0, x)
  BY <1>1, <1>9, OthersKept
<1>11. Idle(d0, x) /\ \A h \in 1 .. MaxGen : EntriesIn(d0, x, h, Live) = {}
  BY <1>3, <1>5, <1>9, SameJobs DEF Idle, EntriesIn
<1>12. d0.gen[x].chain = 0 /\ d0.gen[x].comp <= d0.gen[x].served /\ d0.gen[x].served < g /\ g <= d0.gen[x].req
  BY <1>2, <1>3, <1>6, <1>7, <1>9
<1>13. /\ Apart(d2, x) /\ Idle(d2, x) /\ d2.jobs = d0.jobs
       /\ d2.gen[x].chain = 0 /\ d2.gen[x].served = g
  BY <1>6, <1>10, <1>11, <1>12, ServeOK
<1> HIDE DEF d2
<1>14. d2 \in RefreshTables /\ CountersOK(d2, x) /\ d2.jobs = d.jobs
  BY <1>9, <1>13 DEF Apart, Others
<1>15. CASE e = d2
  BY <1>13, <1>14, <1>15 DEF SlotOK, Grows
<1>16. CASE e = SelectAndAdmit(m, x, g, TRUE)
  <2>1. Settles(d2, m)
    BY <1>6, <1>14, MarkExhaustedSettles
  <2> HIDE DEF m
  <2>2. Progress(d2, m, x) /\ Idle(m, x) /\ m.gen[x].chain = 0
    BY <1>13, <2>1, SettledProgress
  <2>3. m.gen[x].served = d2.gen[x].served
    BY <1>14, <2>1, SettlesCounters
  <2>4. m.jobs = d.jobs /\ Apart(m, x)
    BY <1>14, <2>1, <2>2 DEF Settles, Progress
  <2>5. RoomForJob(m)
    BY <2>4, SameJobs DEF RoomForJob
  <2>6. Progress(m, e, x)
    BY <1>6, <1>13, <1>16, <2>2, <2>3, <2>4, <2>5, SelectAndAdmitOK
  <2> QED
    BY <2>4, <2>6, SameJobs DEF Progress, Grows
<1> QED
  BY <1>4, <1>15, <1>16

\* The refund keeps the tables in order.
Refunded(d, j, x, refund) ==
    [d EXCEPT !.rep[x] = refund, !.jobs[j] = [@ EXCEPT !.refunded = TRUE]]

\* A refund touches the circuit and the repair's own row only.
LEMMA RefundOK ==
    ASSUME NEW d, TablesOK(d), NEW j \in Repairs(d), NEW x, x = d.jobs[j].asset, NEW refund \in RepairState,
           NEW e, e = Refunded(d, j, x, refund)
    PROVE  /\ TablesOK(e) /\ Active(e) = Active(d) /\ e.gen = d.gen
           /\ \A i \in Active(d) : e.jobs[i].type = d.jobs[i].type
           /\ e.jobs[j].asset = x /\ \A y : RepairsOf(e, y) = RepairsOf(d, y)
<1> DEFINE row == [d.jobs[j] EXCEPT !.refunded = TRUE]
           r == [d.rep EXCEPT ![x] = refund]
           c == [d.jobs EXCEPT ![j] = row]
<1>1. d \in RefreshTables /\ d.rep \in [Assets -> RepairState] /\ d.jobs \in [JobIds -> JobRows]
  BY DEF TablesOK, RefreshTables
<1>2. j \in Active(d) /\ j \in JobIds /\ d.jobs[j] \in RepairRow
  BY <1>1, RowTypes DEF Active
<1>3. /\ row \in RepairRow /\ row.type = d.jobs[j].type /\ row.asset = x /\ x \in Assets
      /\ row.st = d.jobs[j].st /\ row.att = d.jobs[j].att
  BY <1>2 DEF RepairRow
<1>4. r \in [Assets -> RepairState]
  BY <1>1, <1>3
<1>5. c \in [JobIds -> JobRows]
  BY <1>1, <1>2, <1>3 DEF JobRows
<1>6. e = [d EXCEPT !.rep = r, !.jobs = c]
  BY <1>1 DEF Refunded
<1> HIDE DEF r, row
<1>7. /\ e \in RefreshTables /\ e.jobs = c /\ e.gen = d.gen /\ e.ent = d.ent /\ e.art = d.art
      /\ e.listed = d.listed /\ e.rec = d.rec /\ e.link = d.link
  BY <1>1, <1>4, <1>5, <1>6 DEF RefreshTables
<1>8. RowSet(d, e, j, row)
  BY <1>7 DEF RowSet
<1>9. KeepsTask(d.jobs[j], row)
  BY <1>2, <1>3 DEF KeepsTask
<1>10. Charged(row)
  BY <1>2, <1>3 DEF TablesOK, JobsOK, ChargesOK, Charged
<1> HIDE DEF c
<1>11. /\ TablesOK(e) /\ Active(e) = Active(d) /\ e.jobs[j] = row
       /\ \A i \in Active(d) : e.jobs[i].type = d.jobs[i].type
       /\ \A y : RepairsOf(e, y) = RepairsOf(d, y)
  BY <1>2, <1>7, <1>8, <1>9, <1>10, TouchedOK
<1> QED
  BY <1>3, <1>7, <1>11

\* A repair whose source expired hands over to a generation: the repair job ends in the
\* transaction that starts the chain, so the bound on active jobs needs no look.
LEMMA ConfirmedExpiryOK ==
    ASSUME NEW d, TablesOK(d), NEW j \in Repairs(d), d.gen[d.jobs[j].asset].req < MaxGen,
           RoomForJob(d), NEW e, e = finish_confirmed_expiry(d, j)
    PROVE  TablesOK(e) /\ Heirs(d, e) /\ Cardinality(Active(e)) <= Cardinality(Active(d))
<1> DEFINE x == d.jobs[j].asset
           refund == [att |-> IF d.rep[x].att > 0 THEN d.rep[x].att - 1 ELSE 0,
                      cool |-> TRUE, exh |-> FALSE]
           d1 == IF x \in d.rec /\ ~d.jobs[j].refunded
                 THEN [d EXCEPT !.rep[x] = refund, !.jobs[j] = [@ EXCEPT !.refunded = TRUE]]
                 ELSE d
           f == route_confirmed_expiry(d1, x)
<1>1. d \in RefreshTables /\ j \in Active(d) /\ d.jobs[j] \in RepairRow /\ x \in Assets
  <2>1. d \in RefreshTables
    BY DEF TablesOK
  <2>2. j \in Active(d) /\ d.jobs[j] \in RepairRow
    BY <2>1, RowTypes
  <2> QED
    BY <2>1, <2>2 DEF RepairRow
<1>2. refund \in RepairState
  <2>1. d.rep[x] \in RepairState
    BY <1>1 DEF RefreshTables
  <2>2. d.rep[x].att \in 0 .. RepairMaxAttempts /\ RepairMaxAttempts \in Nat
    BY <2>1, RefreshConstants DEF RepairState
  <2>3. (IF d.rep[x].att > 0 THEN d.rep[x].att - 1 ELSE 0) \in 0 .. RepairMaxAttempts
    BY <2>2
  <2> QED
    BY <2>3 DEF RepairState
<1>3. e = RemoveJob(f, j)
  BY DEF finish_confirmed_expiry
<1>4. /\ TablesOK(d1) /\ Active(d1) = Active(d) /\ d1.gen = d.gen
      /\ \A i \in Active(d) : d1.jobs[i].type = d.jobs[i].type
      /\ d1.jobs[j].asset = x /\ \A y : RepairsOf(d1, y) = RepairsOf(d, y)
  <2>1. CASE d1 = d
    BY <2>1
  <2>2. CASE d1 = [d EXCEPT !.rep[x] = refund, !.jobs[j] = [@ EXCEPT !.refunded = TRUE]]
    <3>1. d1 = Refunded(d, j, x, refund)
      BY <2>2 DEF Refunded
    <3> HIDE DEF d1, refund
    <3> QED
      BY <1>2, <3>1, RefundOK
  <2> QED
    BY <2>1, <2>2
<1> HIDE DEF d1
<1>5. RepairsOf(d1, x) # {}
  <2>1. j \in RepairsOf(d, x)
    BY DEF RepairsOf
  <2> QED
    BY <1>4, <2>1
<1>6. RoomForJob(d1)
  BY <1>4 DEF RoomForJob
<1>7. Apart(f, x) /\ SlotOK(f, x) /\ Grows(d1, f)
  BY <1>1, <1>4, <1>5, <1>6, RouteOK
<1> HIDE DEF f
<1>8. d1 \in RefreshTables /\ f \in RefreshTables
  BY <1>4, <1>7 DEF TablesOK, Apart, Others
<1>9. /\ Active(d1) \subseteq Active(f) /\ \A i \in Active(d1) : f.jobs[i] = d1.jobs[i]
      /\ Cardinality(Active(f)) <= Cardinality(Active(d1)) + 1
      /\ Cardinality(Active(d1)) \in Nat /\ Cardinality(Active(f)) \in Nat
  BY <1>7, <1>8, GrowsRows
<1>10. j \in Repairs(f) /\ f.jobs[j].asset = x /\ j \in Active(f)
  <2>1. j \in Active(f) /\ f.jobs[j] = d1.jobs[j] /\ d1.jobs[j].type = "repair"
    BY <1>1, <1>4, <1>9 DEF Repairs
  <2> QED
    BY <1>4, <2>1 DEF Repairs
<1>11. TablesOK(e)
  BY <1>1, <1>3, <1>7, <1>10, RemoveRepairOK
<1>12. OneLess(f, e, j) /\ Cardinality(Active(e)) = Cardinality(Active(f)) - 1
  BY <1>3, <1>8, <1>10, RemovedRows
<1>13. Heirs(d1, f)
  BY <1>7, <1>8, GrowsHeirs
<1>14. Heirs(d, d1) /\ Heirs(f, e)
  BY <1>4, <1>12 DEF Heirs, OneLess
<1>15. Heirs(d, e)
  BY <1>13, <1>14, HeirsTrans
<1> QED
  BY <1>4, <1>9, <1>11, <1>12, <1>15


-----------------------------------------------------------------------------
(* Folds over finite sets. *)

\* Induction over the subsets of a finite set, for a fold that takes pick[s]
\* out of s.
LEMMA FoldedIn ==
    ASSUME NEW S, IsFiniteSet(S), NEW V, NEW f, NEW pick,
           \A s \in SUBSET S : s # {} => pick[s] \in s,
           f[{}] \in V,
           \A s \in SUBSET S : s # {} /\ f[s \ {pick[s]}] \in V => f[s] \in V
    PROVE  \A s \in SUBSET S : f[s] \in V
<1> DEFINE T == {s \in SUBSET S : f[s] \notin V}
<1>1. SUFFICES ASSUME T # {} PROVE FALSE
  OBVIOUS
<1>2. PICK s \in T : \A u \in T : ~(u \subseteq s /\ u # s)
  <2>1. T \subseteq SUBSET S
    OBVIOUS
  <2> HIDE DEF T
  <2> QED
    BY <1>1, <2>1, SmallestSubset
<1>3. s # {} /\ s \in SUBSET S
  BY <1>2
<1>4. s \ {pick[s]} \in SUBSET S /\ s \ {pick[s]} \subseteq s /\ s \ {pick[s]} # s
  BY <1>3
<1>5. s \ {pick[s]} \notin T
  BY <1>2, <1>4
<1>6. f[s \ {pick[s]}] \in V
  BY <1>4, <1>5
<1> QED
  BY <1>2, <1>3, <1>6

\* f folds the sets of D, starting from base and taking pick[s] out of s.
FoldsTo(f, D, V, base, pick, step) ==
    /\ f \in [D -> V]
    /\ \A s \in D : /\ s # {} => s \ {pick[s]} \in D
                    /\ f[s] = IF s = {} THEN base ELSE step[pick[s]][f[s \ {pick[s]}]]

\* The recursive function that folds the subsets of a finite set exists.
LEMMA FoldExists ==
    ASSUME NEW S, IsFiniteSet(S), NEW V, NEW base \in V, NEW pick,
           \A s \in SUBSET S : s # {} => pick[s] \in s,
           NEW step \in [S -> [V -> V]]
    PROVE  \E f : FoldsTo(f, SUBSET S, V, base, pick, step)
<1> DEFINE Rest(s) == s \ {pick[s]}
           M == {E \in SUBSET (SUBSET S) : \E D, f :
                    /\ FoldsTo(f, D, V, base, pick, step)
                    /\ \A s : s \in D <=> s \in SUBSET S /\ s \notin E}
<1>1. IsFiniteSet(SUBSET S)
  BY FS_SUBSET
<1>2. SUBSET S \in M
  <2>1. FoldsTo([s \in {} |-> base], {}, V, base, pick, step)
    BY DEF FoldsTo
  <2>2. \A s : s \in {} <=> s \in SUBSET S /\ s \notin SUBSET S
    OBVIOUS
  <2> QED
    BY <2>1, <2>2
<1>3. PICK E \in M : \A F \in M : ~(F \subseteq E /\ F # E)
  <2>1. M \subseteq SUBSET (SUBSET S) /\ M # {}
    BY <1>2
  <2> HIDE DEF M
  <2> QED
    BY <1>1, <2>1, SmallestSubset
<1>4. PICK D, f : /\ FoldsTo(f, D, V, base, pick, step)
                  /\ \A s : s \in D <=> s \in SUBSET S /\ s \notin E
  BY <1>3
<1>5. CASE E = {}
  <2>1. D = SUBSET S
    BY <1>4, <1>5
  <2>2. /\ f \in [D -> V]
        /\ \A s \in D : f[s] = IF s = {} THEN base ELSE step[pick[s]][f[s \ {pick[s]}]]
    BY <1>4 DEF FoldsTo
  <2>3. \A s \in SUBSET S : s # {} => s \ {pick[s]} \in SUBSET S
    OBVIOUS
  <2>4. FoldsTo(f, SUBSET S, V, base, pick, step)
    BY <2>1, <2>2, <2>3 DEF FoldsTo
  <2> QED
    BY <2>4
<1>6. CASE E # {}
  <2>1. E \subseteq SUBSET S
    BY <1>3
  <2>2. PICK s \in E : \A u \in E : ~(u \subseteq s /\ u # s)
    BY <1>6, <2>1, SmallestSubset
  <2> DEFINE v == IF s = {} THEN base ELSE step[pick[s]][f[Rest(s)]]
             g == [u \in D \cup {s} |-> IF u = s THEN v ELSE f[u]]
  <2>4. s \in SUBSET S /\ s \notin D
    BY <1>4, <2>1, <2>2
  <2>5. s # {} => Rest(s) \in D /\ pick[s] \in S
    <3>1. ASSUME s # {} PROVE Rest(s) \in SUBSET S /\ Rest(s) \subseteq s /\ Rest(s) # s /\ pick[s] \in S
      BY <3>1, <2>4
    <3> QED
      BY <3>1, <2>2, <1>4
  <2>6. v \in V
    <3>1. CASE s = {}
      BY <3>1
    <3>2. CASE s # {}
      <4>1. f[Rest(s)] \in V
        BY <1>4, <2>5, <3>2 DEF FoldsTo
      <4>2. step[pick[s]] \in [V -> V]
        BY <2>5, <3>2
      <4>3. step[pick[s]][f[Rest(s)]] \in V
        BY <4>1, <4>2
      <4> QED
        BY <4>3, <3>2
    <3> QED
      BY <3>1, <3>2
  <2> HIDE DEF v
  <2>7. g \in [D \cup {s} -> V]
    BY <1>4, <2>6 DEF FoldsTo
  <2>8. ASSUME NEW u \in D \cup {s}
        PROVE  /\ u # {} => Rest(u) \in D \cup {s}
               /\ g[u] = IF u = {} THEN base ELSE step[pick[u]][g[Rest(u)]]
    <3>1. CASE u = s
      <4>1. g[u] = v
        BY <3>1
      <4>2. u # {} => Rest(u) \in D /\ g[Rest(u)] = f[Rest(u)]
        BY <3>1, <2>5, <2>4
      <4> QED
        BY <3>1, <4>1, <4>2 DEF v
    <3>2. CASE u # s
      <4>1. u \in D
        BY <3>2
      <4>2. /\ u # {} => Rest(u) \in D
            /\ f[u] = IF u = {} THEN base ELSE step[pick[u]][f[Rest(u)]]
        BY <4>1, <1>4 DEF FoldsTo
      <4>3. g[u] = f[u]
        BY <3>2
      <4>4. u # {} => g[Rest(u)] = f[Rest(u)]
        BY <4>2, <2>4
      <4> QED
        BY <4>2, <4>3, <4>4
    <3> QED
      BY <3>1, <3>2
  <2> HIDE DEF g
  <2>9. FoldsTo(g, D \cup {s}, V, base, pick, step)
    BY <2>7, <2>8 DEF FoldsTo
  <2>10. \A u : u \in D \cup {s} <=> u \in SUBSET S /\ u \notin E \ {s}
    BY <1>4, <2>4, <2>1
  <2>11. E \ {s} \in M
    <3>1. E \ {s} \in SUBSET (SUBSET S)
      BY <2>1
    <3> QED
      BY <2>9, <2>10, <3>1
  <2>12. E \ {s} \subseteq E /\ E \ {s} # E
    BY <2>2
  <2> QED
    BY <1>3, <2>11, <2>12
<1> QED
  BY <1>5, <1>6

-----------------------------------------------------------------------------
(* Entries of an article that will not be refreshed again. *)

\* The entries of generation p[2] of p[1] that wait for article a, and the step
\* of the reconciliation that is done with them.
Hit(d, a, p) == {o \in EntriesIn(d, p[1], p[2], Pending) : d.ent[p[1]][p[2]][o].art = a}

\* The reconciliation's step for generation p[2] of p[1].
Retire(d, a, p, e) ==
    complete_refresh_generation_if_terminal(
        MarkEntries(e, p[1], p[2], Hit(d, a, p), "done"), p[1], p[2])

\* The reconciliation's step settles.
LEMMA RetireSettles ==
    ASSUME NEW d \in RefreshTables, \A x \in Assets : CountersOK(d, x), NEW a,
           NEW p \in Assets \X (1 .. MaxGen), Hit(d, a, p) # {}, NEW e, Settles(d, e)
    PROVE  Settles(d, Retire(d, a, p, e))
<1> DEFINE x == p[1]
           g == p[2]
           S == Hit(d, a, p)
           f == MarkEntries(e, x, g, S, "done")
<1>1. x \in Assets /\ g \in 1 .. MaxGen /\ e \in RefreshTables /\ "done" \in States
  BY DEF Settles, States
<1>2. S \subseteq EntriesIn(d, x, g, Pending) /\ S # {}
  BY DEF Hit
<1> HIDE DEF x, g, S
<1>3. g = d.gen[x].served
  <2>1. EntriesIn(d, x, g, Live) # {}
    BY <1>2 DEF EntriesIn, Live
  <2> QED
    BY <1>1, <2>1 DEF CountersOK
<1>4. /\ f \in RefreshTables /\ Frame(e, f)
      /\ f.lin = e.lin /\ f.jobs = e.jobs /\ f.gen = e.gen
      /\ f.ent[x][g] = Marked(e.ent[x][g], S, "done")
      /\ \A y \in Assets, h \in 1 .. MaxGen : y # x \/ h # g => f.ent[y][h] = e.ent[y][h]
  BY <1>1, MarkTables
<1> HIDE DEF f
<1>5. Retired(e.ent[x][g], f.ent[x][g])
  <2> DEFINE s == d.ent[x][g]
             t == e.ent[x][g]
  <2>1. Retired(s, t)
    BY <1>1 DEF Settles
  <2>2. /\ \A o \in DOMAIN s : s[o] \in Entry
        /\ t \in Snapshots /\ \A o \in DOMAIN t : t[o] \in Entry
    BY <1>1, EntryTypes
  <2>3. \A o \in S : o \in DOMAIN s /\ s[o].st \in Pending
    BY <1>2 DEF EntriesIn
  <2> HIDE DEF s, t
  <2>4. \A o \in S : o \in DOMAIN t /\ (t[o].st \in Pending \/ t[o].st = "done")
    BY <2>1, <2>2, <2>3 DEF Retired, Entry
  <2>5. \A o \in DOMAIN t : t[o].st = "done" => [t[o] EXCEPT !.st = "done"] = t[o]
    BY <2>2 DEF Entry
  <2>6. Retired(t, Marked(t, S, "done"))
    BY <2>4, <2>5 DEF Retired, Marked
  <2> QED
    BY <1>4, <2>6 DEF t
<1>6. \A y \in Assets, h \in 1 .. MaxGen : Retired(e.ent[y][h], f.ent[y][h])
  BY <1>4, <1>5 DEF Retired
<1>7. Settles(e, f)
  BY <1>4, <1>6 DEF Settles
<1>8. Settles(d, f)
  BY <1>7, SettlesTrans
<1>9. CountersOK(f, x) /\ f.gen[x].served = d.gen[x].served
  BY <1>1, <1>8, SettlesCounters
<1>10. g \in 0 .. MaxGen
  BY <1>1
<1>11. Settles(f, complete_refresh_generation_if_terminal(f, x, g))
  BY <1>1, <1>3, <1>4, <1>9, <1>10, CompleteSettles
<1>12. Settles(d, complete_refresh_generation_if_terminal(f, x, g))
  BY <1>8, <1>11, SettlesTrans
<1> QED
  BY <1>12 DEF Retire, f, x, g, S

\* The reconciliation, a fold over the generations that wait for the article, settles.
LEMMA ReconcileSettles ==
    ASSUME NEW d \in RefreshTables, \A x \in Assets : CountersOK(d, x), NEW a
    PROVE  Settles(d, reconcile_article_refresh_entries(d, a))
<1> DEFINE h == {p \in Assets \X (1 .. MaxGen) : Hit(d, a, p) # {}}
           V == {e \in RefreshTables : Settles(d, e)}
           pick == [s \in SUBSET h |-> CHOOSE p \in s : TRUE]
           step == [p \in h |-> [e \in V |-> Retire(d, a, p, e)]]
           Eq(f) == f = [s \in SUBSET h |-> IF s = {} THEN d
                            ELSE Retire(d, a, CHOOSE p \in s : TRUE, f[s \ {CHOOSE p \in s : TRUE}])]
           F == CHOOSE f : Eq(f)
<1>1. IsFiniteSet(h)
  <2>1. IsFiniteSet(Assets) /\ IsFiniteSet(1 .. MaxGen)
    BY RefreshConstants, FS_Interval
  <2>2. IsFiniteSet(Assets \X (1 .. MaxGen))
    BY <2>1, FS_Product
  <2>3. h \in SUBSET (Assets \X (1 .. MaxGen))
    OBVIOUS
  <2> QED
    BY <2>2, <2>3, FS_Subset
<1>2. d \in V
  BY SettlesSelf
<1>3. ASSUME NEW p \in h, NEW e \in V PROVE Retire(d, a, p, e) \in V
  <2>1. Settles(d, Retire(d, a, p, e))
    BY <1>3, RetireSettles
  <2> QED
    BY <2>1 DEF Settles
<1>4. reconcile_article_refresh_entries(d, a) = F[h]
  BY Zenon DEF reconcile_article_refresh_entries, Hit, Retire, FoldSet, MapThenFoldSet
<1> HIDE DEF h, V
<1>5. \A s \in SUBSET h : s # {} => pick[s] \in s
  OBVIOUS
<1>6. step \in [h -> [V -> V]]
  BY <1>3
<1>7. PICK f : FoldsTo(f, SUBSET h, V, d, pick, step)
  <2> HIDE DEF pick, step
  <2> QED
    BY <1>1, <1>2, <1>5, <1>6, FoldExists
<1>8. ASSUME NEW s \in SUBSET h, s # {}
      PROVE  step[pick[s]][f[s \ {pick[s]}]]
               = Retire(d, a, CHOOSE p \in s : TRUE, f[s \ {CHOOSE p \in s : TRUE}])
  <2>1. pick[s] = CHOOSE p \in s : TRUE
    OBVIOUS
  <2>2. f[s \ {pick[s]}] \in V /\ pick[s] \in h
    BY <1>5, <1>7, <1>8 DEF FoldsTo
  <2> HIDE DEF pick
  <2> QED
    BY <2>1, <2>2
<1>9. Eq(f)
  <2> DEFINE rhs(s) == IF s = {} THEN d
                       ELSE Retire(d, a, CHOOSE p \in s : TRUE, f[s \ {CHOOSE p \in s : TRUE}])
  <2>1. f \in [SUBSET h -> V]
    BY <1>7 DEF FoldsTo
  <2>2. ASSUME NEW s \in SUBSET h PROVE f[s] = rhs(s)
    <3>1. f[s] = IF s = {} THEN d ELSE step[pick[s]][f[s \ {pick[s]}]]
      <4> HIDE DEF pick, step
      <4> QED
        BY <1>7 DEF FoldsTo
    <3> HIDE DEF pick, step
    <3> QED
      BY <3>1, <1>8
  <2> HIDE DEF rhs
  <2>3. f = [s \in SUBSET h |-> rhs(s)]
    BY <2>1, <2>2
  <2> QED
    BY <2>3 DEF rhs
<1>10. Eq(F)
  BY <1>9, Zenon
<1> HIDE DEF F
<1>11. \A s \in SUBSET h : F[s] \in V
  <2>1. F[{}] \in V
    BY <1>2, <1>10
  <2>2. ASSUME NEW s \in SUBSET h, s # {}, F[s \ {pick[s]}] \in V
        PROVE  F[s] \in V
    <3>1. pick[s] = CHOOSE p \in s : TRUE
      OBVIOUS
    <3>2. F[s] = Retire(d, a, pick[s], F[s \ {pick[s]}])
      BY <1>10, <2>2, <3>1
    <3> HIDE DEF pick
    <3> QED
      BY <1>3, <1>5, <2>2, <3>2
  <2> HIDE DEF pick
  <2> QED
    BY <1>1, <1>5, <2>1, <2>2, FoldedIn
<1> QED
  BY <1>4, <1>11 DEF V


-----------------------------------------------------------------------------
(* A refresh job that ends. *)

\* d with another lineage for article a.
WithLin(d, a, l) == [d EXCEPT !.lin = [d.lin EXCEPT ![a] = l]]

\* Only the lineage differs.
LEMMA WithLinTables ==
    ASSUME NEW d \in RefreshTables, NEW a, NEW l, a \in ArticleIds => l \in LineageState,
           NEW e, e = WithLin(d, a, l)
    PROVE  /\ e \in RefreshTables /\ Frame(d, e) /\ e.gen = d.gen /\ e.ent = d.ent /\ e.jobs = d.jobs
           /\ TablesOK(d) => TablesOK(e)
           /\ \A x \in Assets : /\ Apart(d, x) => Apart(e, x)
                                /\ \A j \in JobIds : WorkedBy(d, x, j) => WorkedBy(e, x, j)
<1> DEFINE f == [d.lin EXCEPT ![a] = l]
<1>1. f \in [ArticleIds -> LineageState]
  BY DEF RefreshTables
<1>2. e = [d EXCEPT !.lin = f]
  BY DEF WithLin
<1> HIDE DEF f
<1>3. /\ e \in RefreshTables /\ Frame(d, e) /\ e.gen = d.gen /\ e.ent = d.ent /\ e.jobs = d.jobs
  BY <1>1, <1>2 DEF RefreshTables, Frame
<1>4. /\ JobsOK(d) => JobsOK(e)
      /\ \A y : RepairsOf(e, y) = RepairsOf(d, y) /\ Carriers(e, y) = Carriers(d, y)
  BY <1>3, SameJobs
<1>5. LinksOK(d) => LinksOK(e)
  BY <1>3 DEF Frame, LinksOK
<1>6. ASSUME NEW y \in Assets
      PROVE  (CountersOK(d, y) => CountersOK(e, y)) /\ (AssetOK(d, y) => AssetOK(e, y))
  <2>1. \A j \in Carriers(d, y) : SameTask(d, e, j)
    BY <1>3 DEF SameTask
  <2>2. e.gen[y] = d.gen[y] /\ \A h \in 1 .. MaxGen : e.ent[y][h] = d.ent[y][h]
    BY <1>3
  <2> QED
    BY <1>4, <2>1, <2>2, AssetKept DEF AssetOK
<1>7. ASSUME NEW y \in Assets, NEW j \in JobIds, WorkedBy(d, y, j) PROVE WorkedBy(e, y, j)
  BY Zenon, <1>3, <1>4, <1>7 DEF WorkedBy, begin_article_refresh, read_refresh_target, EntriesIn
<1> QED
  BY <1>3, <1>4, <1>5, <1>6, <1>7 DEF TablesOK, Apart, Others

\* e is d after the job j that works on x let go of its entry.
Released(d, e, x, j) ==
    /\ Apart(e, x) /\ Carriers(e, x) = {j} /\ e.jobs = d.jobs /\ Frame(d, e)
    /\ \A g \in 1 .. MaxGen : EntriesIn(e, x, g, {"in_flight"}) = {}
    /\ e.gen[x].req = d.gen[x].req /\ e.gen[x].served = d.gen[x].served
    /\ e.gen[x].chain = d.gen[x].chain

\* What is settled afterwards leaves the entry released ...
LEMMA ReleasedSettles ==
    ASSUME NEW d, NEW e, NEW x \in Assets, NEW j, Released(d, e, x, j), NEW f, Settles(e, f)
    PROVE  Released(d, f, x, j)
<1>1. e \in RefreshTables /\ CountersOK(e, x) /\ Apart(e, x) /\ f \in RefreshTables
  BY DEF Released, Apart, Others, Settles
<1>2. Apart(f, x)
  BY <1>1, SettlesTables
<1>3. f.jobs = e.jobs /\ Frame(e, f) /\ \A g \in 1 .. MaxGen : Retired(e.ent[x][g], f.ent[x][g])
  BY DEF Settles
<1>4. Carriers(f, x) = {j} /\ f.jobs = d.jobs /\ Frame(d, f)
  BY <1>3, SameJobs, FrameTrans DEF Released
<1>5. \A g \in 1 .. MaxGen : EntriesIn(f, x, g, {"in_flight"}) = {}
  BY <1>1, <1>3, RetiredEntries DEF Released
<1>6. /\ f.gen[x].req = e.gen[x].req /\ f.gen[x].served = e.gen[x].served
      /\ f.gen[x].chain = e.gen[x].chain
  BY <1>1, SettlesCounters
<1> QED
  BY <1>2, <1>4, <1>5, <1>6 DEF Released

\* ... and so does a change of a lineage.
LEMMA ReleasedLin ==
    ASSUME NEW d, NEW e, NEW x \in Assets, NEW j, Released(d, e, x, j),
           NEW a, NEW l, a \in ArticleIds => l \in LineageState, NEW f, f = WithLin(e, a, l)
    PROVE  Released(d, f, x, j)
<1>1. e \in RefreshTables /\ Apart(e, x)
  BY DEF Released, Apart, Others
<1>2. /\ Apart(f, x) /\ Frame(e, f) /\ f.gen = e.gen /\ f.ent = e.ent /\ f.jobs = e.jobs
  BY <1>1, WithLinTables
<1>3. Carriers(f, x) = {j} /\ f.jobs = d.jobs /\ Frame(d, f)
  BY <1>2, SameJobs, FrameTrans DEF Released
<1> QED
  BY <1>2, <1>3 DEF Released, EntriesIn

\* The entry in flight is done or cools down.
LEMMA EntryReleased ==
    ASSUME NEW d, NEW x \in Assets, Apart(d, x), NEW j \in JobIds, WorkedBy(d, x, j),
           NEW st \in {"done", "cooling"},
           NEW e, e = MarkEntries(d, x, d.jobs[j].gen, {d.jobs[j].ord}, st)
    PROVE  Released(d, e, x, j)
<1> DEFINE g == d.jobs[j].gen
           o == d.jobs[j].ord
<1>1. d \in RefreshTables /\ CountersOK(d, x) /\ Others(d, x)
  BY DEF Apart, Others
<1>2. j \in Refreshes(d) /\ d.jobs[j].asset = x /\ Carriers(d, x) = {j}
  BY DEF WorkedBy, Carriers
<1>3. g \in 1 .. MaxGen /\ st \in States
  BY <1>1, <1>2, RowTypes DEF RefreshRow, States, Pending
<1>4. EntriesIn(d, x, g, {"in_flight"}) = {o} /\ g = d.gen[x].served
  BY <1>2 DEF WorkedBy, begin_article_refresh
<1> HIDE DEF g, o
<1>5. e = MarkEntries(d, x, g, {o}, st)
  BY DEF g, o
<1>6. /\ e \in RefreshTables /\ Frame(d, e) /\ e.jobs = d.jobs /\ e.gen = d.gen
      /\ e.ent[x][g] = Marked(d.ent[x][g], {o}, st)
      /\ \A y \in Assets, h \in 1 .. MaxGen : y # x \/ h # g => e.ent[y][h] = d.ent[y][h]
  BY <1>1, <1>3, <1>5, MarkTables
<1>7. Others(e, x)
  <2>1. \A y \in Assets \ {x} : e.gen[y] = d.gen[y]
    BY <1>6
  <2>2. \A y \in Assets \ {x}, h \in 1 .. MaxGen : e.ent[y][h] = d.ent[y][h]
    BY <1>6
  <2> QED
    BY <1>1, <1>6, <2>1, <2>2, OthersKept
<1>8. /\ DOMAIN e.ent[x][g] = DOMAIN d.ent[x][g]
      /\ \A p \in DOMAIN d.ent[x][g] : IF p = o THEN e.ent[x][g][p].st = st ELSE e.ent[x][g][p] = d.ent[x][g][p]
  <2> DEFINE s == d.ent[x][g]
  <2>1. \A p \in DOMAIN s : s[p] \in Entry
    BY <1>1, <1>3, EntryTypes
  <2>2. e.ent[x][g] = Marked(s, {o}, st)
    BY <1>6
  <2> HIDE DEF s
  <2>3. DOMAIN Marked(s, {o}, st) = DOMAIN s
        /\ \A p \in DOMAIN s : IF p = o THEN Marked(s, {o}, st)[p].st = st ELSE Marked(s, {o}, st)[p] = s[p]
    BY <2>1 DEF Marked, Entry
  <2> QED
    BY Zenon, <2>2, <2>3 DEF s
<1>9. EntriesIn(e, x, g, {"in_flight"}) = {}
  <2>1. g # 0 /\ st # "in_flight"
    BY <1>3
  <2> SUFFICES ASSUME NEW p \in EntriesIn(e, x, g, {"in_flight"}) PROVE FALSE
    OBVIOUS
  <2>2. p \in DOMAIN d.ent[x][g] /\ e.ent[x][g][p].st = "in_flight"
    BY Zenon, <1>8, <2>1 DEF EntriesIn
  <2>3. p # o /\ e.ent[x][g][p] = d.ent[x][g][p]
    BY Zenon, <1>8, <2>1, <2>2
  <2>4. p \in EntriesIn(d, x, g, {"in_flight"})
    BY <2>1, <2>2, <2>3 DEF EntriesIn
  <2> QED
    BY <1>4, <2>3, <2>4
<1>10. \A h \in 1 .. MaxGen : h # g => EntriesIn(d, x, h, {"in_flight"}) = {}
  <2>1. \A h \in 1 .. MaxGen : h # g => EntriesIn(d, x, h, Live) = {}
    BY <1>1, <1>4 DEF CountersOK
  <2>2. \A h : EntriesIn(d, x, h, {"in_flight"}) \subseteq EntriesIn(d, x, h, Live)
    BY DEF EntriesIn, Live
  <2> QED
    BY <2>1, <2>2
<1>11. \A h \in 1 .. MaxGen : EntriesIn(e, x, h, {"in_flight"}) = {}
  <2>1. \A h \in 1 .. MaxGen : h # g => EntriesIn(e, x, h, {"in_flight"}) = EntriesIn(d, x, h, {"in_flight"})
    BY Zenon, <1>6 DEF EntriesIn
  <2> QED
    BY <1>9, <1>10, <2>1
<1>12. \A h \in 1 .. MaxGen : EntriesIn(e, x, h, Live) # {} => EntriesIn(d, x, h, Live) # {}
  <2>1. \A h \in 1 .. MaxGen : h # g => EntriesIn(e, x, h, Live) = EntriesIn(d, x, h, Live)
    BY Zenon, <1>6 DEF EntriesIn
  <2>2. o \in EntriesIn(d, x, g, Live)
    BY <1>4 DEF EntriesIn, Live
  <2> QED
    BY <2>1, <2>2
<1>13. CountersOK(e, x)
  BY Zenon, <1>1, <1>6, <1>12 DEF CountersOK
<1>14. Carriers(e, x) = {j}
  BY <1>2, <1>6, SameJobs
<1> QED
  BY <1>6, <1>7, <1>11, <1>13, <1>14 DEF Released, Apart

\* A refresh job has its entry, in the slot of its asset.
LEMMA HasEntry ==
    ASSUME NEW d, TablesOK(d), NEW j \in Refreshes(d)
    PROVE  LET x == d.jobs[j].asset IN
           /\ x \in Assets /\ j \in JobIds /\ d.jobs[j] \in RefreshRow /\ WorkedBy(d, x, j)
           /\ begin_article_refresh(d, j) /\ RepairsOf(d, x) = {} /\ d.gen[x].chain = d.jobs[j].chain
           /\ d.gen[x].served = d.jobs[j].gen /\ Apart(d, x)
<1> DEFINE x == d.jobs[j].asset
<1>1. d \in RefreshTables
  BY DEF TablesOK
<1>2. j \in JobIds /\ d.jobs[j] \in RefreshRow
  BY <1>1, RowTypes DEF Active
<1>3. x \in Assets /\ j \in Carriers(d, x) /\ d.jobs[j].chain # 0
  BY <1>2 DEF RefreshRow, Carriers
<1>4. AssetOK(d, x) /\ Apart(d, x)
  BY <1>3 DEF TablesOK, Apart, Others, AssetOK
<1>5. d.gen[x].chain # 0
  BY <1>3, <1>4 DEF AssetOK, SlotOK, Idle
<1>6. PICK i \in JobIds : WorkedBy(d, x, i)
  BY <1>4, <1>5 DEF AssetOK, SlotOK
<1>7. i = j
  BY <1>3, <1>6 DEF WorkedBy
<1>8. RepairsOf(d, x) = {}
  BY <1>4, <1>5 DEF AssetOK, RepairOK
<1>9. begin_article_refresh(d, j)
  BY <1>6, <1>7 DEF WorkedBy
<1>10. d.gen[x].chain = d.jobs[j].chain /\ d.gen[x].served = d.jobs[j].gen
  BY <1>9 DEF begin_article_refresh, read_refresh_target
<1> QED
  BY <1>2, <1>3, <1>4, <1>6, <1>7, <1>8, <1>9, <1>10


\* What the outcome of a refresh does to its entry and its article.
LEMMA OutcomeReleased ==
    ASSUME NEW d, TablesOK(d), NEW j \in Refreshes(d), NEW x, x = d.jobs[j].asset, NEW outcome,
           NEW e, e = ApplyRefreshOutcome(d, d.jobs[j], outcome)
    PROVE  Released(d, e, x, j)
<1> DEFINE t == d.jobs[j]
           a == t.art
           f == set_refresh_entry_done(d, t)
           closed == reconcile_article_refresh_entries(f, a)
           l0 == [d.lin[a] EXCEPT !.cool = TRUE, !.exh = FALSE]
           l1 == [closed.lin[a] EXCEPT !.cool = TRUE, !.exh = TRUE]
           d0 == [d EXCEPT !.lin[a] = [@ EXCEPT !.cool = TRUE, !.exh = FALSE]]
<1>1. x \in Assets /\ j \in JobIds /\ t \in RefreshRow /\ WorkedBy(d, x, j) /\ Apart(d, x)
  BY HasEntry
<1>2. a \in ArticleIds /\ d \in RefreshTables
  BY <1>1 DEF RefreshRow, TablesOK
<1>3. \/ e = [closed EXCEPT !.lin[a] = Fresh]
      \/ e = [closed EXCEPT !.lin[a] = [@ EXCEPT !.cool = TRUE, !.exh = TRUE]]
      \/ e = MarkEntries(d0, x, t.gen, {t.ord}, "cooling")
      \/ e = closed
      \/ e = f
  BY Zenon DEF ApplyRefreshOutcome
<1>4. Released(d, f, x, j)
  BY <1>1, EntryReleased DEF set_refresh_entry_done
<1> HIDE DEF f
<1>5. f \in RefreshTables /\ \A y \in Assets : CountersOK(f, y)
  BY <1>4 DEF Released, Apart, Others, AssetOK
<1>6. Settles(f, closed)
  BY <1>5, ReconcileSettles
<1> HIDE DEF closed
<1>7. Released(d, closed, x, j)
  BY <1>1, <1>4, <1>6, ReleasedSettles
<1>8. closed \in RefreshTables
  BY <1>6 DEF Settles
<1>9. d.lin[a] \in LineageState /\ closed.lin[a] \in LineageState
  BY <1>2, <1>8 DEF RefreshTables
<1>10. Fresh \in LineageState /\ l0 \in LineageState /\ l1 \in LineageState
  <2>1. 0 \in 0 .. RefreshMaxAttempts
    BY RefreshConstants
  <2>2. Fresh \in LineageState
    BY <2>1 DEF LineageState, Fresh
  <2>3. l0 \in LineageState
    BY <1>9 DEF LineageState
  <2>4. l1 \in LineageState
    BY <1>9 DEF LineageState
  <2> QED
    BY <2>2, <2>3, <2>4
<1>11. CASE e = [closed EXCEPT !.lin[a] = Fresh]
  <2>1. e = WithLin(closed, a, Fresh)
    BY <1>11 DEF WithLin
  <2> QED
    BY <1>1, <1>7, <1>10, <2>1, ReleasedLin
<1>12. CASE e = [closed EXCEPT !.lin[a] = [@ EXCEPT !.cool = TRUE, !.exh = TRUE]]
  <2>1. e = WithLin(closed, a, l1)
    BY <1>12 DEF WithLin
  <2> HIDE DEF l1
  <2> QED
    BY <1>1, <1>7, <1>10, <2>1, ReleasedLin
<1>13. CASE e = MarkEntries(d0, x, t.gen, {t.ord}, "cooling")
  <2>1. d0 = WithLin(d, a, l0)
    BY DEF WithLin
  <2> HIDE DEF d0, l0
  <2>2. /\ Apart(d0, x) /\ WorkedBy(d0, x, j) /\ d0.jobs = d.jobs /\ d0.gen = d.gen /\ Frame(d, d0)
    BY <1>1, <1>2, <1>10, <2>1, WithLinTables
  <2>3. e = MarkEntries(d0, x, d0.jobs[j].gen, {d0.jobs[j].ord}, "cooling")
    BY <1>13, <2>2
  <2>4. Released(d0, e, x, j)
    BY <1>1, <2>2, <2>3, EntryReleased
  <2>5. Frame(d, e)
    BY <2>2, <2>4, FrameTrans DEF Released
  <2> QED
    BY <2>2, <2>4, <2>5 DEF Released
<1> QED
  BY <1>3, <1>4, <1>7, <1>11, <1>12, <1>13

\* The chain goes on with another entry, or its slot is free.
LEMMA ContinueOK ==
    ASSUME NEW d, NEW x \in Assets, Apart(d, x), Idle(d, x), RoomForJob(d),
           NEW t \in RefreshRow, t.asset = x, d.gen[x].chain = t.chain,
           NEW g, g = t.gen, d.gen[x].served = g,
           NEW e, e = continue_refresh_chain(d, t)
    PROVE  /\ Progress(d, e, x) /\ e.gen[x].served = g
           /\ e.jobs = d.jobs => Idle(e, x) /\ e.gen[x].chain = 0
<1> DEFINE m == mark_exhausted_refresh_entries(d, x, g)
           sel == select_refresh_entry(m, x, g, t.ord)
           f == sel.db
           c == [f.gen[x] EXCEPT !.chain = 0]
<1>1. g \in 1 .. MaxGen /\ t.ord \in Nat /\ t.chain \in Nat \ {0}
  BY DEF RefreshRow
<1>2. d \in RefreshTables /\ CountersOK(d, x)
  BY DEF Apart, Others
<1>3. \/ sel.ord # 0 /\ e = admit_refresh_entry(f, x, g, t.chain, sel.ord, FALSE)
      \/ sel.ord = 0 /\ f.gen[x].chain = t.chain /\ e = [f EXCEPT !.gen[x].chain = 0]
      \/ sel.ord = 0 /\ f.gen[x].chain # t.chain /\ e = f
  BY Zenon DEF continue_refresh_chain
<1>4. Settles(d, m)
  BY <1>1, <1>2, MarkExhaustedSettles
<1> HIDE DEF m
<1>5. m \in RefreshTables /\ sel = select_refresh_entry(m, x, g, t.ord)
  BY <1>4 DEF Settles
<1> HIDE DEF sel
<1>6. /\ Settles(m, f)
      /\ sel.ord # 0 =>
            /\ sel.ord \in EntriesIn(f, x, g, Pending)
            /\ ~Spent(f.lin[f.ent[x][g][sel.ord].art])
            /\ RefreshesOf(f, f.ent[x][g][sel.ord].art) = {}
  BY Zenon, <1>1, <1>5, SelectSettles
<1> HIDE DEF f
<1>7. Settles(d, f)
  BY <1>2, <1>4, <1>6, SettlesTrans
<1>8. /\ CountersOK(f, x) /\ f.gen[x].served = d.gen[x].served /\ f.gen[x].chain = d.gen[x].chain
  BY <1>2, <1>7, SettlesCounters
<1>9. f \in RefreshTables /\ f.jobs = d.jobs /\ Frame(d, f)
  BY <1>7 DEF Settles
<1>10. Apart(f, x) /\ Idle(f, x)
  BY <1>2, <1>7, SettlesTables, SettlesSlot
<1>11. RoomForJob(f)
  BY <1>9, SameJobs DEF RoomForJob
<1>12. CASE sel.ord # 0 /\ e = admit_refresh_entry(f, x, g, t.chain, sel.ord, FALSE)
  <2>1. Admitted(f, x, g, t.chain, sel.ord, e)
    BY <1>8, <1>12 DEF Admitted
  <2>2. g = f.gen[x].served
    BY <1>8
  <2>3. /\ Apart(e, x) /\ SlotOK(e, x) /\ Frame(f, e) /\ Grows(f, e)
        /\ e.gen[x].served = f.gen[x].served /\ Active(e) # Active(f)
    <3>1. Apart(e, x) /\ SlotOK(e, x) /\ Frame(f, e) /\ Grows(f, e) /\ OneAdmitted(f, e, x)
      BY Zenon, <1>1, <1>6, <1>10, <1>11, <1>12, <2>1, <2>2, AdmitOK
    <3> QED
      BY <3>1 DEF OneAdmitted
  <2>4. Grows(d, e) /\ Frame(d, e)
    BY Zenon, <1>9, <2>3, SameJobs, FrameTrans DEF Grows
  <2>5. e.jobs # d.jobs
    BY <1>9, <2>3 DEF Active
  <2> QED
    BY <1>8, <2>3, <2>4, <2>5 DEF Progress
<1>13. CASE sel.ord = 0 /\ f.gen[x].chain = t.chain /\ e = [f EXCEPT !.gen[x].chain = 0]
  <2>1. f.gen[x] \in Counters
    BY <1>9, GenTypes
  <2>2. /\ c \in Counters /\ c.req = f.gen[x].req /\ c.comp = f.gen[x].comp
        /\ c.served = f.gen[x].served /\ c.chain = 0
    BY <2>1 DEF Counters
  <2>3. e = WithGen(f, x, c)
    BY <1>13 DEF WithGen
  <2> HIDE DEF c
  <2>4. /\ e \in RefreshTables /\ Frame(f, e) /\ e.jobs = f.jobs /\ e.ent = f.ent
        /\ e.gen[x] = c /\ \A y \in Assets \ {x} : e.gen[y] = f.gen[y]
    BY <1>9, <2>2, <2>3, WithGenTables
  <2>5. Others(e, x)
    BY <1>10, <2>4, OthersKept DEF Apart
  <2>6. CountersOK(e, x)
    BY <1>8, <2>2, <2>4 DEF CountersOK, EntriesIn
  <2>7. Idle(e, x)
    BY <1>10, <2>4, SameJobs DEF Idle, EntriesIn
  <2>8. SlotOK(e, x)
    BY <2>2, <2>4, <2>7 DEF SlotOK
  <2>9. Frame(d, e) /\ Grows(d, e)
    BY <1>9, <2>4, FrameTrans DEF Grows
  <2> QED
    BY <1>8, <2>2, <2>4, <2>5, <2>6, <2>7, <2>8, <2>9 DEF Progress, Apart
<1> QED
  BY <1>3, <1>8, <1>12, <1>13

\* A refresh job ends in the transaction that admits the chain's next entry or the
\* follow-up: the tables stay in order, with no more active jobs than before.
LEMMA FinishOK ==
    ASSUME NEW d, TablesOK(d), NEW j \in Refreshes(d), RoomForJob(d), NEW outcome,
           NEW e, e = finish_article_refresh_in_transaction(d, j, outcome)
    PROVE  TablesOK(e) /\ Heirs(d, e) /\ Cardinality(Active(e)) <= Cardinality(Active(d))
<1> DEFINE t == d.jobs[j]
           x == t.asset
           r == ApplyRefreshOutcome(d, t, outcome)
           d1 == RemoveJob(r, j)
           k == continue_refresh_chain(d1, t)
           d2 == complete_refresh_generation_if_terminal(k, x, t.gen)
<1>1. /\ x \in Assets /\ j \in JobIds /\ t \in RefreshRow /\ RepairsOf(d, x) = {}
      /\ d.gen[x].chain = t.chain /\ d.gen[x].served = t.gen
  BY HasEntry
<1>2. \/ e = d2
      \/ /\ ~(Cardinality(Active(d2)) > Cardinality(Active(d1)))
         /\ refresh_generation_completed(d2, x, t.gen)
         /\ e = start_follow_up_generation(d2, x, d2.gen[x].req)
  BY DEF finish_article_refresh_in_transaction
<1>3. Released(d, r, x, j)
  BY OutcomeReleased
<1> HIDE DEF r
<1>4. r \in RefreshTables /\ r.jobs = d.jobs /\ Apart(r, x) /\ Carriers(r, x) = {j}
  BY <1>3 DEF Released, Apart, Others
<1>5. Apart(d1, x) /\ Idle(d1, x)
  BY <1>1, <1>3, <1>4, RemoveRefreshOK DEF Released
<1>6. Active(r) = Active(d) /\ j \in Active(r) /\ \A y : RepairsOf(r, y) = RepairsOf(d, y)
  BY <1>4, SameJobs DEF Refreshes
<1>7. /\ OneLess(r, d1, j) /\ d1 \in RefreshTables /\ d1.gen = r.gen
      /\ Cardinality(Active(d)) \in Nat /\ Cardinality(Active(d1)) = Cardinality(Active(r)) - 1
  BY <1>4, <1>6, RemovedRows
<1> HIDE DEF d1
<1>8. Heirs(d, d1) /\ RepairsOf(d1, x) = {} /\ Active(d1) = Active(d) \ {j}
  BY <1>1, <1>4, <1>6, <1>7 DEF OneLess, Heirs
<1>9. RoomForJob(d1)
  BY <1>8 DEF RoomForJob
<1>10. d1.gen[x].chain = t.chain /\ d1.gen[x].served = t.gen
  BY <1>1, <1>3, <1>7 DEF Released
<1>11. /\ Progress(d1, k, x) /\ k.gen[x].served = t.gen
       /\ k.jobs = d1.jobs => Idle(k, x) /\ k.gen[x].chain = 0
  BY <1>1, <1>5, <1>9, <1>10, ContinueOK
<1> HIDE DEF k
<1>12. /\ k \in RefreshTables /\ CountersOK(k, x) /\ Apart(k, x) /\ SlotOK(k, x) /\ Grows(d1, k)
       /\ t.gen \in 0 .. MaxGen /\ Frame(d1, k)
  BY <1>1, <1>11 DEF Progress, Apart, Others, RefreshRow
<1>13. Settles(k, d2)
  BY <1>1, <1>11, <1>12, CompleteSettles
<1> HIDE DEF d2
<1>14. /\ d2 \in RefreshTables /\ d2.jobs = k.jobs /\ Frame(k, d2)
  BY <1>13 DEF Settles
<1>15. Apart(d2, x) /\ SlotOK(d2, x) /\ (Idle(k, x) => Idle(d2, x))
  BY <1>1, <1>12, <1>13, SettlesTables, SettlesSlot
<1>16. CountersOK(d2, x) /\ d2.gen[x].served = k.gen[x].served /\ d2.gen[x].chain = k.gen[x].chain
  BY <1>1, <1>12, <1>13, SettlesCounters
<1>17. Grows(d1, d2) /\ Frame(d1, d2)
  BY <1>12, <1>14, FrameTrans DEF Grows
<1>18. Progress(d1, d2, x)
  BY <1>15, <1>17 DEF Progress
<1>19. Progress(d1, e, x)
  <2>1. CASE e = d2
    BY <1>18, <2>1
  <2>2. CASE /\ ~(Cardinality(Active(d2)) > Cardinality(Active(d1)))
             /\ refresh_generation_completed(d2, x, t.gen)
             /\ e = start_follow_up_generation(d2, x, d2.gen[x].req)
    <3>1. /\ Cardinality(Active(d1)) \in Nat /\ Cardinality(Active(d2)) \in Nat
          /\ Cardinality(Active(d2)) <= Cardinality(Active(d1)) => d2.jobs = d1.jobs
      BY <1>7, <1>17, GrowsRows
    <3>2. d2.jobs = d1.jobs
      BY <2>2, <3>1
    <3>3. Idle(d2, x) /\ d2.gen[x].chain = 0
      BY <1>11, <1>14, <1>15, <1>16, <3>2
    <3>4. \A h \in 1 .. MaxGen : EntriesIn(d2, x, h, Live) = {}
      BY Zenon, <1>1, <1>11, <1>14, <1>16, <2>2, NoneLive DEF refresh_generation_completed
    <3>5. RoomForJob(d2)
      BY <1>9, <3>2, SameJobs DEF RoomForJob
    <3>6. Progress(d2, e, x)
      BY <1>1, <1>15, <2>2, <3>3, <3>4, <3>5, FollowUpOK
    <3>7. Grows(d1, e) /\ Frame(d1, e)
      BY <1>17, <3>2, <3>6, SameJobs, FrameTrans DEF Progress, Grows
    <3> QED
      BY <3>6, <3>7 DEF Progress
  <2> QED
    BY <1>2, <2>1, <2>2
<1>20. TablesOK(e)
  BY <1>1, <1>7, <1>8, <1>19, ProgressTables
<1>21. Grows(d1, e)
  BY <1>19 DEF Progress
<1>22. Heirs(d, e)
  BY <1>7, <1>8, <1>21, GrowsHeirs, HeirsTrans
<1>23. Cardinality(Active(e)) <= Cardinality(Active(d1)) + 1 /\ Cardinality(Active(e)) \in Nat
  BY <1>7, <1>21, GrowsRows
<1> QED
  BY <1>6, <1>7, <1>20, <1>22, <1>23


-----------------------------------------------------------------------------
(* Claims, retries, failures and cancellations. *)

\* e has the tables of d in order, and no job that a handler could mistake.
Inherits(d, e) ==
    TablesOK(e) /\ Heirs(d, e) /\ Cardinality(Active(e)) <= Cardinality(Active(d))

\* d with another row for job j.
WithJob(d, j, row) == [d EXCEPT !.jobs = [d.jobs EXCEPT ![j] = row]]

\* There are finitely many active jobs.
LEMMA ActiveFinite ==
    ASSUME NEW d
    PROVE  IsFiniteSet(Active(d)) /\ Cardinality(Active(d)) \in Nat
<1>1. Active(d) \in SUBSET JobIds
  BY DEF Active
<1> QED
  BY <1>1, RefreshConstants, FS_Subset, FS_CardinalityType

\* A row that keeps its task and fits its status leaves everything in order.
LEMMA WithJobOK ==
    ASSUME NEW d, TablesOK(d), NEW j \in Active(d), NEW row, KeepsTask(d.jobs[j], row), Charged(row),
           NEW e, e = WithJob(d, j, row)
    PROVE  /\ Inherits(d, e) /\ Active(e) = Active(d)
           /\ e.jobs[j] = row /\ \A i \in Active(d) : e.jobs[i].type = d.jobs[i].type
<1> DEFINE c == [d.jobs EXCEPT ![j] = row]
<1>1. d \in RefreshTables /\ d.jobs \in [JobIds -> JobRows] /\ j \in JobIds
  BY DEF TablesOK, RefreshTables, Active
<1>2. row \in JobRows
  BY DEF KeepsTask, JobRows
<1>3. c \in [JobIds -> JobRows]
  BY <1>1, <1>2
<1>4. e = [d EXCEPT !.jobs = c]
  BY DEF WithJob
<1> HIDE DEF c
<1>5. /\ e \in RefreshTables /\ e.jobs = c /\ e.gen = d.gen /\ e.ent = d.ent /\ e.art = d.art
      /\ e.listed = d.listed /\ e.rec = d.rec /\ e.link = d.link
  BY <1>1, <1>3, <1>4 DEF RefreshTables
<1>6. RowSet(d, e, j, row)
  BY <1>5 DEF RowSet, c
<1>7. /\ TablesOK(e) /\ Active(e) = Active(d)
      /\ e.jobs[j] = row /\ \A i \in Active(d) : e.jobs[i].type = d.jobs[i].type
  BY <1>5, <1>6, TouchedOK
<1>8. Heirs(d, e)
  BY <1>7 DEF Heirs
<1>9. Cardinality(Active(e)) <= Cardinality(Active(d))
  BY <1>7, ActiveFinite
<1> QED
  BY <1>7, <1>8, <1>9 DEF Inherits

\* A row that is claimed, requeued or deferred keeps its task.
Rescheduled(r, st, owner, att) == [r EXCEPT !.st = st, !.owner = owner, !.att = att]

\* Another status, owner and attempt count keep the task.
LEMMA SameRow ==
    ASSUME NEW r \in RepairRow \cup RefreshRow, NEW row, NEW st \in {"queued", "running"},
           NEW owner \in Workers \cup {Elsewhere, Nil}, NEW att \in 0 .. JobMaxAttempts,
           row = Rescheduled(r, st, owner, att)
    PROVE  KeepsTask(r, row) /\ row.st = st /\ row.att = att /\ row.owner = owner
<1>1. CASE r \in RepairRow
  <2>1. /\ row \in RepairRow /\ row.type = r.type /\ row.asset = r.asset
        /\ row.st = st /\ row.att = att /\ row.owner = owner
    BY <1>1 DEF RepairRow, Rescheduled
  <2> QED
    BY <1>1, <2>1 DEF KeepsTask
<1>2. CASE r \in RefreshRow
  <2>1. /\ row \in RefreshRow /\ row.type = r.type /\ row.asset = r.asset /\ row.art = r.art
        /\ row.chain = r.chain /\ row.gen = r.gen /\ row.ord = r.ord
        /\ row.st = st /\ row.att = att /\ row.owner = owner
    BY <1>2 DEF RefreshRow, Rescheduled
  <2> QED
    BY <1>2, <2>1 DEF KeepsTask
<1> QED
  BY <1>1, <1>2

\* What the row of an active job says.
LEMMA RowFields ==
    ASSUME NEW d, TablesOK(d), NEW j \in Active(d)
    PROVE  /\ d.jobs[j] \in RepairRow \cup RefreshRow
           /\ d.jobs[j].att \in 0 .. JobMaxAttempts /\ d.jobs[j].st \in {"queued", "running"}
           /\ d.jobs[j].st = "queued" => d.jobs[j].att < JobMaxAttempts
           /\ d.jobs[j].st = "running" => d.jobs[j].att > 0
           /\ JobMaxAttempts \in Nat \ {0}
<1>1. d \in RefreshTables /\ ChargesOK(d)
  BY DEF TablesOK, JobsOK
<1>2. d.jobs[j] \in RepairRow \cup RefreshRow
  BY <1>1, RowTypes
<1>3. d.jobs[j].att \in 0 .. JobMaxAttempts /\ d.jobs[j].st \in {"queued", "running"}
  BY <1>2 DEF RepairRow, RefreshRow
<1> QED
  BY <1>1, <1>2, <1>3, RefreshConstants DEF ChargesOK

\* A claim charges the attempt.
LEMMA StartOK ==
    ASSUME NEW d, TablesOK(d), NEW j \in Active(d), d.jobs[j].st = "queued",
           NEW owner \in Workers \cup {Elsewhere, Nil}, NEW e, e = StartJob(d, j, owner)
    PROVE  /\ Inherits(d, e) /\ Active(e) = Active(d)
           /\ \A i \in Active(d) : e.jobs[i].type = d.jobs[i].type
<1> DEFINE att == d.jobs[j].att + 1
           row == Rescheduled(d.jobs[j], "running", owner, att)
<1>1. d.jobs[j] \in RepairRow \cup RefreshRow /\ att \in 0 .. JobMaxAttempts /\ att > 0
  BY RowFields
<1> HIDE DEF att
<1>2. e = WithJob(d, j, row)
  BY DEF StartJob, WithJob, Rescheduled, att
<1>3. KeepsTask(d.jobs[j], row) /\ row.st = "running" /\ row.att = att
  BY <1>1, SameRow
<1> HIDE DEF row
<1>4. Charged(row)
  BY <1>1, <1>3 DEF Charged
<1> QED
  BY <1>2, <1>3, <1>4, WithJobOK

\* A deferral gives the attempt back.
LEMMA DeferOK ==
    ASSUME NEW d, TablesOK(d), NEW j \in Active(d), d.jobs[j].st = "running", NEW e, e = DeferJob(d, j)
    PROVE  Inherits(d, e)
<1> DEFINE att == d.jobs[j].att - 1
           row == Rescheduled(d.jobs[j], "queued", Nil, att)
<1>1. d.jobs[j] \in RepairRow \cup RefreshRow /\ att \in 0 .. JobMaxAttempts /\ att < JobMaxAttempts
  BY RowFields
<1> HIDE DEF att
<1>2. e = WithJob(d, j, row)
  BY DEF DeferJob, WithJob, Rescheduled, att
<1>3. KeepsTask(d.jobs[j], row) /\ row.st = "queued" /\ row.att = att
  BY <1>1, SameRow
<1> HIDE DEF row
<1>4. Charged(row)
  BY <1>1, <1>3 DEF Charged
<1> QED
  BY <1>2, <1>3, <1>4, WithJobOK

\* A job that a handler finished, failed or lost for good.
LEMMA EndRepairOK ==
    ASSUME NEW d, TablesOK(d), NEW j \in Repairs(d), NEW e, e = RemoveJob(d, j)
    PROVE  Inherits(d, e)
<1>1. d \in RefreshTables
  BY DEF TablesOK
<1>2. d.jobs[j] \in RepairRow /\ j \in Active(d)
  BY <1>1, RowTypes
<1>3. d.jobs[j].asset \in Assets
  BY <1>2 DEF RepairRow
<1>4. Apart(d, d.jobs[j].asset) /\ SlotOK(d, d.jobs[j].asset)
  BY <1>3 DEF TablesOK, Apart, Others, AssetOK
<1>5. TablesOK(e)
  BY <1>3, <1>4, RemoveRepairOK
<1>6. OneLess(d, e, j) /\ Cardinality(Active(d)) \in Nat /\ Cardinality(Active(e)) = Cardinality(Active(d)) - 1
  BY <1>1, <1>2, RemovedRows
<1>7. Heirs(d, e)
  BY <1>6 DEF OneLess, Heirs
<1> QED
  BY <1>5, <1>6, <1>7 DEF Inherits

\* A refresh job that fails for good gives its slot and its entry back
\* (cleanup_terminal_refresh).
LEMMA EndRefreshOK ==
    ASSUME NEW d, TablesOK(d), NEW j \in Refreshes(d), NEW e, e = FailJob(d, j)
    PROVE  Inherits(d, e)
<1> DEFINE t == d.jobs[j]
           x == t.asset
           gone == t.art \notin d.art
           spent == gone \/ Spent(d.lin[t.art])
           l == [d.lin[t.art] EXCEPT !.cool = TRUE, !.exh = spent]
           st == IF spent THEN "done" ELSE "cooling"
           d1 == IF gone THEN d
                 ELSE [d EXCEPT !.lin[t.art] = [@ EXCEPT !.cool = TRUE, !.exh = spent]]
           d2 == MarkEntries(d1, x, t.gen, {t.ord}, st)
           d3 == complete_refresh_generation_if_terminal(d2, x, t.gen)
           d4 == [d3 EXCEPT !.gen[x].chain = 0]
<1>1. /\ x \in Assets /\ j \in JobIds /\ t \in RefreshRow /\ RepairsOf(d, x) = {}
      /\ WorkedBy(d, x, j) /\ begin_article_refresh(d, j) /\ d.gen[x].served = t.gen /\ Apart(d, x)
  BY HasEntry
<1>2. d \in RefreshTables /\ t.type = "refresh" /\ t.art \in ArticleIds /\ t.gen \in 0 .. MaxGen
  BY <1>1, RefreshConstants DEF TablesOK, RefreshRow
<1>3. e = RemoveJob(d4, j)
  BY Zenon, <1>1, <1>2 DEF FailJob, cleanup_terminal_refresh
<1>4. l \in LineageState
  <2>1. d.lin[t.art] \in LineageState
    BY <1>2 DEF RefreshTables
  <2>2. spent \in BOOLEAN
    OBVIOUS
  <2> HIDE DEF spent
  <2> QED
    BY <2>1, <2>2 DEF LineageState
<1>5. /\ Apart(d1, x) /\ WorkedBy(d1, x, j) /\ d1.jobs = d.jobs /\ d1.gen = d.gen /\ Frame(d, d1)
  <2>1. CASE gone
    BY <1>1, <2>1 DEF Frame
  <2>2. CASE ~gone
    <3>1. d1 = WithLin(d, t.art, l)
      BY <2>2 DEF WithLin
    <3> HIDE DEF d1, l
    <3> QED
      BY <1>1, <1>2, <1>4, <3>1, WithLinTables
  <2> QED
    BY <2>1, <2>2
<1> HIDE DEF d1, l
<1>6. st \in {"done", "cooling"} /\ d2 = MarkEntries(d1, x, d1.jobs[j].gen, {d1.jobs[j].ord}, st)
  BY <1>5
<1> HIDE DEF st, d2
<1>7. Released(d1, d2, x, j)
  BY <1>1, <1>5, <1>6, EntryReleased
<1>8. d2 \in RefreshTables /\ CountersOK(d2, x) /\ d2.gen[x].served = t.gen
  BY <1>1, <1>5, <1>7 DEF Released, Apart, Others
<1>9. Settles(d2, d3)
  BY <1>1, <1>2, <1>8, CompleteSettles
<1> HIDE DEF d3
<1>10. Released(d1, d3, x, j)
  BY <1>1, <1>7, <1>9, ReleasedSettles
<1>11. /\ d3 \in RefreshTables /\ Apart(d3, x) /\ Others(d3, x) /\ CountersOK(d3, x) /\ d3.jobs = d.jobs
       /\ Carriers(d3, x) = {j} /\ \A g \in 1 .. MaxGen : EntriesIn(d3, x, g, {"in_flight"}) = {}
  BY <1>5, <1>10 DEF Released, Apart, Others
<1> DEFINE c == [d3.gen[x] EXCEPT !.chain = 0]
<1>12. /\ c \in Counters /\ c.req = d3.gen[x].req /\ c.comp = d3.gen[x].comp
       /\ c.served = d3.gen[x].served /\ c.chain = 0
  <2>1. d3.gen[x] \in Counters
    BY <1>1, <1>11, GenTypes
  <2> QED
    BY <2>1 DEF Counters
<1>13. d4 = WithGen(d3, x, c)
  BY DEF WithGen
<1> HIDE DEF c, d4
<1>14. /\ d4 \in RefreshTables /\ Frame(d3, d4) /\ d4.jobs = d3.jobs /\ d4.ent = d3.ent
       /\ d4.gen[x] = c /\ \A y \in Assets \ {x} : d4.gen[y] = d3.gen[y]
  BY <1>1, <1>11, <1>12, <1>13, WithGenTables
<1>15. Others(d4, x)
  BY <1>1, <1>11, <1>14, OthersKept
<1>16. Apart(d4, x)
  BY Zenon, <1>11, <1>12, <1>14, <1>15 DEF Apart, CountersOK, EntriesIn
<1>17. Carriers(d4, x) = {j} /\ \A g \in 1 .. MaxGen : EntriesIn(d4, x, g, {"in_flight"}) = {}
  BY <1>11, <1>14, SameJobs DEF EntriesIn
<1>18. Apart(e, x) /\ Idle(e, x)
  BY <1>1, <1>3, <1>16, <1>17, RemoveRefreshOK
<1>19. Active(d4) = Active(d) /\ j \in Active(d4) /\ RepairsOf(d4, x) = {}
  BY <1>1, <1>11, <1>14, SameJobs DEF Refreshes
<1>20. /\ OneLess(d4, e, j) /\ e.gen = d4.gen
       /\ Cardinality(Active(d)) \in Nat /\ Cardinality(Active(e)) = Cardinality(Active(d)) - 1
  BY <1>3, <1>14, <1>19, RemovedRows
<1>21. Heirs(d, e)
  BY <1>11, <1>14, <1>19, <1>20 DEF OneLess, Heirs
<1>22. RepairsOf(e, x) = {}
  BY <1>19, <1>20 DEF OneLess
<1>23. AssetOK(e, x)
  BY <1>12, <1>14, <1>18, <1>20, <1>22 DEF AssetOK, SlotOK, RepairOK, Apart
<1>24. TablesOK(e)
  BY <1>18, <1>23 DEF TablesOK, Apart, Others
<1> QED
  BY <1>20, <1>21, <1>24 DEF Inherits

\* Any job may fail for good ...
LEMMA FailOK ==
    ASSUME NEW d, TablesOK(d), NEW j \in Active(d), NEW e, e = FailJob(d, j)
    PROVE  Inherits(d, e)
<1>1. d \in RefreshTables
  BY DEF TablesOK
<1>2. CASE j \in Repairs(d)
  <2>1. e = RemoveJob(d, j)
    BY Zenon, <1>2 DEF FailJob, cleanup_terminal_refresh, Repairs
  <2> QED
    BY <1>2, <2>1, EndRepairOK
<1>3. CASE j \in Refreshes(d)
  BY <1>3, EndRefreshOK
<1> QED
  BY <1>1, <1>2, <1>3, RowTypes

\* ... or be retried while it has attempts left.
LEMMA RequeueOK ==
    ASSUME NEW d, TablesOK(d), NEW j \in Active(d), NEW e, e = RequeueJob(d, j)
    PROVE  Inherits(d, e)
<1> DEFINE att == d.jobs[j].att
           row == Rescheduled(d.jobs[j], "queued", Nil, att)
<1>1. CASE d.jobs[j].att < JobMaxAttempts
  <2>1. d.jobs[j] \in RepairRow \cup RefreshRow /\ att \in 0 .. JobMaxAttempts
    BY RowFields
  <2>2. row = [d.jobs[j] EXCEPT !.st = "queued", !.owner = Nil]
    BY <2>1 DEF RepairRow, RefreshRow, Rescheduled
  <2>3. e = WithJob(d, j, row)
    BY <1>1, <2>2 DEF RequeueJob, WithJob
  <2> HIDE DEF att
  <2>4. KeepsTask(d.jobs[j], row) /\ row.st = "queued" /\ row.att = att
    BY <2>1, SameRow
  <2> HIDE DEF row
  <2>5. Charged(row)
    BY <1>1, <2>4 DEF Charged, att
  <2> QED
    BY <2>3, <2>4, <2>5, WithJobOK
<1>2. CASE ~(d.jobs[j].att < JobMaxAttempts)
  BY <1>2, FailOK DEF RequeueJob
<1> QED
  BY <1>1, <1>2


-----------------------------------------------------------------------------
(* Articles, links, bodies and circuits. *)

\* A step that leaves generations, entries and jobs alone.
LEMMA SameRefreshState ==
    ASSUME NEW d, TablesOK(d), NEW e \in RefreshTables, LinksOK(e),
           e.gen = d.gen, e.ent = d.ent, e.jobs = d.jobs
    PROVE  Inherits(d, e)
<1>1. d \in RefreshTables /\ JobsOK(d) /\ \A x \in Assets : AssetOK(d, x)
  BY DEF TablesOK
<1>2. /\ JobsOK(e) /\ Active(e) = Active(d)
      /\ \A y : RepairsOf(e, y) = RepairsOf(d, y) /\ Carriers(e, y) = Carriers(d, y)
  BY <1>1, SameJobs
<1>3. ASSUME NEW y \in Assets PROVE AssetOK(e, y)
  <2>1. \A j \in Carriers(d, y) : SameTask(d, e, j)
    BY DEF SameTask
  <2>2. e.gen[y] = d.gen[y] /\ \A h \in 1 .. MaxGen : e.ent[y][h] = d.ent[y][h]
    OBVIOUS
  <2> QED
    BY <1>1, <1>2, <2>1, <2>2, AssetKept DEF AssetOK
<1>4. TablesOK(e)
  BY <1>2, <1>3 DEF TablesOK
<1>5. Heirs(d, e)
  BY <1>2 DEF Heirs
<1>6. Cardinality(Active(e)) <= Cardinality(Active(d))
  BY <1>2, ActiveFinite
<1> QED
  BY <1>4, <1>5, <1>6 DEF Inherits

\* d with another body, another circuit, or other articles and links.
WithBody(d, x, b) == [d EXCEPT !.body = [d.body EXCEPT ![x] = b]]
WithRep(d, x, r) == [d EXCEPT !.rep = [d.rep EXCEPT ![x] = r]]
WithArticles(d, art, link) == [d EXCEPT !.art = art, !.link = link]

\* A blob that is evicted, deleted or restored.
LEMMA BodyOK ==
    ASSUME NEW d, TablesOK(d), NEW x \in Assets, NEW b \in {"present", "queued", "gone"},
           NEW e, e = WithBody(d, x, b)
    PROVE  Inherits(d, e)
<1> DEFINE f == [d.body EXCEPT ![x] = b]
<1>1. d \in RefreshTables /\ LinksOK(d) /\ d.body \in [Assets -> {"present", "queued", "gone"}]
  BY DEF TablesOK, RefreshTables
<1>2. f \in [Assets -> {"present", "queued", "gone"}]
  BY <1>1
<1>3. e = [d EXCEPT !.body = f]
  BY DEF WithBody
<1> HIDE DEF f
<1>4. /\ e \in RefreshTables /\ e.gen = d.gen /\ e.ent = d.ent /\ e.jobs = d.jobs
      /\ e.art = d.art /\ e.listed = d.listed /\ e.rec = d.rec /\ e.link = d.link
  BY <1>1, <1>2, <1>3 DEF RefreshTables
<1>5. LinksOK(e)
  BY <1>1, <1>4 DEF LinksOK
<1> QED
  BY <1>4, <1>5, SameRefreshState

\* A change of an asset's repair circuit.
LEMMA RepOK ==
    ASSUME NEW d, TablesOK(d), NEW x \in Assets, NEW r \in RepairState, NEW e, e = WithRep(d, x, r)
    PROVE  Inherits(d, e)
<1> DEFINE f == [d.rep EXCEPT ![x] = r]
<1>1. d \in RefreshTables /\ LinksOK(d) /\ d.rep \in [Assets -> RepairState]
  BY DEF TablesOK, RefreshTables
<1>2. f \in [Assets -> RepairState]
  BY <1>1
<1>3. e = [d EXCEPT !.rep = f]
  BY DEF WithRep
<1> HIDE DEF f
<1>4. /\ e \in RefreshTables /\ e.gen = d.gen /\ e.ent = d.ent /\ e.jobs = d.jobs
      /\ e.art = d.art /\ e.listed = d.listed /\ e.rec = d.rec /\ e.link = d.link
  BY <1>1, <1>2, <1>3 DEF RefreshTables
<1>5. LinksOK(e)
  BY <1>1, <1>4 DEF LinksOK
<1> QED
  BY <1>4, <1>5, SameRefreshState

\* Articles that come, go or show other images.
LEMMA ArticlesOK ==
    ASSUME NEW d, TablesOK(d), NEW art, art \subseteq d.listed, NEW link, link \subseteq d.rec \X art,
           NEW e, e = WithArticles(d, art, link)
    PROVE  Inherits(d, e)
<1>1. d \in RefreshTables /\ d.listed \in SUBSET ArticleIds /\ d.rec \in SUBSET Assets
  BY DEF TablesOK, RefreshTables
<1>2. art \in SUBSET ArticleIds /\ link \in SUBSET (Assets \X ArticleIds)
  BY <1>1
<1>3. e = [d EXCEPT !.art = art, !.link = link]
  BY DEF WithArticles
<1>4. /\ e \in RefreshTables /\ e.gen = d.gen /\ e.ent = d.ent /\ e.jobs = d.jobs
      /\ e.art = art /\ e.listed = d.listed /\ e.rec = d.rec /\ e.link = link
  BY <1>1, <1>2, <1>3 DEF RefreshTables
<1>5. LinksOK(e)
  BY <1>4 DEF LinksOK
<1> QED
  BY <1>4, <1>5, SameRefreshState

\* Statements one after the other.
LEMMA InheritsTrans ==
    ASSUME NEW d, NEW e, NEW f, Inherits(d, e), Inherits(e, f)
    PROVE  Inherits(d, f)
<1>1. Heirs(d, f)
  BY HeirsTrans DEF Inherits
<1>2. Cardinality(Active(f)) <= Cardinality(Active(d))
  <2>1. Cardinality(Active(d)) \in Nat /\ Cardinality(Active(e)) \in Nat /\ Cardinality(Active(f)) \in Nat
    BY ActiveFinite
  <2> QED
    BY <2>1 DEF Inherits
<1> QED
  BY <1>1, <1>2 DEF Inherits

\* The lineage of article a starts over.
LEMMA FreshLineage ==
    Fresh \in LineageState /\ Fresh \in RepairState
  BY RefreshConstants DEF Fresh, LineageState, RepairState

\* A change of an article's lineage.
LEMMA LinOK ==
    ASSUME NEW d, TablesOK(d), NEW a \in ArticleIds, NEW l \in LineageState, NEW e, e = WithLin(d, a, l)
    PROVE  Inherits(d, e)
<1>1. d \in RefreshTables /\ LinksOK(d)
  BY DEF TablesOK
<1>2. /\ e \in RefreshTables /\ Frame(d, e) /\ e.gen = d.gen /\ e.ent = d.ent /\ e.jobs = d.jobs
      /\ TablesOK(e)
  BY <1>1, WithLinTables
<1>3. LinksOK(e)
  BY <1>2 DEF TablesOK
<1> QED
  BY <1>2, <1>3, SameRefreshState

-----------------------------------------------------------------------------
(* A repair that is admitted. *)

\* e is d after a transaction that may admit jobs.
Sound(d, e) == TablesOK(e) /\ Heirs(d, e) /\ Cardinality(Active(e)) <= MaxPending

\* A transaction that admits no job keeps the bound.
LEMMA InheritsSound ==
    ASSUME NEW d, NEW e, Inherits(d, e), Cardinality(Active(d)) <= MaxPending
    PROVE  Sound(d, e)
<1>1. Cardinality(Active(d)) \in Nat /\ Cardinality(Active(e)) \in Nat /\ MaxPending \in Nat
  BY ActiveFinite, RefreshConstants
<1> QED
  BY <1>1 DEF Inherits, Sound

\* The rows after one repair job is new.
OneRepair(d, e, k, row) ==
    /\ Active(e) = Active(d) \cup {k}
    /\ \A j \in Active(d) : e.jobs[j] = d.jobs[j]
    /\ \A y : Carriers(e, y) = Carriers(d, y)
    /\ \A y : y # row.asset => RepairsOf(e, y) = RepairsOf(d, y)

\* What the jobs table is after one repair job was inserted.
LEMMA InsertedRepair ==
    ASSUME NEW d \in RefreshTables, NEW e, NEW k \in JobIds \ Active(d), NEW row \in RepairRow,
           RowSet(d, e, k, row)
    PROVE  /\ OneRepair(d, e, k, row)
           /\ JobsOK(d) /\ RepairsOf(d, row.asset) = {} /\ row.st = "queued" /\ row.att = 0 => JobsOK(e)
<1>1. d.jobs \in [JobIds -> JobRows]
  BY DEF RefreshTables
<1>2. e.jobs[k] = row /\ \A j \in JobIds \ {k} : e.jobs[j] = d.jobs[j]
  BY <1>1 DEF RowSet
<1>3. row # NoJob /\ row.type = "repair" /\ d.jobs[k] = NoJob
  BY DEF RepairRow, NoJob, Nil, Active
<1>4. Active(e) = Active(d) \cup {k}
  BY <1>2, <1>3 DEF Active
<1>5. Refreshes(e) = Refreshes(d) /\ Repairs(e) = Repairs(d) \cup {k}
  BY <1>2, <1>3, <1>4 DEF Repairs, Refreshes, Active
<1>6. k \notin Refreshes(d) /\ k \notin Repairs(d) /\ Refreshes(d) \subseteq JobIds /\ Repairs(d) \subseteq JobIds
  BY DEF Refreshes, Repairs, Active
<1>7. \A y : Carriers(e, y) = Carriers(d, y)
  BY <1>2, <1>5, <1>6 DEF Carriers
<1>8. \A y : y # row.asset => RepairsOf(e, y) = RepairsOf(d, y)
  BY <1>2, <1>5, <1>6 DEF RepairsOf
<1>9. \A j \in Active(d) : e.jobs[j] = d.jobs[j]
  BY <1>2 DEF Active
<1>10. ASSUME JobsOK(d), RepairsOf(d, row.asset) = {}, row.st = "queued", row.att = 0 PROVE JobsOK(e)
  <2>1. ChargesOK(e)
    BY <1>2, <1>4, <1>10, RefreshConstants DEF JobsOK, ChargesOK, Active
  <2>2. \A j \in Repairs(d) : e.jobs[j] = d.jobs[j] /\ d.jobs[j].asset # row.asset
    BY <1>2, <1>6, <1>10 DEF RepairsOf
  <2>3. \A i, j \in Repairs(e) : e.jobs[i].asset = e.jobs[j].asset => i = j
    BY <1>2, <1>5, <1>10, <2>2 DEF JobsOK, Exclusive
  <2>4. \A i, j \in Refreshes(e) : e.jobs[i].art = e.jobs[j].art => i = j
    BY <1>2, <1>5, <1>6, <1>10 DEF JobsOK, Exclusive
  <2> QED
    BY <2>1, <2>3, <2>4 DEF JobsOK, Exclusive
<1>11. OneRepair(d, e, k, row)
  BY <1>4, <1>7, <1>8, <1>9 DEF OneRepair
<1> QED
  BY <1>10, <1>11

\* A repair is admitted only for an asset whose refresh state is at rest, and where the
\* cluster has room.
LEMMA InsertRepairOK ==
    ASSUME NEW d, TablesOK(d), NEW x \in Assets, RoomForJob(d), RepairsOf(d, x) = {},
           d.gen[x].chain = 0, d.gen[x].req = d.gen[x].comp, d.rep[x].att < RepairMaxAttempts,
           refresh_capacity_available(d), NEW e, e = InsertRepairJob(d, x)
    PROVE  Sound(d, e)
<1> DEFINE k == NewJobId(d)
           att == d.rep[x].att + 1
           r == [att |-> att, cool |-> FALSE, exh |-> FALSE]
           row == [type |-> "repair", st |-> "queued", att |-> 0, owner |-> Nil,
                   asset |-> x, refunded |-> FALSE]
           f == [d.rep EXCEPT ![x] = r]
           c == [d.jobs EXCEPT ![k] = row]
<1>1. /\ d \in RefreshTables /\ LinksOK(d) /\ JobsOK(d) /\ d.rep \in [Assets -> RepairState]
      /\ d.jobs \in [JobIds -> JobRows]
  BY DEF TablesOK, RefreshTables
<1>2. k \in JobIds \ Active(d) /\ \A w \in Workers : worker[w].job # k
  BY NewJob
<1>3. r \in RepairState
  <2>1. d.rep[x] \in RepairState
    BY <1>1
  <2>2. att \in 0 .. RepairMaxAttempts
    BY <2>1, RefreshConstants DEF RepairState
  <2> HIDE DEF att
  <2> QED
    BY <2>2 DEF RepairState
<1>4. /\ row \in RepairRow /\ row.asset = x /\ row.st = "queued" /\ row.att = 0
  BY RefreshConstants DEF RepairRow
<1>5. e = [d EXCEPT !.rep = f, !.jobs = c]
  BY DEF InsertRepairJob
<1> HIDE DEF k, r, row
<1>6. f \in [Assets -> RepairState] /\ c \in [JobIds -> JobRows]
  BY <1>1, <1>2, <1>3, <1>4 DEF JobRows
<1>7. RowSet(d, e, k, row)
  BY <1>1, <1>5 DEF RowSet, RefreshTables
<1> HIDE DEF f, c
<1>8. /\ e \in RefreshTables /\ e.gen = d.gen /\ e.ent = d.ent
      /\ e.art = d.art /\ e.listed = d.listed /\ e.rec = d.rec /\ e.link = d.link
  BY <1>1, <1>5, <1>6 DEF RefreshTables
<1>9. /\ Active(e) = Active(d) \cup {k} /\ \A j \in Active(d) : e.jobs[j] = d.jobs[j]
      /\ \A y : Carriers(e, y) = Carriers(d, y)
      /\ \A y : y # x => RepairsOf(e, y) = RepairsOf(d, y)
      /\ JobsOK(e)
  <2>1. RepairsOf(d, row.asset) = {}
    BY <1>4
  <2>2. OneRepair(d, e, k, row) /\ JobsOK(e)
    BY <1>1, <1>2, <1>4, <1>7, <2>1, InsertedRepair
  <2> QED
    BY <1>4, <2>2 DEF OneRepair
<1>10. ASSUME NEW y \in Assets PROVE AssetOK(e, y)
  <2>1. \A j \in Carriers(d, y) : SameTask(d, e, j)
    BY <1>9 DEF SameTask, Carriers, Refreshes
  <2>2. e.gen[y] = d.gen[y] /\ \A h \in 1 .. MaxGen : e.ent[y][h] = d.ent[y][h]
    BY <1>8
  <2>3. AssetOK(d, y)
    BY DEF TablesOK
  <2>4. CountersOK(e, y) /\ SlotOK(e, y)
    BY <1>1, <1>9, <2>1, <2>2, <2>3, AssetKept DEF AssetOK
  <2>5. RepairOK(e, y)
    <3>1. CASE y = x
      BY <2>2, <3>1 DEF RepairOK
    <3>2. CASE y # x
      BY <1>9, <2>2, <2>3, <3>2 DEF RepairOK, AssetOK
    <3> QED
      BY <3>1, <3>2
  <2> QED
    BY <2>4, <2>5 DEF AssetOK
<1>11. LinksOK(e)
  BY <1>1, <1>8 DEF LinksOK
<1>12. TablesOK(e)
  BY <1>8, <1>9, <1>10, <1>11 DEF TablesOK
<1>13. Heirs(d, e)
  BY <1>2, <1>9 DEF Heirs
<1>14. Cardinality(Active(e)) <= MaxPending
  <2>1. IsFiniteSet(Active(d)) /\ Cardinality(Active(d)) \in Nat /\ MaxPending \in Nat
    BY ActiveFinite, RefreshConstants
  <2>2. Cardinality(Active(e)) = Cardinality(Active(d)) + 1
    BY Zenon, <1>2, <1>9, <2>1, FS_AddElement
  <2> QED
    BY <2>1, <2>2 DEF refresh_capacity_available
<1> QED
  BY <1>12, <1>13, <1>14 DEF Sound

\* A transaction on refresh state that looked at the cluster bound.
LEMMA ResumeSound ==
    ASSUME NEW d, NEW x \in Assets, TablesOK(d), RoomForJob(d), Cardinality(Active(d)) <= MaxPending,
           d.gen[x].chain # 0 => d.gen[x].req < MaxGen,
           NEW e, e = resume_refresh_after_cache_miss(d, x)
    PROVE  Sound(d, e)
<1>1. TablesOK(e) /\ Grows(d, e) /\ (e.jobs = d.jobs \/ refresh_capacity_available(d))
  BY ResumeOK
<1>2. d \in RefreshTables
  BY DEF TablesOK
<1>3. Heirs(d, e)
  BY <1>1, <1>2, GrowsHeirs
<1>4. Cardinality(Active(e)) <= MaxPending
  <2>1. CASE e.jobs = d.jobs
    <3>1. Active(e) = Active(d)
      BY <2>1, SameJobs
    <3> QED
      BY <3>1
  <2>2. CASE refresh_capacity_available(d)
    <3>1. /\ Cardinality(Active(e)) <= Cardinality(Active(d)) + 1
          /\ Cardinality(Active(d)) \in Nat /\ Cardinality(Active(e)) \in Nat
      BY <1>1, <1>2, GrowsRows
    <3> QED
      BY <2>2, <3>1, RefreshConstants DEF refresh_capacity_available
  <2> QED
    BY <1>1, <2>1, <2>2
<1> QED
  BY <1>1, <1>3, <1>4 DEF Sound

\* A transaction that changes nothing.
LEMMA SoundSelf ==
    ASSUME NEW d, TablesOK(d), Cardinality(Active(d)) <= MaxPending
    PROVE  Sound(d, d)
  BY DEF Sound, Heirs

\* A miss: coalesced with the repair or the refresh that is active, refused, or a repair.
LEMMA EnqueueOK ==
    ASSUME NEW d, NEW x \in Assets, TablesOK(d), RoomForJob(d), Cardinality(Active(d)) <= MaxPending,
           d.gen[x].req < MaxGen, NEW e, e = enqueue_repair_in_transaction(d, x)
    PROVE  Sound(d, e)
<1>1. CASE e = resume_refresh_after_cache_miss(d, x)
  BY <1>1, ResumeSound
<1>2. CASE e = d
  BY <1>2, SoundSelf
<1>3. CASE /\ e = InsertRepairJob(d, x) /\ RepairsOf(d, x) = {}
           /\ ~RefreshAnswersMiss(d, x) /\ ~RepairRefused(d, x)
  <2>1. d \in RefreshTables /\ CountersOK(d, x)
    BY DEF TablesOK, AssetOK
  <2>2. /\ d.gen[x].req \in 0 .. MaxGen /\ d.gen[x].comp \in 0 .. MaxGen
        /\ d.gen[x].served \in 0 .. MaxGen /\ MaxGen \in Nat
    BY <2>1, GenTypes, RefreshConstants
  <2>3. d.gen[x].chain = 0 /\ d.gen[x].req = d.gen[x].comp
    BY <1>3, <2>1, <2>2 DEF RefreshAnswersMiss, CountersOK
  <2>4. refresh_capacity_available(d)
    BY <1>3 DEF RepairRefused
  <2>5. d.rep[x].att < RepairMaxAttempts
    <3>1. d.rep[x] \in RepairState
      BY <2>1 DEF RefreshTables
    <3>2. d.rep[x].att \in Nat /\ RepairMaxAttempts \in Nat
      BY <3>1, RefreshConstants DEF RepairState
    <3> QED
      BY <1>3, <3>2 DEF RepairRefused
  <2> QED
    BY <1>3, <2>3, <2>4, <2>5, InsertRepairOK
<1> QED
  BY <1>1, <1>2, <1>3 DEF enqueue_repair_in_transaction

-----------------------------------------------------------------------------
(* A lineage that starts over. *)

\* A new chain for a generation of x that waits, where the cluster has room.
Readmit(x, e) ==
    IF refresh_capacity_available(e) /\ RoomForJob(e)
       /\ refresh_generation_pending(e, x, e.gen[x].served)
    THEN SelectAndAdmit(e, x, e.gen[x].served, TRUE)
    ELSE e

\* The new chain keeps the tables in order and the bound.
LEMMA ReadmitOK ==
    ASSUME NEW d, NEW x \in Assets, TablesOK(d), Cardinality(Active(d)) <= MaxPending,
           NEW e, e = Readmit(x, d)
    PROVE  Sound(d, e)
<1> DEFINE g == d.gen[x].served
<1>1. CASE e = d
  BY <1>1, SoundSelf
<1>2. CASE /\ refresh_capacity_available(d) /\ RoomForJob(d)
           /\ refresh_generation_pending(d, x, g) /\ e = SelectAndAdmit(d, x, g, TRUE)
  <2>1. d \in RefreshTables /\ AssetOK(d, x) /\ Apart(d, x) /\ CountersOK(d, x)
    BY DEF TablesOK, Apart, Others, AssetOK
  <2>2. /\ d.gen[x].req \in 0 .. MaxGen /\ d.gen[x].comp \in 0 .. MaxGen /\ g \in 0 .. MaxGen
        /\ MaxGen \in Nat
    BY <2>1, GenTypes, RefreshConstants
  <2>3. d.gen[x].chain = 0 /\ d.gen[x].req > d.gen[x].comp
    BY <1>2 DEF refresh_generation_pending
  <2>4. g \in 1 .. MaxGen /\ d.gen[x].req # d.gen[x].comp
    BY <2>1, <2>2, <2>3 DEF CountersOK
  <2>5. RepairsOf(d, x) = {} /\ Idle(d, x)
    BY <2>1, <2>3, <2>4 DEF AssetOK, RepairOK, SlotOK
  <2>6. Progress(d, e, x)
    BY <1>2, <2>1, <2>3, <2>4, <2>5, SelectAndAdmitOK
  <2>7. TablesOK(e)
    BY <2>1, <2>5, <2>6, ProgressTables
  <2>8. Heirs(d, e)
    BY <2>1, <2>6, GrowsHeirs DEF Progress
  <2>9. /\ Cardinality(Active(e)) <= Cardinality(Active(d)) + 1
        /\ Cardinality(Active(d)) \in Nat /\ Cardinality(Active(e)) \in Nat
    BY <2>1, <2>6, GrowsRows DEF Progress
  <2>10. Cardinality(Active(e)) <= MaxPending
    <3>1. Cardinality(Active(d)) < MaxPending /\ MaxPending \in Nat
      BY <1>2, RefreshConstants DEF refresh_capacity_available
    <3> QED
      BY <2>9, <3>1
  <2> QED
    BY <2>7, <2>8, <2>10 DEF Sound
<1> QED
  BY <1>1, <1>2 DEF Readmit

\* The lineage of an acquired article starts over: the generations that wait for it get
\* a chain each, as far as the cluster has room.
LEMMA ResetOK ==
    ASSUME NEW d, TablesOK(d), Cardinality(Active(d)) <= MaxPending, NEW a \in ArticleIds
    PROVE  Sound(d, reset_article_refresh_lineage(d, a))
<1> DEFINE d0 == [d EXCEPT !.lin[a] = Fresh]
           d1 == reconcile_article_refresh_entries(d0, a)
           h == {x \in Assets : \E o \in EntriesIn(d, x, d.gen[x].served, Pending) :
                                   d.ent[x][d.gen[x].served][o].art = a}
           V == {e \in RefreshTables : Sound(d, e)}
           pick == [s \in SUBSET h |-> CHOOSE x \in s : TRUE]
           step == [x \in h |-> [e \in V |-> Readmit(x, e)]]
           Eq(f) == f = [s \in SUBSET h |-> IF s = {} THEN d1
                            ELSE Readmit(CHOOSE x \in s : TRUE, f[s \ {CHOOSE x \in s : TRUE}])]
           F == CHOOSE f : Eq(f)
<1>1. IsFiniteSet(h) /\ h \subseteq Assets
  <2>1. h \in SUBSET Assets
    OBVIOUS
  <2> QED
    BY <2>1, RefreshConstants, FS_Subset
<1>4. reset_article_refresh_lineage(d, a) = F[h]
  BY Zenon DEF reset_article_refresh_lineage, Readmit, FoldSet, MapThenFoldSet
<1>2. d1 \in V
  <2>1. d0 = WithLin(d, a, Fresh)
    BY DEF WithLin
  <2> HIDE DEF d0
  <2>2. Inherits(d, d0)
    BY <2>1, FreshLineage, LinOK
  <2>3. TablesOK(d0) /\ d0 \in RefreshTables /\ \A x \in Assets : CountersOK(d0, x)
    BY <2>2 DEF Inherits, TablesOK, AssetOK
  <2>4. Settles(d0, d1)
    BY <2>3, ReconcileSettles
  <2> HIDE DEF d1
  <2>5. TablesOK(d1) /\ d1 \in RefreshTables /\ d1.jobs = d0.jobs
    BY <2>3, <2>4, SettlesTables DEF Settles
  <2>6. Active(d1) = Active(d0)
    BY <2>5, SameJobs
  <2>7. Sound(d, d0)
    BY <2>2, InheritsSound
  <2>8. Heirs(d, d1)
    BY <2>5, <2>6, <2>7 DEF Sound, Heirs
  <2> QED
    BY <2>5, <2>6, <2>7, <2>8 DEF Sound
<1>3. ASSUME NEW x \in h, NEW e \in V PROVE Readmit(x, e) \in V
  <2>1. TablesOK(e) /\ Cardinality(Active(e)) <= MaxPending /\ Heirs(d, e) /\ x \in Assets
    BY DEF Sound
  <2>2. Sound(e, Readmit(x, e))
    BY <2>1, ReadmitOK
  <2>3. Heirs(d, Readmit(x, e))
    BY <2>1, <2>2, HeirsTrans DEF Sound
  <2>4. Sound(d, Readmit(x, e)) /\ Readmit(x, e) \in RefreshTables
    BY <2>2, <2>3 DEF Sound, TablesOK
  <2> QED
    BY <2>4
<1> HIDE DEF h, V, d1
<1>5. \A s \in SUBSET h : s # {} => pick[s] \in s
  OBVIOUS
<1>6. step \in [h -> [V -> V]]
  BY <1>3
<1>7. PICK f : FoldsTo(f, SUBSET h, V, d1, pick, step)
  <2> HIDE DEF pick, step
  <2> QED
    BY <1>1, <1>2, <1>5, <1>6, FoldExists
<1>8. ASSUME NEW s \in SUBSET h, s # {}
      PROVE  step[pick[s]][f[s \ {pick[s]}]]
               = Readmit(CHOOSE x \in s : TRUE, f[s \ {CHOOSE x \in s : TRUE}])
  <2>1. pick[s] = CHOOSE x \in s : TRUE
    OBVIOUS
  <2>2. f[s \ {pick[s]}] \in V /\ pick[s] \in h
    BY <1>5, <1>7, <1>8 DEF FoldsTo
  <2> HIDE DEF pick
  <2> QED
    BY <2>1, <2>2
<1>9. Eq(f)
  <2> DEFINE rhs(s) == IF s = {} THEN d1
                       ELSE Readmit(CHOOSE x \in s : TRUE, f[s \ {CHOOSE x \in s : TRUE}])
  <2>1. f \in [SUBSET h -> V]
    BY <1>7 DEF FoldsTo
  <2>2. ASSUME NEW s \in SUBSET h PROVE f[s] = rhs(s)
    <3>1. f[s] = IF s = {} THEN d1 ELSE step[pick[s]][f[s \ {pick[s]}]]
      <4> HIDE DEF pick, step
      <4> QED
        BY <1>7 DEF FoldsTo
    <3> HIDE DEF pick, step
    <3> QED
      BY <3>1, <1>8
  <2> HIDE DEF rhs
  <2>3. f = [s \in SUBSET h |-> rhs(s)]
    BY <2>1, <2>2
  <2> QED
    BY <2>3 DEF rhs
<1>10. Eq(F)
  BY <1>9, Zenon
<1> HIDE DEF F
<1>11. \A s \in SUBSET h : F[s] \in V
  <2>1. F[{}] \in V
    BY <1>2, <1>10
  <2>2. ASSUME NEW s \in SUBSET h, s # {}, F[s \ {pick[s]}] \in V
        PROVE  F[s] \in V
    <3>1. pick[s] = CHOOSE x \in s : TRUE
      OBVIOUS
    <3>2. F[s] = Readmit(pick[s], F[s \ {pick[s]}])
      BY <1>10, <2>2, <3>1
    <3> HIDE DEF pick
    <3> QED
      BY <1>3, <1>5, <2>2, <3>2
  <2> HIDE DEF pick
  <2> QED
    BY <1>1, <1>5, <2>1, <2>2, FoldedIn
<1> QED
  BY <1>4, <1>11 DEF V

-----------------------------------------------------------------------------
(* The clock and the maintenance pass. *)

\* An asset whose entries in flight, counters and jobs are as they were, and
\* which has no entry to work on that it did not have.
LEMMA FlightKept ==
    ASSUME NEW d \in RefreshTables, NEW e \in RefreshTables, NEW x \in Assets, AssetOK(d, x),
           e.gen[x] = d.gen[x], e.jobs = d.jobs,
           \A g \in 1 .. MaxGen :
              /\ EntriesIn(e, x, g, Live) \subseteq EntriesIn(d, x, g, Live)
              /\ EntriesIn(e, x, g, {"in_flight"}) = EntriesIn(d, x, g, {"in_flight"})
              /\ \A o \in EntriesIn(d, x, g, {"in_flight"}) : e.ent[x][g][o] = d.ent[x][g][o]
    PROVE  AssetOK(e, x)
<1>1. Carriers(e, x) = Carriers(d, x) /\ RepairsOf(e, x) = RepairsOf(d, x)
  BY SameJobs
<1>2. CountersOK(e, x)
  BY DEF AssetOK, CountersOK
<1>3. Idle(d, x) => Idle(e, x)
  BY <1>1 DEF Idle
<1>4. ASSUME NEW j \in JobIds, WorkedBy(d, x, j) PROVE WorkedBy(e, x, j)
  <2>1. j \in Refreshes(d) /\ d.jobs[j].asset = x
    BY <1>4 DEF WorkedBy, Carriers
  <2>2. d.jobs[j].gen \in 1 .. MaxGen
    BY <2>1, RowTypes DEF RefreshRow
  <2>3. EntriesIn(d, x, d.jobs[j].gen, {"in_flight"}) = {d.jobs[j].ord} /\ begin_article_refresh(d, j)
    BY <1>4 DEF WorkedBy
  <2>4. d.jobs[j].ord \in EntriesIn(e, x, d.jobs[j].gen, {"in_flight"})
    BY <2>2, <2>3
  <2>5. d.jobs[j].ord \in DOMAIN e.ent[x][d.jobs[j].gen]
    BY <2>2, <2>4 DEF EntriesIn
  <2>6. begin_article_refresh(e, j)
    BY <2>1, <2>2, <2>3, <2>5 DEF begin_article_refresh, read_refresh_target
  <2> QED
    BY <1>1, <1>4, <2>2, <2>6 DEF WorkedBy
<1>5. SlotOK(e, x)
  BY <1>3, <1>4 DEF AssetOK, SlotOK
<1>6. RepairOK(e, x)
  BY <1>1 DEF AssetOK, RepairOK
<1> QED
  BY <1>2, <1>5, <1>6 DEF AssetOK

\* Every asset kept its entries in flight.
LEMMA FlightsKept ==
    ASSUME NEW d, TablesOK(d), NEW e \in RefreshTables, LinksOK(e), e.jobs = d.jobs,
           \A x \in Assets : AssetOK(e, x)
    PROVE  Inherits(d, e)
<1>1. JobsOK(e) /\ Active(e) = Active(d)
  BY SameJobs DEF TablesOK
<1>2. TablesOK(e)
  BY <1>1 DEF TablesOK
<1>3. Heirs(d, e)
  BY <1>1 DEF Heirs
<1>4. Cardinality(Active(e)) <= Cardinality(Active(d))
  BY <1>1, ActiveFinite
<1> QED
  BY <1>2, <1>3, <1>4 DEF Inherits

\* d after every cooldown has passed.
Cooled(d) ==
    [d EXCEPT
        !.lin = [a \in ArticleIds |-> [d.lin[a] EXCEPT !.cool = FALSE]],
        !.rep = [x \in Assets |-> [d.rep[x] EXCEPT !.cool = FALSE]],
        !.ent = [x \in Assets |-> [g \in 1 .. MaxGen |->
                   Marked(d.ent[x][g], EntriesIn(d, x, g, {"cooling"}), "cooled")]]]

\* A cooldown that ends changes no entry that a job works on.
LEMMA CooledOK ==
    ASSUME NEW d, TablesOK(d), NEW e, e = Cooled(d)
    PROVE  Inherits(d, e)
<1> DEFINE lin == [a \in ArticleIds |-> [d.lin[a] EXCEPT !.cool = FALSE]]
           rep == [x \in Assets |-> [d.rep[x] EXCEPT !.cool = FALSE]]
           S(x, g) == EntriesIn(d, x, g, {"cooling"})
           ent == [x \in Assets |-> [g \in 1 .. MaxGen |-> Marked(d.ent[x][g], S(x, g), "cooled")]]
<1>1. /\ d \in RefreshTables /\ LinksOK(d) /\ d.lin \in [ArticleIds -> LineageState]
      /\ d.rep \in [Assets -> RepairState] /\ "cooled" \in States
  BY DEF TablesOK, RefreshTables, States, Pending
<1>2. lin \in [ArticleIds -> LineageState]
  <2>1. ASSUME NEW a \in ArticleIds PROVE [d.lin[a] EXCEPT !.cool = FALSE] \in LineageState
    <3>1. d.lin[a] \in LineageState
      BY <1>1
    <3> QED
      BY <3>1 DEF LineageState
  <2> QED
    BY <2>1
<1>3. rep \in [Assets -> RepairState]
  <2>1. ASSUME NEW x \in Assets PROVE [d.rep[x] EXCEPT !.cool = FALSE] \in RepairState
    <3>1. d.rep[x] \in RepairState
      BY <1>1
    <3> QED
      BY <3>1 DEF RepairState
  <2> QED
    BY <2>1
<1>4. ASSUME NEW x \in Assets, NEW g \in 1 .. MaxGen
      PROVE  /\ ent[x][g] \in Snapshots
             /\ DOMAIN ent[x][g] = DOMAIN d.ent[x][g]
             /\ \A o \in DOMAIN d.ent[x][g] :
                   /\ o \in S(x, g) => ent[x][g][o].st = "cooled"
                   /\ o \notin S(x, g) => ent[x][g][o] = d.ent[x][g][o]
  <2>1. d.ent[x][g] \in Snapshots /\ \A o \in DOMAIN d.ent[x][g] : d.ent[x][g][o] \in Entry
    BY <1>1, EntryTypes
  <2> DEFINE s == d.ent[x][g]
             T == S(x, g)
             m == Marked(s, T, "cooled")
  <2> HIDE DEF s, T
  <2>2. /\ m \in Snapshots /\ DOMAIN m = DOMAIN s
        /\ \A o \in DOMAIN s :
              /\ o \in T => m[o] = [s[o] EXCEPT !.st = "cooled"]
              /\ o \notin T => m[o] = s[o]
    BY <1>1, <2>1, MarkedEntries DEF s
  <2> HIDE DEF m
  <2>3. \A o \in DOMAIN s : o \in T => m[o].st = "cooled"
    BY <2>1, <2>2 DEF Entry, s
  <2>4. ent[x][g] = m
    BY DEF m, s, T
  <2> QED
    BY <2>2, <2>3, <2>4 DEF s, T
<1>5. ent \in [Assets -> [1 .. MaxGen -> Snapshots]]
  BY <1>4
<1>6. e = [d EXCEPT !.lin = lin, !.rep = rep, !.ent = ent]
  BY DEF Cooled
<1> HIDE DEF lin, rep, ent
<1>7. /\ e \in RefreshTables /\ e.gen = d.gen /\ e.ent = ent /\ e.jobs = d.jobs
      /\ e.art = d.art /\ e.listed = d.listed /\ e.rec = d.rec /\ e.link = d.link
  BY <1>1, <1>2, <1>3, <1>5, <1>6 DEF RefreshTables
<1>8. ASSUME NEW x \in Assets PROVE AssetOK(e, x)
  <2>1. ASSUME NEW g \in 1 .. MaxGen
        PROVE  /\ EntriesIn(e, x, g, Live) \subseteq EntriesIn(d, x, g, Live)
               /\ EntriesIn(e, x, g, {"in_flight"}) = EntriesIn(d, x, g, {"in_flight"})
               /\ \A o \in EntriesIn(d, x, g, {"in_flight"}) : e.ent[x][g][o] = d.ent[x][g][o]
    <3>1. /\ DOMAIN e.ent[x][g] = DOMAIN d.ent[x][g]
          /\ \A o \in DOMAIN d.ent[x][g] :
                \/ d.ent[x][g][o].st = "cooling" /\ e.ent[x][g][o].st = "cooled"
                \/ e.ent[x][g][o] = d.ent[x][g][o]
      BY <1>4, <1>7 DEF EntriesIn
    <3> QED
      BY <3>1 DEF EntriesIn, Live, Pending
  <2>2. AssetOK(d, x) /\ e.gen[x] = d.gen[x]
    BY <1>7 DEF TablesOK
  <2> QED
    BY <1>1, <1>7, <2>1, <2>2, FlightKept
<1>9. LinksOK(e)
  BY <1>1, <1>7 DEF LinksOK
<1> QED
  BY <1>7, <1>8, <1>9, FlightsKept

\* Snapshots are pruned when nothing in them is left to do.
LEMMA PrunedOK ==
    ASSUME NEW d, TablesOK(d), NEW e, e = prune_asset_refresh_state(d)
    PROVE  Inherits(d, e)
<1> DEFINE ent == [x \in Assets |-> [g \in 1 .. MaxGen |->
                      IF Prunable(d, x, g) THEN <<>> ELSE d.ent[x][g]]]
           d1 == [d EXCEPT !.ent = ent]
           orphan(x) == /\ d1.gen[x].chain = 0
                        /\ d1.gen[x].req = d1.gen[x].comp
                        /\ x \notin d1.rec
                        /\ \A g \in 1 .. MaxGen : d1.ent[x][g] = <<>>
                        /\ \A j \in Active(d1) : d1.jobs[j].asset # x
           gen == [x \in Assets |-> IF orphan(x) THEN NoRow ELSE d.gen[x]]
<1>1. /\ d \in RefreshTables /\ LinksOK(d) /\ d.gen \in [Assets -> Counters]
      /\ d.ent \in [Assets -> [1 .. MaxGen -> Snapshots]]
  BY DEF TablesOK, RefreshTables
<1>2. <<>> \in Snapshots
  <2>1. <<>> \in [1 .. 0 -> Entry]
    OBVIOUS
  <2> QED
    BY <2>1 DEF Snapshots
<1>3. ent \in [Assets -> [1 .. MaxGen -> Snapshots]]
  BY <1>1, <1>2
<1>4. NoRow \in Counters /\ NoRow.req = 0 /\ NoRow.comp = 0 /\ NoRow.served = 0 /\ NoRow.chain = 0
  BY RefreshConstants DEF NoRow, Counters
<1>5. \A x \in Assets, g \in 1 .. MaxGen :
         ent[x][g] = IF Prunable(d, x, g) THEN <<>> ELSE d.ent[x][g]
  OBVIOUS
<1> HIDE DEF ent
<1>6. /\ d1 \in RefreshTables /\ d1.gen = d.gen /\ d1.ent = ent /\ d1.jobs = d.jobs
      /\ d1.art = d.art /\ d1.listed = d.listed /\ d1.rec = d.rec /\ d1.link = d.link
  BY <1>1, <1>3 DEF RefreshTables
<1>7. e = [d1 EXCEPT !.gen = gen]
  BY DEF prune_asset_refresh_state, ent
<1> HIDE DEF d1
<1>8. gen \in [Assets -> Counters]
  BY <1>1, <1>4
<1>9. \A x \in Assets :
         \/ gen[x] = d.gen[x]
         \/ /\ gen[x] = NoRow /\ d1.gen[x].chain = 0
            /\ \A g \in 1 .. MaxGen : d1.ent[x][g] = <<>>
  OBVIOUS
<1> HIDE DEF gen
<1>10. /\ e \in RefreshTables /\ e.gen = gen /\ e.ent = ent /\ e.jobs = d.jobs
       /\ e.art = d.art /\ e.listed = d.listed /\ e.rec = d.rec /\ e.link = d.link
  BY <1>6, <1>7, <1>8 DEF RefreshTables
<1>11. ASSUME NEW x \in Assets PROVE AssetOK(d1, x)
  <2>1. ASSUME NEW g \in 1 .. MaxGen
        PROVE  /\ EntriesIn(d1, x, g, Live) \subseteq EntriesIn(d, x, g, Live)
               /\ EntriesIn(d1, x, g, {"in_flight"}) = EntriesIn(d, x, g, {"in_flight"})
               /\ \A o \in EntriesIn(d, x, g, {"in_flight"}) : d1.ent[x][g][o] = d.ent[x][g][o]
    <3>1. CASE d1.ent[x][g] = d.ent[x][g]
      BY <3>1 DEF EntriesIn
    <3>2. CASE d1.ent[x][g] = <<>> /\ Prunable(d, x, g)
      <4>1. EntriesIn(d, x, g, Pending \cup {"in_flight"}) = {}
        BY <3>2 DEF Prunable
      <4>2. EntriesIn(d, x, g, {"in_flight"}) = {}
        BY <4>1 DEF EntriesIn
      <4>3. DOMAIN d1.ent[x][g] = {}
        BY <3>2
      <4>4. EntriesIn(d1, x, g, Live) = {} /\ EntriesIn(d1, x, g, {"in_flight"}) = {}
        BY <4>3 DEF EntriesIn
      <4> QED
        BY <4>2, <4>4
    <3> QED
      BY <1>5, <1>6, <3>1, <3>2
  <2>2. AssetOK(d, x) /\ d1.gen[x] = d.gen[x]
    BY <1>6 DEF TablesOK
  <2> QED
    BY <1>1, <1>6, <2>1, <2>2, FlightKept
<1>12. ASSUME NEW x \in Assets PROVE AssetOK(e, x)
  <2>1. Carriers(e, x) = Carriers(d1, x) /\ RepairsOf(e, x) = RepairsOf(d1, x)
    BY <1>6, <1>10, SameJobs
  <2>2. e.ent[x] = d1.ent[x] /\ e.jobs = d1.jobs
    BY <1>6, <1>10
  <2>3. CASE gen[x] = d.gen[x]
    <3>1. e.gen[x] = d1.gen[x]
      BY <1>6, <1>10, <2>3
    <3>2. \A j \in Carriers(d1, x) : SameTask(d1, e, j)
      BY <2>2 DEF SameTask
    <3> QED
      BY <1>6, <1>11, <2>1, <2>2, <3>1, <3>2, AssetKept DEF AssetOK
  <2>4. CASE /\ gen[x] = NoRow /\ d1.gen[x].chain = 0
             /\ \A g \in 1 .. MaxGen : d1.ent[x][g] = <<>>
    <3>1. \A g \in 1 .. MaxGen : \A K : EntriesIn(e, x, g, K) = {}
      BY <2>2, <2>4 DEF EntriesIn
    <3>2. e.gen[x] = NoRow
      BY <1>10, <2>4
    <3>3. CountersOK(e, x)
      BY <1>4, <3>1, <3>2 DEF CountersOK
    <3>4. Carriers(d1, x) = {}
      BY <1>11, <2>4 DEF AssetOK, SlotOK, Idle
    <3>5. SlotOK(e, x)
      BY <1>4, <2>1, <3>1, <3>2, <3>4 DEF SlotOK, Idle
    <3>6. RepairOK(e, x)
      BY <1>4, <3>2 DEF RepairOK
    <3> QED
      BY <3>3, <3>5, <3>6 DEF AssetOK
  <2> QED
    BY <1>9, <2>3, <2>4
<1>13. LinksOK(e)
  BY <1>1, <1>10 DEF LinksOK
<1> QED
  BY <1>10, <1>12, <1>13, FlightsKept

\* Records without an article go, with nothing that is in flight.
LEMMA OrphansOK ==
    ASSUME NEW d, TablesOK(d), NEW e, e = DeleteOrphanRecords(d)
    PROVE  Inherits(d, e)
<1> DEFINE orphan == {x \in d.rec : (\A a \in ArticleIds : <<x, a>> \notin d.link)
                                    /\ RepairsOf(d, x) = {}}
           rec == d.rec \ orphan
           rep == [x \in Assets |-> IF x \in orphan THEN Fresh ELSE d.rep[x]]
           body == [x \in Assets |-> IF x \in orphan THEN "gone" ELSE d.body[x]]
<1>1. /\ d \in RefreshTables /\ LinksOK(d) /\ d.rec \in SUBSET Assets /\ d.art \in SUBSET ArticleIds
      /\ d.rep \in [Assets -> RepairState] /\ d.body \in [Assets -> {"present", "queued", "gone"}]
  BY DEF TablesOK, RefreshTables
<1>2. rep \in [Assets -> RepairState] /\ body \in [Assets -> {"present", "queued", "gone"}] /\ rec \in SUBSET Assets
  BY <1>1, FreshLineage
<1>3. d.link \subseteq rec \X d.art
  BY <1>1 DEF LinksOK
<1>4. e = [d EXCEPT !.rec = rec, !.rep = rep, !.body = body]
  BY DEF DeleteOrphanRecords
<1> HIDE DEF rec, rep, body
<1>5. /\ e \in RefreshTables /\ e.gen = d.gen /\ e.ent = d.ent /\ e.jobs = d.jobs
      /\ e.art = d.art /\ e.listed = d.listed /\ e.rec = rec /\ e.link = d.link
  BY <1>1, <1>2, <1>4 DEF RefreshTables
<1>6. LinksOK(e)
  BY <1>1, <1>3, <1>5 DEF LinksOK
<1> QED
  BY <1>5, <1>6, SameRefreshState

-----------------------------------------------------------------------------
(* Handlers. *)

\* What a handler call does to the phases of its loop.
LEMMA HandlersStay ==
    ASSUME HandlersOK(db), Heirs(db, db'), UNCHANGED worker
    PROVE  HandlersOK(db)'
  BY DEF HandlersOK, Heirs

\* The handler that returns leaves the others where they are.
LEMMA CallEnds ==
    ASSUME HandlersOK(db), Heirs(db, db'), NEW w \in Workers, EndCall(w)
    PROVE  HandlersOK(db)'
<1> DEFINE H == [job : JobIds \cup {Nil}, ph : Phases, sup : BOOLEAN]
<1>1. IdleWorker \in H /\ IdleWorker.ph = "idle"
  BY DEF IdleWorker, Phases
<1>2. worker \in [Workers -> H]
  BY DEF HandlersOK
<1>3. /\ worker' \in [Workers -> H] /\ worker'[w] = IdleWorker
      /\ \A v \in Workers \ {w} : worker'[v] = worker[v]
  BY <1>1, <1>2 DEF EndCall
<1> HIDE DEF H
<1>4. ASSUME NEW v \in Workers
      PROVE  /\ worker'[v].ph \in RepairPhases /\ worker'[v].job \in Active(db')
                   => db'.jobs[worker'[v].job].type = "repair"
             /\ worker'[v].ph \in RefreshPhases /\ worker'[v].job \in Active(db')
                   => db'.jobs[worker'[v].job].type = "refresh"
  <2>1. CASE v = w
    BY Zenon, <1>1, <1>3, <2>1 DEF RepairPhases, RefreshPhases
  <2>2. CASE v # w
    BY <1>3, <2>2 DEF HandlersOK, Heirs
  <2> QED
    BY <2>1, <2>2
<1> QED
  BY <1>3, <1>4 DEF HandlersOK, H

\* A handler goes on with the job it has.
LEMMA CallProceeds ==
    ASSUME HandlersOK(db), Heirs(db, db'), NEW w \in Workers, NEW ph \in Phases, Proceed(w, ph),
           ph \in RepairPhases => worker[w].ph \in RepairPhases,
           ph \in RefreshPhases => worker[w].ph \in RefreshPhases
    PROVE  HandlersOK(db)'
<1> DEFINE H == [job : JobIds \cup {Nil}, ph : Phases, sup : BOOLEAN]
<1>2. worker \in [Workers -> H]
  BY DEF HandlersOK
<1>1. worker[w] \in H
  BY <1>2
<1>3. /\ worker' \in [Workers -> H] /\ worker'[w].job = worker[w].job /\ worker'[w].ph = ph
      /\ \A v \in Workers \ {w} : worker'[v] = worker[v]
  BY <1>1, <1>2 DEF Proceed
<1> HIDE DEF H
<1>4. ASSUME NEW v \in Workers
      PROVE  /\ worker'[v].ph \in RepairPhases /\ worker'[v].job \in Active(db')
                   => db'.jobs[worker'[v].job].type = "repair"
             /\ worker'[v].ph \in RefreshPhases /\ worker'[v].job \in Active(db')
                   => db'.jobs[worker'[v].job].type = "refresh"
  <2>1. CASE v = w
    BY <1>3, <2>1 DEF HandlersOK, Heirs
  <2>2. CASE v # w
    BY <1>3, <2>2 DEF HandlersOK, Heirs
  <2> QED
    BY <2>1, <2>2
<1> QED
  BY <1>3, <1>4 DEF HandlersOK, H

\* The job of a handler that holds its lease, or that found its row.
LEMMA OwnJob ==
    ASSUME RefreshIInv, NEW w \in Workers, worker[w].job \in Active(db)
    PROVE  /\ worker[w].ph \in RepairPhases => worker[w].job \in Repairs(db)
           /\ worker[w].ph \in RefreshPhases => worker[w].job \in Refreshes(db)
           /\ Target(w) \in Assets
<1>1. db \in RefreshTables /\ HandlersOK(db)
  BY DEF RefreshIInv, TablesOK
<1>2. db.jobs[worker[w].job] \in RepairRow \cup RefreshRow
  BY <1>1, RowTypes
<1>3. Target(w) \in Assets
  BY <1>2 DEF Target, RepairRow, RefreshRow
<1> QED
  BY <1>1, <1>3 DEF HandlersOK, Repairs, Refreshes

-----------------------------------------------------------------------------
(* The actions.  What each leaves of the tables is a lemma above. *)

\* A transaction, and what the loops make of it.
LEMMA Stepped ==
    ASSUME RefreshIInv, Inherits(db, db') \/ Sound(db, db'), HandlersOK(db)'
    PROVE  RefreshIInv'
<1>1. Cardinality(Active(db)) <= MaxPending
  BY DEF RefreshIInv
<1>2. Sound(db, db')
  BY <1>1, InheritsSound
<1> QED
  BY <1>2 DEF RefreshIInv, Sound

\* A step that leaves the tables alone.
LEMMA Undisturbed ==
    ASSUME RefreshIInv, UNCHANGED db, HandlersOK(db)'
    PROVE  RefreshIInv'
  BY DEF RefreshIInv

\* No transaction gives a handler another job.
LEMMA HeirsOf ==
    ASSUME NEW d, NEW e, Inherits(d, e) \/ Sound(d, e) \/ e = d
    PROVE  Heirs(d, e)
  BY DEF Inherits, Sound, Heirs

\* A public request for an asset whose blob is gone.
LEMMA PublicMissStep ==
    ASSUME RefreshIInv, NEW x \in Assets, PublicMiss(x)
    PROVE  RefreshIInv'
<1>1. Sound(db, db')
  BY EnqueueOK DEF RefreshIInv, PublicMiss, GenRoom
<1>2. HandlersOK(db)'
  BY <1>1, HeirsOf, HandlersStay DEF RefreshIInv, PublicMiss
<1> QED
  BY <1>1, <1>2, Stepped

\* A loop claims a job and starts the handler of its kind.
LEMMA ClaimStep ==
    ASSUME RefreshIInv, NEW w \in Workers, NEW j \in JobIds, Claim(w, j)
    PROVE  RefreshIInv'
<1> DEFINE H == [job : JobIds \cup {Nil}, ph : Phases, sup : BOOLEAN]
           c == [job |-> j, ph |-> IF db.jobs[j].type = "repair" THEN "repair load"
                                   ELSE "refresh load", sup |-> FALSE]
<1>1. j \in Active(db) /\ db.jobs[j].st = "queued" /\ db' = StartJob(db, j, w) /\ TablesOK(db)
      /\ HandlersOK(db) /\ db \in RefreshTables
  BY Zenon DEF Claim, Active, RefreshIInv, TablesOK
<1>2. /\ Inherits(db, db') /\ Active(db') = Active(db)
      /\ \A i \in Active(db) : db'.jobs[i].type = db.jobs[i].type
  BY <1>1, StartOK
<1>3. c \in H /\ c.job = j
  BY DEF Phases, RepairPhases, RefreshPhases
<1>4. \/ c.ph = "repair load" /\ db.jobs[j].type = "repair"
      \/ c.ph = "refresh load" /\ db.jobs[j].type = "refresh"
  <2>1. db.jobs[j].type \in {"repair", "refresh"}
    BY <1>1, RowTypes DEF Repairs, Refreshes
  <2> QED
    BY <2>1
<1>5. worker' = [worker EXCEPT ![w] = c]
  BY Zenon DEF Claim
<1> HIDE DEF c
<1>6. worker \in [Workers -> H]
  BY <1>1 DEF HandlersOK
<1>7. /\ worker' \in [Workers -> H] /\ worker'[w] = c
      /\ \A v \in Workers \ {w} : worker'[v] = worker[v]
  BY <1>3, <1>5, <1>6
<1> HIDE DEF H
<1>8. ASSUME NEW v \in Workers
      PROVE  /\ worker'[v].ph \in RepairPhases /\ worker'[v].job \in Active(db')
                   => db'.jobs[worker'[v].job].type = "repair"
             /\ worker'[v].ph \in RefreshPhases /\ worker'[v].job \in Active(db')
                   => db'.jobs[worker'[v].job].type = "refresh"
  <2>1. CASE v = w
    BY Zenon, <1>1, <1>2, <1>3, <1>4, <1>7, <2>1 DEF RepairPhases, RefreshPhases
  <2>2. CASE v # w
    BY <1>1, <1>2, <1>7, <2>2 DEF HandlersOK
  <2> QED
    BY <2>1, <2>2
<1>9. HandlersOK(db)'
  BY <1>7, <1>8 DEF HandlersOK, H
<1> QED
  BY <1>2, <1>9, Stepped

\* Another process claims a job.
LEMMA ClaimElsewhereStep ==
    ASSUME RefreshIInv, NEW j \in JobIds, ClaimElsewhere(j)
    PROVE  RefreshIInv'
<1>1. j \in Active(db) /\ db.jobs[j].st = "queued" /\ db' = StartJob(db, j, Elsewhere) /\ TablesOK(db)
  BY DEF ClaimElsewhere, Active, RefreshIInv
<1>2. Inherits(db, db')
  BY <1>1, StartOK
<1>3. HandlersOK(db)'
  BY <1>2, HeirsOf, HandlersStay DEF RefreshIInv, ClaimElsewhere
<1> QED
  BY <1>2, <1>3, Stepped

\* A handler step that ends the call, or that only goes on.
LEMMA EndStep ==
    ASSUME RefreshIInv, NEW w \in Workers, EndCall(w),
           Inherits(db, db') \/ Sound(db, db') \/ UNCHANGED db
    PROVE  RefreshIInv'
<1>1. HandlersOK(db)'
  BY HeirsOf, CallEnds DEF RefreshIInv
<1> QED
  BY <1>1, Stepped, Undisturbed

\* A step of a handler that goes on.
LEMMA ProceedStep ==
    ASSUME RefreshIInv, NEW w \in Workers, NEW ph \in Phases, Proceed(w, ph),
           ph \in RepairPhases => worker[w].ph \in RepairPhases,
           ph \in RefreshPhases => worker[w].ph \in RefreshPhases,
           Inherits(db, db') \/ Sound(db, db') \/ UNCHANGED db
    PROVE  RefreshIInv'
<1>1. HandlersOK(db)'
  BY HeirsOf, CallProceeds DEF RefreshIInv
<1> QED
  BY <1>1, Stepped, Undisturbed

\* The fence holds only for a running job.
LEMMA LiveLease ==
    ASSUME NEW w, lock_live_repair_lease(db, w)
    PROVE  worker[w].job \in Active(db) /\ db.jobs[worker[w].job].st = "running"
  BY DEF lock_live_repair_lease

\* The first step of a repair: restored already, given up, deferred, or to be fetched.
LEMMA RepairLoadStep ==
    ASSUME RefreshIInv, NEW w \in Workers, RepairLoad(w)
    PROVE  RefreshIInv'
<1>1. worker[w].ph \in RepairPhases /\ {"complete", "fail", "repair fetch"} \subseteq Phases
      /\ "fail" \notin RepairPhases \cup RefreshPhases
      /\ "complete" \notin RefreshPhases /\ "repair fetch" \notin RefreshPhases
  BY Zenon DEF RepairLoad, Phases, RepairPhases, RefreshPhases
<1>2. CASE EndCall(w) /\ UNCHANGED db
  BY <1>2, EndStep
<1>3. CASE Proceed(w, "complete") /\ UNCHANGED db
  BY Zenon, <1>1, <1>3, ProceedStep
<1>4. CASE Proceed(w, "fail") /\ UNCHANGED db
  BY Zenon, <1>1, <1>4, ProceedStep
<1>5. CASE Proceed(w, "repair fetch") /\ UNCHANGED db
  BY Zenon, <1>1, <1>5, ProceedStep
<1>6. CASE EndCall(w) /\ lock_live_repair_lease(db, w) /\ db' = DeferJob(db, worker[w].job)
  <2>1. Inherits(db, db')
    BY <1>6, LiveLease, DeferOK DEF RefreshIInv
  <2> QED
    BY <1>6, <2>1, EndStep
<1> QED
  BY Zenon, <1>2, <1>3, <1>4, <1>5, <1>6 DEF RepairLoad

\* A repair that got the bytes.
LEMMA RestoreStep ==
    ASSUME RefreshIInv, NEW w \in Workers, RestoreMissingAsset(w)
    PROVE  RefreshIInv'
<1>1. worker[w].ph \in RepairPhases /\ "complete" \in Phases /\ "complete" \notin RefreshPhases
      /\ worker[w].job \in Active(db) /\ Proceed(w, "complete")
  BY Zenon DEF RestoreMissingAsset, Phases, RepairPhases, RefreshPhases
<1>2. CASE UNCHANGED db
  BY <1>1, <1>2, ProceedStep
<1>3. CASE db' = [db EXCEPT !.body[Target(w)] = "present"]
  <2>1. db' = WithBody(db, Target(w), "present")
    BY <1>3 DEF WithBody
  <2>2. Inherits(db, db')
    BY <1>1, <2>1, OwnJob, BodyOK DEF RefreshIInv
  <2> QED
    BY <1>1, <2>2, ProceedStep
<1> QED
  BY Zenon, <1>2, <1>3 DEF RestoreMissingAsset

\* A repair that learns that the image address expired.
LEMMA ConfirmedExpiryStep ==
    ASSUME RefreshIInv, NEW w \in Workers, ConfirmedExpiry(w)
    PROVE  RefreshIInv'
<1>1. worker[w].ph \in RepairPhases /\ lock_live_repair_lease(db, w)
  BY Zenon DEF ConfirmedExpiry, RepairPhases
<1>2. worker[w].job \in Repairs(db)
  BY <1>1, LiveLease, OwnJob
<1>3. Inherits(db, db')
  BY Zenon, <1>2, ConfirmedExpiryOK DEF RefreshIInv, ConfirmedExpiry, GenRoom, Target, Inherits
<1> QED
  BY Zenon, <1>3, EndStep DEF ConfirmedExpiry

\* A repair that failed: the circuit opens or the attempts are used up.
LEMMA RecordFailureStep ==
    ASSUME RefreshIInv, NEW w \in Workers, RecordRepairFailure(w)
    PROVE  RefreshIInv'
<1> DEFINE x == Target(w)
           exhausted == x \in db.rec /\ db.rep[x].att >= RepairMaxAttempts
           r == [db.rep[x] EXCEPT !.cool = TRUE, !.exh = exhausted]
<1>1. {"retry", "fail"} \subseteq Phases /\ "retry" \notin RepairPhases \cup RefreshPhases
      /\ "fail" \notin RepairPhases \cup RefreshPhases
  BY DEF Phases, RepairPhases, RefreshPhases
<1>2. CASE ~lock_live_repair_lease(db, w)
  BY Zenon, <1>1, <1>2, ProceedStep DEF RecordRepairFailure
<1>3. CASE lock_live_repair_lease(db, w)
  <2>1. x \in Assets
    BY <1>3, LiveLease, OwnJob
  <2>2. Proceed(w, "fail") \/ Proceed(w, "retry")
    BY Zenon, <1>3 DEF RecordRepairFailure
  <2>3. Inherits(db, db') \/ UNCHANGED db
    <3>1. CASE x \in db.rec
      <4>1. db' = WithRep(db, x, r)
        BY Zenon, <1>3, <3>1 DEF RecordRepairFailure, WithRep
      <4>2. r \in RepairState
        <5>1. db.rep[x] \in RepairState
          BY <2>1 DEF RefreshIInv, TablesOK, RefreshTables
        <5>2. exhausted \in BOOLEAN
          OBVIOUS
        <5> HIDE DEF exhausted
        <5> QED
          BY <5>1, <5>2 DEF RepairState
      <4> HIDE DEF r
      <4> QED
        BY <2>1, <4>1, <4>2, RepOK DEF RefreshIInv
    <3>2. CASE x \notin db.rec
      BY Zenon, <1>3, <3>2 DEF RecordRepairFailure
    <3> QED
      BY <3>1, <3>2
  <2> QED
    BY <1>1, <2>2, <2>3, ProceedStep
<1> QED
  BY <1>2, <1>3

\* A repair that closes the circuit.
LEMMA CompleteRepairStep ==
    ASSUME RefreshIInv, NEW w \in Workers, CompleteRepair(w)
    PROVE  RefreshIInv'
<1>1. {"retry", "succeed"} \subseteq Phases /\ "retry" \notin RepairPhases \cup RefreshPhases
      /\ "succeed" \notin RefreshPhases /\ worker[w].ph \in RepairPhases
  BY DEF CompleteRepair, Phases, RepairPhases, RefreshPhases
<1>2. CASE ~lock_live_repair_lease(db, w)
  BY <1>1, <1>2, ProceedStep DEF CompleteRepair
<1>3. CASE lock_live_repair_lease(db, w)
  <2>1. Target(w) \in Assets
    BY <1>3, LiveLease, OwnJob
  <2>2. db' = WithRep(db, Target(w), Fresh)
    BY <1>3 DEF CompleteRepair, WithRep
  <2>3. Inherits(db, db')
    BY <2>1, <2>2, FreshLineage, RepOK DEF RefreshIInv
  <2> QED
    BY <1>1, <1>3, <2>3, ProceedStep DEF CompleteRepair
<1> QED
  BY <1>2, <1>3

\* The outcome a handler returned is applied to its job.
LEMMA ApplyOutcomeStep ==
    ASSUME RefreshIInv, NEW w \in Workers, ApplyOutcome(w)
    PROVE  RefreshIInv'
<1> DEFINE j == worker[w].job
<1>1. CASE ~lock_live_repair_lease(db, w)
  BY <1>1, EndStep DEF ApplyOutcome
<1>2. CASE lock_live_repair_lease(db, w)
  <2>1. j \in Active(db) /\ TablesOK(db)
    BY <1>2, LiveLease DEF RefreshIInv
  <2>2. CASE worker[w].ph = "succeed"
    <3>1. j \in Repairs(db)
      BY Zenon, <2>1, <2>2, OwnJob DEF RepairPhases
    <3>2. db' = RemoveJob(db, j)
      BY <1>2, <2>2 DEF ApplyOutcome
    <3> QED
      BY <2>1, <3>1, <3>2, EndRepairOK, EndStep DEF ApplyOutcome
  <2>3. CASE worker[w].ph = "retry"
    <3>1. db' = RequeueJob(db, j)
      BY <1>2, <2>3 DEF ApplyOutcome
    <3> QED
      BY <2>1, <3>1, RequeueOK, EndStep DEF ApplyOutcome
  <2>4. CASE worker[w].ph = "fail"
    <3>1. db' = FailJob(db, j)
      BY <1>2, <2>4 DEF ApplyOutcome
    <3> QED
      BY <2>1, <3>1, FailOK, EndStep DEF ApplyOutcome
  <2> QED
    BY <2>2, <2>3, <2>4 DEF ApplyOutcome
<1> QED
  BY <1>1, <1>2

\* The first step of a refresh, which may find that its entry is gone.
LEMMA RefreshLoadStep ==
    ASSUME RefreshIInv, NEW w \in Workers, RefreshLoad(w)
    PROVE  RefreshIInv'
<1>1. {"retry", "refresh fetch"} \subseteq Phases /\ "retry" \notin RepairPhases \cup RefreshPhases
      /\ "refresh fetch" \notin RepairPhases /\ worker[w].ph \in RefreshPhases
  BY Zenon DEF RefreshLoad, Phases, RepairPhases, RefreshPhases
<1>2. CASE ~lock_live_repair_lease(db, w)
  BY Zenon, <1>1, <1>2, ProceedStep DEF RefreshLoad
<1>3. CASE lock_live_repair_lease(db, w)
  <2>1. worker[w].job \in Refreshes(db) /\ TablesOK(db)
    BY Zenon, <1>1, <1>3, LiveLease, OwnJob DEF RefreshIInv
  <2>2. begin_article_refresh(db, worker[w].job)
    BY <2>1, HasEntry
  <2>3. Proceed(w, "refresh fetch") /\ UNCHANGED db
    BY Zenon, <1>3, <2>2 DEF RefreshLoad
  <2> QED
    BY Zenon, <1>1, <2>3, ProceedStep
<1> QED
  BY <1>2, <1>3

\* The last transaction of a refresh.
LEMMA RefreshFinalizeStep ==
    ASSUME RefreshIInv, NEW w \in Workers, NEW f \in BOOLEAN, NEW keep \in SUBSET Assets,
           RefreshFinalize(w, f, keep)
    PROVE  RefreshIInv'
<1> DEFINE j == worker[w].job
           t == db.jobs[j]
           outcome == RefreshOutcome(w, t, f)
           link == {p \in db.link : p[2] # t.art \/ p[1] \in keep}
           relinked == [db EXCEPT !.link = link]
           d == IF outcome = "succeeded" THEN relinked ELSE db
<1>1. /\ worker[w].ph \in RefreshPhases /\ lock_live_repair_lease(db, w) /\ RoomForJob(db)
      /\ EndCall(w) /\ TablesOK(db)
  BY Zenon DEF RefreshFinalize, RefreshPhases, RefreshIInv
<1>2. j \in Refreshes(db)
  BY <1>1, LiveLease, OwnJob
<1>3. begin_article_refresh(db, j)
  BY <1>1, <1>2, HasEntry
<1>4. db' = finish_article_refresh_in_transaction(d, j, outcome)
  BY Zenon, <1>3 DEF RefreshFinalize
<1>5. Inherits(db, d) /\ d.jobs = db.jobs
  <2>1. CASE d = db
    <3>1. Heirs(db, db) /\ Cardinality(Active(db)) <= Cardinality(Active(db))
      BY HeirsOf, ActiveFinite
    <3> QED
      BY <1>1, <2>1, <3>1 DEF Inherits
  <2>2. CASE d = relinked
    <3>1. db \in RefreshTables /\ db.art \subseteq db.listed /\ link \subseteq db.rec \X db.art
      BY <1>1 DEF TablesOK, LinksOK
    <3>2. relinked = WithArticles(db, db.art, link) /\ relinked.jobs = db.jobs
      BY <3>1 DEF WithArticles, RefreshTables
    <3> HIDE DEF link, relinked, d
    <3>3. Inherits(db, relinked)
      BY <1>1, <3>1, <3>2, ArticlesOK
    <3> QED
      BY <2>2, <3>2, <3>3
  <2> QED
    BY <2>1, <2>2
<1> HIDE DEF d, outcome
<1>6. TablesOK(d) /\ j \in Refreshes(d) /\ RoomForJob(d)
  BY <1>1, <1>2, <1>5, SameJobs DEF Inherits, RoomForJob
<1>7. Inherits(d, db')
  BY <1>4, <1>6, FinishOK DEF Inherits
<1>8. Inherits(db, db')
  BY <1>5, <1>7, InheritsTrans
<1> QED
  BY <1>1, <1>8, EndStep

\* A refresh whose lease is gone or that could not fetch.
LEMMA RefreshRetryStep ==
    ASSUME RefreshIInv, NEW w \in Workers, RefreshRetry(w)
    PROVE  RefreshIInv'
<1>1. "retry" \in Phases /\ "retry" \notin RepairPhases \cup RefreshPhases
  BY DEF Phases, RepairPhases, RefreshPhases
<1> QED
  BY Zenon, <1>1, ProceedStep DEF RefreshRetry

\* Recovery takes a job whose lease passed back.
LEMMA RecoverExpiredStep ==
    ASSUME RefreshIInv, NEW j \in JobIds, RecoverExpired(j)
    PROVE  RefreshIInv'
<1>1. j \in Active(db) /\ TablesOK(db)
  BY DEF RecoverExpired, Active, RefreshIInv
<1>2. Inherits(db, db')
  BY <1>1, RequeueOK DEF RecoverExpired
<1>3. HandlersOK(db)'
  BY <1>2, HeirsOf, HandlersStay DEF RefreshIInv, RecoverExpired
<1> QED
  BY <1>2, <1>3, Stepped

\* An operator cancels a job.
LEMMA CancelStep ==
    ASSUME RefreshIInv, NEW j \in JobIds, Cancel(j)
    PROVE  RefreshIInv'
<1>1. j \in Active(db) /\ TablesOK(db)
  BY DEF Cancel, Active, RefreshIInv
<1>2. Inherits(db, db')
  BY <1>1, FailOK DEF Cancel
<1>3. HandlersOK(db)'
  BY <1>2, HeirsOf, HandlersStay DEF RefreshIInv, Cancel
<1> QED
  BY <1>2, <1>3, Stepped

\* A synchronization acquires an article anew.
LEMMA AcquireArticleStep ==
    ASSUME RefreshIInv, NEW a \in ArticleIds, NEW keep \in SUBSET Assets, NEW n \in BOOLEAN,
           AcquireArticle(a, keep, n)
    PROVE  RefreshIInv'
<1> DEFINE art == db.art \cup {a}
           link == {p \in db.link : p[2] # a} \cup (keep \X {a})
           d == [db EXCEPT !.art = art, !.link = link]
<1>1. TablesOK(db) /\ db \in RefreshTables /\ Cardinality(Active(db)) <= MaxPending /\ HandlersOK(db)
  BY DEF RefreshIInv, TablesOK
<1>2. art \subseteq db.listed /\ link \subseteq db.rec \X art
  <2>1. a \in db.listed /\ keep \subseteq db.rec
    BY Zenon DEF AcquireArticle, BlobPresent
  <2> QED
    BY <1>1, <2>1 DEF TablesOK, LinksOK
<1>3. db' = reset_article_refresh_lineage(d, a)
  BY Zenon DEF AcquireArticle
<1>4. d = WithArticles(db, art, link)
  BY DEF WithArticles
<1> HIDE DEF art, link, d
<1>5. Inherits(db, d)
  BY <1>1, <1>2, <1>4, ArticlesOK
<1>6. Sound(db, d)
  BY <1>1, <1>5, InheritsSound
<1>7. Sound(d, db')
  BY <1>3, <1>6, ResetOK DEF Sound
<1>8. Sound(db, db')
  BY <1>6, <1>7, HeirsTrans DEF Sound
<1>9. HandlersOK(db)'
  <2> DEFINE H == [job : JobIds \cup {Nil}, ph : Phases, sup : BOOLEAN]
  <2>1. worker \in [Workers -> H]
    BY <1>1 DEF HandlersOK
  <2>2. ASSUME NEW v \in Workers
        PROVE  worker'[v] \in H /\ worker'[v].job = worker[v].job /\ worker'[v].ph = worker[v].ph
    <3>1. worker[v] \in H
      BY <2>1
    <3>2. worker'[v] = worker[v] \/ worker'[v] = [worker[v] EXCEPT !.sup = TRUE]
      BY Zenon DEF AcquireArticle
    <3> QED
      BY <3>1, <3>2
  <2>3. worker' = [v \in Workers |-> worker'[v]]
    BY Zenon DEF AcquireArticle
  <2> HIDE DEF H
  <2>4. worker' \in [Workers -> H]
    BY <2>2, <2>3
  <2>5. Heirs(db, db')
    BY <1>8, HeirsOf
  <2> QED
    BY <1>1, <2>2, <2>4, <2>5 DEF HandlersOK, Heirs, H
<1> QED
  BY <1>8, <1>9, Stepped

\* An article goes with its source.
LEMMA DeleteArticleStep ==
    ASSUME RefreshIInv, NEW a \in ArticleIds, DeleteArticle(a)
    PROVE  RefreshIInv'
<1> DEFINE art == db.art \ {a}
           link == {p \in db.link : p[2] # a}
           d == WithArticles(db, art, link)
<1>1. TablesOK(db) /\ db \in RefreshTables
  BY DEF RefreshIInv, TablesOK
<1>2. art \subseteq db.listed /\ link \subseteq db.rec \X art
  BY <1>1 DEF TablesOK, LinksOK
<1>3. db' = WithLin(d, a, Fresh)
  BY <1>1 DEF DeleteArticle, WithLin, WithArticles, RefreshTables
<1> HIDE DEF art, link
<1>4. Inherits(db, d)
  BY <1>1, <1>2, ArticlesOK
<1> HIDE DEF d
<1>5. Inherits(d, db')
  BY <1>3, <1>4, FreshLineage, LinOK DEF Inherits
<1>6. Inherits(db, db')
  BY <1>4, <1>5, InheritsTrans
<1>7. HandlersOK(db)'
  BY <1>6, HeirsOf, HandlersStay DEF RefreshIInv, DeleteArticle
<1> QED
  BY <1>6, <1>7, Stepped

\* A blob is evicted, and later deleted.
LEMMA EvictStep ==
    ASSUME RefreshIInv, NEW x \in Assets, Evict(x) \/ DrainDeletion(x)
    PROVE  RefreshIInv'
<1>1. db' = WithBody(db, x, "queued") \/ db' = WithBody(db, x, "gone")
  BY DEF Evict, DrainDeletion, WithBody
<1>2. Inherits(db, db')
  BY <1>1, BodyOK DEF RefreshIInv
<1>3. HandlersOK(db)'
  BY <1>2, HeirsOf, HandlersStay DEF RefreshIInv, Evict, DrainDeletion
<1> QED
  BY <1>2, <1>3, Stepped

\* The clock passes the cooldowns.
LEMMA CooldownEndsStep ==
    ASSUME RefreshIInv, CooldownEnds
    PROVE  RefreshIInv'
<1>1. db' = Cooled(db)
  BY DEF CooldownEnds, Cooled
<1>2. Inherits(db, db')
  BY <1>1, CooledOK DEF RefreshIInv
<1>3. HandlersOK(db)'
  BY <1>2, HeirsOf, HandlersStay DEF RefreshIInv, CooldownEnds
<1> QED
  BY <1>2, <1>3, Stepped

\* Maintenance resumes a generation that nobody works on.
LEMMA ResumeStep ==
    ASSUME RefreshIInv, NEW x \in Assets, ResumePendingRefresh(x)
    PROVE  RefreshIInv'
<1>1. Sound(db, db')
  BY ResumeSound DEF RefreshIInv, ResumePendingRefresh, ResumeCandidate
<1>2. HandlersOK(db)'
  BY <1>1, HeirsOf, HandlersStay DEF RefreshIInv, ResumePendingRefresh
<1> QED
  BY <1>1, <1>2, Stepped

\* Maintenance prunes refresh state and orphan records.
LEMMA MaintainStep ==
    ASSUME RefreshIInv, MaintainRefreshes
    PROVE  RefreshIInv'
<1> DEFINE d == prune_asset_refresh_state(db)
<1>1. Inherits(db, d)
  BY PrunedOK DEF RefreshIInv
<1>2. db' = DeleteOrphanRecords(d)
  BY DEF MaintainRefreshes
<1> HIDE DEF d
<1>3. Inherits(d, db')
  BY <1>1, <1>2, OrphansOK DEF Inherits
<1>4. Inherits(db, db')
  BY <1>1, <1>3, InheritsTrans
<1>5. HandlersOK(db)'
  BY <1>4, HeirsOf, HandlersStay DEF RefreshIInv, MaintainRefreshes
<1> QED
  BY <1>4, <1>5, Stepped

-----------------------------------------------------------------------------
(* The theorems. *)

\* The first tables, which have no generation and no job, are in order.
LEMMA RefreshInitOK ==
    ASSUME RefreshInit
    PROVE  RefreshIInv
<1>1. PICK first \in FirstTables : db =
         [rec |-> first[1], art |-> first[2], link |-> first[1] \X first[2],
          listed |-> first[2], body |-> [x \in Assets |-> "gone"],
          rep |-> [x \in Assets |-> Fresh],
          lin |-> [a \in ArticleIds |-> Fresh],
          gen |-> [x \in Assets |-> NoRow],
          ent |-> [x \in Assets |-> [g \in 1 .. MaxGen |-> <<>>]],
          jobs |-> [j \in JobIds |-> NoJob]]
  BY DEF RefreshInit
<1>2. first[1] \in SUBSET Assets /\ first[2] \in SUBSET ArticleIds
  BY RefreshConstants
<1>3. NoRow \in Counters /\ NoRow.req = 0 /\ NoRow.comp = 0 /\ NoRow.served = 0 /\ NoRow.chain = 0
  BY RefreshConstants DEF NoRow, Counters
<1>4. <<>> \in Snapshots
  <2>1. <<>> \in [1 .. 0 -> Entry]
    OBVIOUS
  <2> QED
    BY <2>1 DEF Snapshots
<1>5. db \in RefreshTables /\ LinksOK(db)
  <2>1. [x \in Assets |-> Fresh] \in [Assets -> RepairState] /\ [a \in ArticleIds |-> Fresh] \in [ArticleIds -> LineageState]
    BY FreshLineage
  <2>2. [x \in Assets |-> NoRow] \in [Assets -> Counters]
        /\ [x \in Assets |-> [g \in 1 .. MaxGen |-> <<>>]] \in [Assets -> [1 .. MaxGen -> Snapshots]]
        /\ [j \in JobIds |-> NoJob] \in [JobIds -> JobRows]
    BY <1>3, <1>4 DEF JobRows
  <2>3. [x \in Assets |-> "gone"] \in [Assets -> {"present", "queued", "gone"}]
    OBVIOUS
  <2> QED
    BY <1>1, <1>2, <2>1, <2>2, <2>3 DEF RefreshTables, LinksOK
<1>6. Active(db) = {}
  BY <1>1 DEF Active
<1>7. Repairs(db) = {} /\ Refreshes(db) = {}
  BY <1>6 DEF Repairs, Refreshes
<1>8. JobsOK(db)
  BY <1>6, <1>7 DEF JobsOK, ChargesOK, Exclusive
<1>9. ASSUME NEW x \in Assets PROVE AssetOK(db, x)
  <2>1. db.gen[x] = NoRow /\ \A g \in 1 .. MaxGen : db.ent[x][g] = <<>>
    BY <1>1
  <2>2. \A g \in 1 .. MaxGen : \A K : EntriesIn(db, x, g, K) = {}
    BY <2>1 DEF EntriesIn
  <2>3. CountersOK(db, x)
    BY <1>3, <2>1, <2>2 DEF CountersOK
  <2>4. Idle(db, x)
    BY <1>7, <2>2 DEF Idle, Carriers
  <2> QED
    BY <1>3, <2>1, <2>3, <2>4 DEF AssetOK, SlotOK, RepairOK
<1>10. HandlersOK(db)
  <2>1. IdleWorker \in [job : JobIds \cup {Nil}, ph : Phases, sup : BOOLEAN]
    BY DEF IdleWorker, Phases
  <2> QED
    BY <1>6, <2>1 DEF RefreshInit, HandlersOK
<1>11. Cardinality(Active(db)) <= MaxPending
  BY <1>6, FS_EmptySet, RefreshConstants
<1> QED
  BY <1>5, <1>8, <1>9, <1>10, <1>11 DEF RefreshIInv, TablesOK

\* The tables and the handlers stay in order over every step: what a transaction
\* works on is apart from the other assets, and it leaves its own in order.
THEOREM RefreshInductive == RefreshSpec => []RefreshIInv
<1>1. RefreshInit => RefreshIInv
  BY RefreshInitOK
<1>2. RefreshIInv /\ [RefreshNext]_refreshVars => RefreshIInv'
  <2> SUFFICES ASSUME RefreshIInv, [RefreshNext]_refreshVars PROVE RefreshIInv'
    OBVIOUS
  <2>1. ASSUME NEW w \in Workers, HandlerStep(w) PROVE RefreshIInv'
    BY <2>1, RefreshRetryStep, RecordFailureStep, RepairLoadStep, CompleteRepairStep,
       ApplyOutcomeStep, RestoreStep, ConfirmedExpiryStep, RefreshLoadStep, RefreshFinalizeStep
       DEF HandlerStep
  <2>2. ASSUME NEW w \in Workers, LoopDies(w) PROVE RefreshIInv'
    BY <2>2, EndStep DEF LoopDies
  <2>3. CASE UNCHANGED refreshVars
    <3>1. HandlersOK(db)'
      BY <2>3 DEF refreshVars, RefreshIInv, HandlersOK
    <3> QED
      BY <2>3, <3>1, Undisturbed DEF refreshVars
  <2>4. CASE \E x \in Assets : PublicMiss(x) \/ Evict(x) \/ DrainDeletion(x) \/ ResumePendingRefresh(x)
    BY <2>4, PublicMissStep, EvictStep, ResumeStep
  <2>5. CASE \E j \in JobIds : ClaimElsewhere(j) \/ RecoverExpired(j) \/ Cancel(j)
    BY <2>5, ClaimElsewhereStep, RecoverExpiredStep, CancelStep
  <2>6. CASE \E w \in Workers, j \in JobIds : Claim(w, j)
    BY <2>6, ClaimStep
  <2>7. CASE \E a \in ArticleIds, keep \in SUBSET Assets, n \in BOOLEAN : AcquireArticle(a, keep, n)
    BY <2>7, AcquireArticleStep
  <2>8. CASE \E a \in ArticleIds : DeleteArticle(a)
    BY <2>8, DeleteArticleStep
  <2>9. CASE CooldownEnds \/ MaintainRefreshes
    BY <2>9, CooldownEndsStep, MaintainStep
  <2> QED
    BY <2>1, <2>2, <2>3, <2>4, <2>5, <2>6, <2>7, <2>8, <2>9 DEF RefreshNext
<1> QED
  BY <1>1, <1>2, PTL DEF RefreshSpec

\* At most one job fits where jobs are told apart by what they recover.
LEMMA AtMostOne ==
    ASSUME NEW S \in SUBSET JobIds, \A i, j \in S : i = j
    PROVE  Cardinality(S) <= 1
<1>1. CASE S = {}
  BY <1>1, FS_EmptySet
<1>2. CASE S # {}
  <2>1. PICK j \in S : S = {j}
    BY <1>2
  <2> QED
    BY <2>1, FS_Singleton
<1> QED
  BY <1>1, <1>2

\* RefreshInv is what the inductive invariant says of the tables in the terms of the code.
LEMMA RefreshInvFollows ==
    ASSUME RefreshIInv
    PROVE  RefreshInv
<1>1. db \in RefreshTables /\ LinksOK(db) /\ JobsOK(db) /\ \A x \in Assets : AssetOK(db, x)
  BY DEF RefreshIInv, TablesOK
<1>2. RefreshTypeOK
  <2>1. \A x \in Assets : db.gen[x].chain \in Nat
    BY <1>1, GenTypes
  <2>2. \A x \in Assets, g \in 1 .. MaxGen : \A o \in DOMAIN db.ent[x][g] :
           db.ent[x][g][o] \in [art : ArticleIds, st : States]
    BY <1>1, EntryTypes DEF Entry
  <2>3. (\A j \in Repairs(db) : db.jobs[j] \in RepairRow) /\ (\A j \in Refreshes(db) : db.jobs[j] \in RefreshRow)
    BY <1>1, RowTypes
  <2>4. \A w \in Workers : worker[w].job \in JobIds \cup {Nil} /\ worker[w].sup \in BOOLEAN
    BY DEF RefreshIInv, HandlersOK
  <2>5. /\ db.rec \subseteq Assets /\ db.listed \subseteq ArticleIds
        /\ db.body \in [Assets -> {"present", "queued", "gone"}]
        /\ db.rep \in [Assets -> [att : 0 .. RepairMaxAttempts, cool : BOOLEAN, exh : BOOLEAN]]
        /\ db.lin \in [ArticleIds -> [att : 0 .. RefreshMaxAttempts, cool : BOOLEAN, exh : BOOLEAN]]
    BY <1>1 DEF RefreshTables, RepairState, LineageState
  <2>6. db.art \subseteq db.listed /\ db.link \subseteq db.rec \X db.art
    BY <1>1 DEF LinksOK
  <2> QED
    BY <2>1, <2>2, <2>3, <2>4, <2>5, <2>6 DEF RefreshTypeOK
<1>3. GenerationsOrdered
  <2> SUFFICES ASSUME NEW x \in Assets
               PROVE  /\ db.gen[x].comp <= db.gen[x].served
                      /\ db.gen[x].served <= db.gen[x].req
                      /\ \A g \in 1 .. db.gen[x].comp : EntriesIn(db, x, g, Pending \cup {"in_flight"}) = {}
    BY DEF GenerationsOrdered
  <2>1. CountersOK(db, x) /\ db.gen[x].comp \in 0 .. MaxGen /\ MaxGen \in Nat
    BY <1>1, GenTypes, RefreshConstants DEF AssetOK
  <2>2. ASSUME NEW g \in 1 .. db.gen[x].comp PROVE EntriesIn(db, x, g, Live) = {}
    <3>1. g \in 1 .. MaxGen /\ ~(db.gen[x].comp < g)
      BY <2>1
    <3> QED
      BY <2>1, <3>1 DEF CountersOK
  <2> QED
    BY <2>1, <2>2 DEF CountersOK, Live
<1>4. ChainHasItsJob
  <2> SUFFICES ASSUME NEW x \in Assets
               PROVE  IF db.gen[x].chain = 0
                      THEN /\ Carriers(db, x) = {}
                           /\ \A g \in 1 .. MaxGen : EntriesIn(db, x, g, {"in_flight"}) = {}
                      ELSE \E j \in Carriers(db, x) :
                              /\ Carriers(db, x) = {j}
                              /\ db.jobs[j].chain = db.gen[x].chain
                              /\ db.jobs[j].gen = db.gen[x].served
                              /\ \A g \in 1 .. MaxGen : EntriesIn(db, x, g, {"in_flight"}) =
                                    IF g = db.jobs[j].gen THEN {db.jobs[j].ord} ELSE {}
    BY DEF ChainHasItsJob, Carriers
  <2>1. CountersOK(db, x) /\ SlotOK(db, x)
    BY <1>1 DEF AssetOK
  <2>2. CASE db.gen[x].chain = 0
    BY <2>1, <2>2 DEF SlotOK, Idle
  <2>3. CASE db.gen[x].chain # 0
    <3>1. PICK j \in JobIds : WorkedBy(db, x, j)
      BY <2>1, <2>3 DEF SlotOK
    <3>2. Carriers(db, x) = {j} /\ j \in Refreshes(db) /\ db.jobs[j].asset = x
      BY <3>1 DEF WorkedBy, Carriers
    <3>3. /\ db.jobs[j].chain = db.gen[x].chain /\ db.jobs[j].gen = db.gen[x].served
          /\ EntriesIn(db, x, db.jobs[j].gen, {"in_flight"}) = {db.jobs[j].ord}
      BY <3>1, <3>2 DEF WorkedBy, begin_article_refresh, read_refresh_target
    <3>4. ASSUME NEW g \in 1 .. MaxGen, g # db.jobs[j].gen PROVE EntriesIn(db, x, g, {"in_flight"}) = {}
      <4>1. EntriesIn(db, x, g, Live) = {}
        BY <2>1, <3>3, <3>4 DEF CountersOK
      <4> QED
        BY <4>1 DEF EntriesIn, Live
    <3>5. \A g \in 1 .. MaxGen : EntriesIn(db, x, g, {"in_flight"}) =
             IF g = db.jobs[j].gen THEN {db.jobs[j].ord} ELSE {}
      BY <3>3, <3>4
    <3> QED
      BY <2>3, <3>2, <3>3, <3>5
  <2> QED
    BY <2>2, <2>3
<1>5. OneRecoveryEach
  <2>1. ASSUME NEW a \in ArticleIds PROVE Cardinality(RefreshesOf(db, a)) <= 1
    <3>1. RefreshesOf(db, a) \in SUBSET JobIds /\ \A i, j \in RefreshesOf(db, a) : i = j
      BY <1>1 DEF RefreshesOf, Refreshes, Active, JobsOK, Exclusive
    <3> QED
      BY <3>1, AtMostOne
  <2>2. ASSUME NEW x \in Assets PROVE Cardinality(RepairsOf(db, x)) <= 1
    <3>1. RepairsOf(db, x) \in SUBSET JobIds /\ \A i, j \in RepairsOf(db, x) : i = j
      BY <1>1 DEF RepairsOf, Repairs, Active, JobsOK, Exclusive
    <3> QED
      BY <3>1, AtMostOne
  <2>3. \A x \in Assets : db.gen[x].chain # 0 => RepairsOf(db, x) = {}
    BY <1>1 DEF AssetOK, RepairOK
  <2> QED
    BY <2>1, <2>2, <2>3 DEF OneRecoveryEach, RefreshIInv
<1> QED
  BY <1>2, <1>3, <1>4, <1>5 DEF RefreshInv

\* No recovery is lost and none runs twice, whatever leases expire, jobs fail or
\* articles go: an asset's slot names a job that exists exactly while that job
\* works on its entry, its counters keep their order, and no asset or article is
\* recovered by two jobs.
THEOREM RefreshIsSound == RefreshSpec => []RefreshInv
  BY RefreshInductive, RefreshInvFollows, PTL

\* A handler that lost its lease changes no table.
THEOREM LostLeasesAreHarmless == RefreshSpec => StaleHandlerHarmless
<1> DEFINE Held(w) ==
              (worker[w].ph \in {"repair fetch", "complete", "refresh load", "refresh fetch",
                                 "succeed", "retry", "fail"}
               /\ worker'[w] # worker[w] /\ worker'[w].sup = worker[w].sup /\ db' # db)
              => lock_live_repair_lease(db, w)
<1>1. RefreshIInv /\ [RefreshNext]_refreshVars => [\A w \in Workers : Held(w)]_refreshVars
  <2> SUFFICES ASSUME RefreshIInv, RefreshNext, NEW w \in Workers,
                      worker[w].ph \in {"repair fetch", "complete", "refresh load", "refresh fetch",
                                        "succeed", "retry", "fail"},
                      worker'[w] # worker[w], worker'[w].sup = worker[w].sup, db' # db
               PROVE  lock_live_repair_lease(db, w)
    BY Zenon
  <2>1. worker \in [Workers -> [job : JobIds \cup {Nil}, ph : Phases, sup : BOOLEAN]]
    BY Zenon DEF RefreshIInv, HandlersOK
  <2>2. ASSUME NEW v \in Workers, HandlerStep(v) PROVE lock_live_repair_lease(db, w)
    <3>1. CASE RefreshRetry(v) \/ RefreshLoad(v)
      <4>1. v = w
        BY Zenon, <2>1, <3>1 DEF RefreshRetry, RefreshLoad, Proceed, EndCall
      <4> QED
        BY Zenon, <3>1, <4>1 DEF RefreshRetry, RefreshLoad
    <3>2. CASE RecordRepairFailure(v) \/ CompleteRepair(v)
      <4>1. v = w
        BY Zenon, <2>1, <3>2 DEF RecordRepairFailure, CompleteRepair, Proceed
      <4> QED
        BY Zenon, <3>2, <4>1 DEF RecordRepairFailure, CompleteRepair
    <3>3. CASE RepairLoad(v)
      <4>1. v = w
        BY Zenon, <2>1, <3>3 DEF RepairLoad, Proceed, EndCall
      <4> QED
        BY Zenon, <3>3, <4>1 DEF RepairLoad
    <3>4. CASE ApplyOutcome(v) \/ ConfirmedExpiry(v)
      <4>1. v = w
        BY Zenon, <2>1, <3>4 DEF ApplyOutcome, ConfirmedExpiry, EndCall
      <4> QED
        BY Zenon, <3>4, <4>1 DEF ApplyOutcome, ConfirmedExpiry
    <3>5. CASE RestoreMissingAsset(v)
      <4>1. v = w
        BY Zenon, <2>1, <3>5 DEF RestoreMissingAsset, Proceed
      <4> QED
        BY Zenon, <3>5, <4>1 DEF RestoreMissingAsset
    <3>6. ASSUME NEW f \in BOOLEAN, NEW keep \in SUBSET Assets, RefreshFinalize(v, f, keep)
          PROVE  lock_live_repair_lease(db, w)
      <4>1. EndCall(v) /\ lock_live_repair_lease(db, v)
        BY Zenon, <3>6 DEF RefreshFinalize
      <4>2. v = w
        BY Zenon, <2>1, <4>1 DEF EndCall
      <4> QED
        BY Zenon, <4>1, <4>2
    <3> QED
      BY Zenon, <2>2, <3>1, <3>2, <3>3, <3>4, <3>5, <3>6 DEF HandlerStep
  <2>3. ASSUME NEW v \in Workers, NEW j \in JobIds, Claim(v, j) PROVE FALSE
    <3>1. worker[v] = IdleWorker /\ v = w
      BY Zenon, <2>1, <2>3 DEF Claim
    <3>2. worker[w].ph = "idle"
      <4>1. IdleWorker.ph = "idle"
        BY Zenon DEF IdleWorker
      <4> QED
        BY Zenon, <3>1, <4>1
    <3> QED
      BY <3>2
  <2>4. ASSUME NEW a \in ArticleIds, NEW keep \in SUBSET Assets, NEW n \in BOOLEAN,
               AcquireArticle(a, keep, n)
        PROVE  FALSE
    <3>1. worker'[w] = [worker[w] EXCEPT !.sup = TRUE]
      BY Zenon, <2>4 DEF AcquireArticle
    <3>2. worker[w] \in [job : JobIds \cup {Nil}, ph : Phases, sup : BOOLEAN]
      BY Zenon, <2>1
    <3> QED
      BY Zenon, <3>1, <3>2
  <2>5. ASSUME NEW v \in Workers, LoopDies(v) PROVE FALSE
    BY Zenon, <2>5 DEF LoopDies
  <2>6. CASE \E x \in Assets : PublicMiss(x) \/ Evict(x) \/ DrainDeletion(x) \/ ResumePendingRefresh(x)
    BY Zenon, <2>6 DEF PublicMiss, Evict, DrainDeletion, ResumePendingRefresh
  <2>7. CASE \E j \in JobIds : ClaimElsewhere(j) \/ RecoverExpired(j) \/ Cancel(j)
    BY Zenon, <2>7 DEF ClaimElsewhere, RecoverExpired, Cancel
  <2>8. CASE \E a \in ArticleIds : DeleteArticle(a)
    BY Zenon, <2>8 DEF DeleteArticle
  <2>9. CASE CooldownEnds \/ MaintainRefreshes
    BY Zenon, <2>9 DEF CooldownEnds, MaintainRefreshes
  <2> QED
    BY Zenon, <2>2, <2>3, <2>4, <2>5, <2>6, <2>7, <2>8, <2>9 DEF RefreshNext
<1> QED
  BY <1>1, RefreshInductive, PTL DEF RefreshSpec, StaleHandlerHarmless
=============================================================================

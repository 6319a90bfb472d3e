--------------------------- MODULE FavoritesProofs ---------------------------
(***************************************************************************)
(* The saved places for any number of devices, places and requests, and    *)
(* any limit.                                                              *)
(***************************************************************************)
EXTENDS Favorites, FiniteSetTheorems, TLAPS

States == {Resting} \cup Saving \cup Removing

LEMMA InitInv == FavInit => FavInv /\ IsFiniteSet(favorites)
BY FavAssumption, FS_EmptySet
   DEF FavInit, FavInv, FavTypeOK, RowsUnique, StillToFind, Resting

(***************************************************************************)
(* The steps of a handler                                                  *)
(***************************************************************************)

\* A handler that is at a statement of a POST has its arguments.
LEMMA AtPost ==
  ASSUME FavTypeOK, NEW q \in Requests, handler[q].at \in {"count", "insert", "station", "coords"}
  PROVE  /\ handler[q] \in Saving
         /\ handler[q].device \in Devices /\ handler[q].wish \in Wishes
<1>1. handler[q] \in States
  BY DEF FavTypeOK, States
<1> QED
  BY <1>1 DEF States, Resting, Saving, Removing

\* A handler goes on, and nothing else happens.
LEMMA HandlerSteps ==
  ASSUME FavInv, NEW q \in Requests, NEW h \in States, handler' = [handler EXCEPT ![q] = h],
         UNCHANGED <<favorites, made>>,
         h.at \in {"station", "coords"} =>
           /\ \A id \in h.blockers : id <= made
           /\ \A r \in favorites : r.id \in h.blockers =>
                IF h.at = "station" THEN r \in Clashes(h.device, h.wish)
                                    ELSE r \in AtCoords(h.device, h.wish)
  PROVE  FavInv'
<1>1. FavTypeOK' /\ RowsUnique'
  BY DEF FavInv, FavTypeOK, RowsUnique, States
<1>2. \A d, w : Clashes(d, w)' = Clashes(d, w) /\ AtCoords(d, w)' = AtCoords(d, w)
  BY DEF Clashes, AtStation, AtCoords, RowsOf
<1>3. \A p \in Requests : handler'[p] = IF p = q THEN h ELSE handler[p]
  BY DEF FavInv, FavTypeOK
<1>4. StillToFind'
  BY <1>2, <1>3 DEF FavInv, StillToFind
<1> QED
  BY <1>1, <1>4 DEF FavInv

LEMMA Ends ==
  ASSUME FavInv, NEW q \in Requests, Done(q), UNCHANGED <<favorites, made>>
  PROVE  FavInv'
<1>1. Resting \in States /\ Resting.at = "idle"
  BY DEF States, Resting
<1> QED
  BY <1>1, HandlerSteps DEF Done

\* The row goes in under an id nothing refers to yet.
LEMMA Inserted ==
  ASSUME FavInv, NEW q \in Requests, InsertRow(q),
         Clashes(handler[q].device, handler[q].wish) = {}
  PROVE  FavInv'
<1> DEFINE d == handler[q].device
           w == handler[q].wish
           new == [id |-> made + 1, device |-> d, wish |-> w]
<1>0. /\ handler[q].at = "insert" /\ made < MaxRows /\ made' = made + 1
      /\ favorites' = favorites \cup {new} /\ Done(q)
  BY DEF InsertRow
<1>1. d \in Devices /\ w \in Wishes
  BY <1>0, AtPost DEF FavInv
<1>2. FavTypeOK'
  BY <1>0, <1>1, FavAssumption DEF FavInv, FavTypeOK, Ids, Row, Done
<1>3. \A r \in favorites : r.id <= made /\ r.id \in Nat /\ made \in Nat
  BY FavAssumption DEF FavInv, FavTypeOK, Row, Ids
<1>4. RowsUnique'
  <2>1. \A r \in favorites : r.device = d =>
          /\ r.wish.coords # w.coords
          /\ r.wish.station # NoStation => r.wish.station # w.station
    BY DEF Clashes, AtStation, AtCoords, RowsOf
  <2>2. \A r \in favorites : r.id # new.id
    BY <1>3
  <2>3. new.device = d /\ new.wish = w
    OBVIOUS
  <2> HIDE DEF new
  <2>4. ASSUME NEW r \in favorites', NEW o \in favorites', r # o
        PROVE  /\ r.id # o.id
               /\ r.device = o.device =>
                    /\ r.wish.coords # o.wish.coords
                    /\ r.wish.station # NoStation => r.wish.station # o.wish.station
    <3>1. CASE r \in favorites /\ o \in favorites
      BY <2>4, <3>1 DEF FavInv, RowsUnique
    <3>2. CASE r \in favorites /\ o = new
      BY <2>1, <2>2, <2>3, <3>2
    <3>3. CASE r = new /\ o \in favorites
      BY <2>1, <2>2, <2>3, <3>3
    <3> QED
      BY <1>0, <2>4, <3>1, <3>2, <3>3
  <2> QED
    BY <2>4 DEF RowsUnique
<1>5. StillToFind'
  <2> SUFFICES ASSUME NEW p \in Requests, handler'[p].at \in {"station", "coords"}
               PROVE  /\ \A id \in handler'[p].blockers : id <= made'
                      /\ \A r \in favorites' : r.id \in handler'[p].blockers =>
                           IF handler'[p].at = "station"
                           THEN r \in Clashes(handler[p].device, handler[p].wish)'
                           ELSE r \in AtCoords(handler[p].device, handler[p].wish)'
    BY DEF StillToFind
  <2>1. p # q /\ handler'[p] = handler[p]
    BY <1>0 DEF Done, Resting, FavInv, FavTypeOK
  <2>2. handler[p].blockers \subseteq Nat
    BY <2>1, AtPost DEF FavInv, Saving, Ids
  <2>3. new.id \notin handler[p].blockers
    BY <1>3, <2>1, <2>2, FavAssumption DEF FavInv, FavTypeOK, StillToFind
  <2>5. \A id \in handler[p].blockers : id <= made'
    BY <1>0, <2>1, <2>2, FavAssumption DEF FavInv, FavTypeOK, StillToFind
  <2>6. \A r \in favorites' : r.id \in handler[p].blockers => r \in favorites
    BY <1>0, <2>3
  <2> HIDE DEF new
  <2>7. \A r \in favorites : r.id \in handler[p].blockers =>
          IF handler[p].at = "station" THEN r \in Clashes(handler[p].device, handler[p].wish)
                                       ELSE r \in AtCoords(handler[p].device, handler[p].wish)
    BY <2>1 DEF FavInv, StillToFind
  <2>8. favorites \subseteq favorites'
    BY <1>0
  <2> QED
    BY <2>1, <2>5, <2>6, <2>7, <2>8 DEF Clashes, AtStation, AtCoords, RowsOf
<1> QED
  BY <1>2, <1>4, <1>5 DEF FavInv

LEMMA Refused ==
  ASSUME FavInv, NEW q \in Requests, InsertRow(q),
         Clashes(handler[q].device, handler[q].wish) # {}
  PROVE  FavInv'
<1> DEFINE clashes == Clashes(handler[q].device, handler[q].wish)
           h == [handler[q] EXCEPT
                  !.at = IF handler[q].wish.station # NoStation THEN "station" ELSE "coords",
                  !.blockers = {r.id : r \in clashes}]
<1>0. /\ handler[q].at = "insert" /\ handler' = [handler EXCEPT ![q] = h]
      /\ UNCHANGED <<favorites, made>>
  BY DEF InsertRow
<1>1. handler[q] \in Saving
  BY <1>0, AtPost DEF FavInv
<1>2. clashes \subseteq favorites
  BY DEF Clashes, AtStation, AtCoords, RowsOf
<1>3. {r.id : r \in clashes} \subseteq Ids
  BY <1>2 DEF FavInv, FavTypeOK, Row
<1>4. /\ h \in Saving /\ h.blockers = {r.id : r \in clashes}
      /\ h.device = handler[q].device /\ h.wish = handler[q].wish
      /\ h.at = IF handler[q].wish.station # NoStation THEN "station" ELSE "coords"
  BY <1>1, <1>3 DEF Saving
<1>5. \A r \in favorites : r.id \in h.blockers => r \in clashes
  BY <1>2, <1>4 DEF FavInv, RowsUnique
<1>6. handler[q].wish.station = NoStation => clashes \subseteq AtCoords(handler[q].device, handler[q].wish)
  BY DEF Clashes, AtStation
<1>7. \A id \in h.blockers : id <= made
  BY <1>2, <1>4 DEF FavInv, FavTypeOK
<1>8. h \in States
  BY <1>4 DEF States
<1> HIDE DEF h
<1> QED
  BY <1>0, <1>4, <1>5, <1>6, <1>7, <1>8, HandlerSteps

LEMMA StepKeepsInv == FavInv /\ [FavNext]_favVars => FavInv'
<1> SUFFICES ASSUME FavInv, [FavNext]_favVars PROVE FavInv'
  OBVIOUS
<1>1. CASE UNCHANGED favVars
  <2>1. \A d, w : Clashes(d, w)' = Clashes(d, w) /\ AtCoords(d, w)' = AtCoords(d, w)
    BY <1>1 DEF favVars, Clashes, AtStation, AtCoords, RowsOf
  <2> QED
    BY <1>1, <2>1 DEF favVars, FavInv, FavTypeOK, RowsUnique, StillToFind
<1>2. ASSUME NEW q \in Requests, NEW d \in Devices, NEW w \in Wishes, Save(q, d, w) PROVE FavInv'
  <2> DEFINE h == [at |-> "count", device |-> d, wish |-> w, blockers |-> {}]
  <2>1. h \in States /\ h.at = "count"
    BY DEF States, Saving
  <2> QED
    BY <1>2, <2>1, HandlerSteps DEF Save
<1>3. ASSUME NEW q \in Requests, NEW d \in Devices, NEW id \in Ids, Remove(q, d, id) PROVE FavInv'
  <2> DEFINE h == [at |-> "delete", device |-> d, row |-> id]
  <2>1. h \in States /\ h.at = "delete"
    BY DEF States, Removing
  <2> QED
    BY <1>3, <2>1, HandlerSteps DEF Remove
<1>4. ASSUME NEW q \in Requests, Count(q) PROVE FavInv'
  <2>1. CASE HasRoom(handler[q].device)
    <3> DEFINE h == [handler[q] EXCEPT !.at = "insert"]
    <3>1. h \in States /\ h.at = "insert"
      BY <1>4, AtPost DEF Count, FavInv, States, Saving
    <3>2. handler' = [handler EXCEPT ![q] = h]
      BY <1>4, <2>1 DEF Count, Goto
    <3> HIDE DEF h
    <3> QED
      BY <1>4, <3>1, <3>2, HandlerSteps DEF Count
  <2> QED
    BY <1>4, <2>1, Ends DEF Count
<1>5. ASSUME NEW q \in Requests, InsertRow(q) PROVE FavInv'
  BY <1>5, Inserted, Refused
<1>6. ASSUME NEW q \in Requests, FindByStation(q) PROVE FavInv'
  <2>1. CASE AtStation(handler[q].device, handler[q].wish) = {}
    <3> DEFINE h == [handler[q] EXCEPT !.at = "coords"]
    <3>1. handler[q] \in Saving
      BY <1>6, AtPost DEF FindByStation, FavInv
    <3>2. /\ h \in Saving /\ h.at = "coords" /\ h.blockers = handler[q].blockers
          /\ h.device = handler[q].device /\ h.wish = handler[q].wish
      BY <3>1 DEF Saving
    <3>3. handler' = [handler EXCEPT ![q] = h]
      BY <1>6, <2>1 DEF FindByStation, Goto
    <3>4. h \in States
      BY <3>2 DEF States
    <3> HIDE DEF h
    <3>5. \A id \in h.blockers : id <= made
      BY <1>6, <3>2 DEF FindByStation, FavInv, StillToFind
    <3>6. \A r \in favorites : r.id \in h.blockers => r \in AtCoords(h.device, h.wish)
      BY <1>6, <2>1, <3>2 DEF FindByStation, FavInv, StillToFind, Clashes
    <3> QED
      BY <1>6, <3>2, <3>3, <3>4, <3>5, <3>6, HandlerSteps DEF FindByStation
  <2> QED
    BY <1>6, <2>1, Ends DEF FindByStation
<1>7. ASSUME NEW q \in Requests, FindByCoords(q) \/ StatementFails(q) PROVE FavInv'
  BY <1>7, Ends DEF FindByCoords, StatementFails
<1>8. ASSUME NEW q \in Requests, DeleteRow(q) PROVE FavInv'
  <2>1. favorites' \subseteq favorites /\ made' = made /\ Done(q)
    BY <1>8 DEF DeleteRow
  <2>2. FavTypeOK' /\ RowsUnique'
    BY <2>1 DEF FavInv, FavTypeOK, RowsUnique, Done
  <2>3. \A p \in Requests : handler'[p] = handler[p] \/ handler'[p].at = "idle"
    BY <2>1 DEF Done, Resting, FavInv, FavTypeOK
  <2>4. \A d, w : /\ favorites' \cap Clashes(d, w) \subseteq Clashes(d, w)'
                  /\ favorites' \cap AtCoords(d, w) \subseteq AtCoords(d, w)'
    BY <2>1 DEF Clashes, AtStation, AtCoords, RowsOf
  <2>5. StillToFind'
    BY <2>1, <2>3, <2>4 DEF FavInv, StillToFind
  <2> QED
    BY <2>2, <2>5 DEF FavInv
<1> QED
  BY <1>1, <1>2, <1>3, <1>4, <1>5, <1>6, <1>7, <1>8 DEF FavNext, Begin, Handle

(***************************************************************************)
(* Theorems                                                                *)
(***************************************************************************)

\* The table and the handlers fit together after any steps: rows are unique as
\* the indexes say, and a row that refused an insert can still be found.
THEOREM FavInvariant == FavSpec => []FavInv
BY InitInv, StepKeepsInv, PTL DEF FavSpec

\* create and find: a save is answered with "could not be saved" only if every
\* row that made it a duplicate has been deleted meanwhile, whichever of the two
\* indexes it was.
THEOREM FailsOnlyIfDeleted == FavSpec => FailedOnlyIfDeleted
<1>1. ASSUME FavInv, NEW q \in Requests, FindByCoords(q),
             LastLook(handler[q].device, handler[q].wish) = {}
      PROVE  handler[q].blockers \cap {r.id : r \in favorites} = {}
  BY <1>1 DEF FindByCoords, LastLook, FavInv, StillToFind
<1>2. FavInv /\ [FavNext]_favVars =>
        [\A q \in Requests :
           FindByCoords(q) /\ LastLook(handler[q].device, handler[q].wish) = {} =>
             handler[q].blockers \cap {r.id : r \in favorites} = {}]_favVars
  BY <1>1
<1> QED
  BY <1>2, FavInvariant, PTL DEF FavSpec, FailedOnlyIfDeleted

\* delete: no request removes the row of another device.
THEOREM DeletesOwnRowsOnly == FavSpec => OwnRowsOnly
<1>1. ASSUME [FavNext]_favVars, NEW r \in favorites \ favorites'
      PROVE  \E q \in Requests : DeleteRow(q) /\ handler[q].device = r.device
  <2>1. PICK q \in Requests : DeleteRow(q)
    BY <1>1 DEF FavNext, favVars, Begin, Handle, Save, Remove, Count, InsertRow, FindByStation,
       FindByCoords, StatementFails
  <2> QED
    BY <1>1, <2>1 DEF DeleteRow, Owned, RowsOf
<1>2. [FavNext]_favVars =>
        [\A r \in favorites \ favorites' :
           \E q \in Requests : DeleteRow(q) /\ handler[q].device = r.device]_favVars
  BY <1>1
<1> QED
  BY <1>2, PTL DEF FavSpec, OwnRowsOnly

(***************************************************************************)
(* The limit of saved places implements SoftQuota                          *)
(***************************************************************************)
FinInv == FavInv /\ IsFiniteSet(favorites)

LEMMA StepFinite == FinInv /\ [FavNext]_favVars => FinInv'
<1> SUFFICES ASSUME FinInv, [FavNext]_favVars PROVE IsFiniteSet(favorites')
  BY StepKeepsInv DEF FinInv
<1>1. CASE favorites' \subseteq favorites
  BY <1>1, FS_Subset DEF FinInv
<1>2. ASSUME NEW q \in Requests, InsertRow(q) PROVE IsFiniteSet(favorites')
  <2> DEFINE new == [id |-> made + 1, device |-> handler[q].device, wish |-> handler[q].wish]
  <2>1. favorites' \subseteq favorites \/ favorites' = favorites \cup {new}
    BY <1>2 DEF InsertRow
  <2> HIDE DEF new
  <2> QED
    BY <2>1, <1>1, FS_AddElement DEF FinInv
<1> QED
  BY <1>1, <1>2 DEF FavNext, favVars, Begin, Handle, Save, Remove, Count, FindByStation,
     FindByCoords, DeleteRow, StatementFails

LEMMA FiniteInvariant == FavSpec => []FinInv
BY InitInv, StepFinite, PTL DEF FavSpec, FinInv

LEMMA RowsCount ==
  ASSUME IsFiniteSet(favorites), NEW d
  PROVE  IsFiniteSet(RowsOf(d)) /\ Cardinality(RowsOf(d)) \in Nat
BY FS_Subset, FS_CardinalityType DEF RowsOf

LEMMA Stutters ==
  ASSUME NEW d \in Devices, RowsOf(d)' = RowsOf(d), Inserting(d)' = Inserting(d)
  PROVE  [FavQuota(d)!Next]_(FavQuota(d)!vars)
BY DEF FavQuota!vars, Inserting

\* A request that was about to insert for d no longer is, and the rows of d are
\* those it had, or one more.
LEMMA Inserts ==
  ASSUME IsFiniteSet(favorites), NEW d \in Devices, NEW q \in Requests, q \in Inserting(d),
         Inserting(d)' = Inserting(d) \ {q},
         \/ RowsOf(d)' = RowsOf(d)
         \/ \E r : r \notin RowsOf(d) /\ RowsOf(d)' = RowsOf(d) \cup {r}
  PROVE  FavQuota(d)!Next
<1>1. CASE RowsOf(d)' = RowsOf(d)
  BY <1>1 DEF FavQuota!Next, FavQuota!GiveUp, Inserting
<1>2. ASSUME NEW r, r \notin RowsOf(d), RowsOf(d)' = RowsOf(d) \cup {r}
      PROVE  FavQuota(d)!Next
  <2>1. Cardinality(RowsOf(d)') = Cardinality(RowsOf(d)) + 1
    BY <1>2, RowsCount, FS_AddElement
  <2> QED
    BY <2>1 DEF FavQuota!Next, FavQuota!Store, Inserting
<1> QED
  BY <1>1, <1>2

\* A handler goes on to h, and the rows stay: the quota of d sees a step only if
\* the handler was about to insert.
LEMMA Moves ==
  ASSUME FinInv, NEW d \in Devices, NEW q \in Requests, NEW h \in States,
         handler' = [handler EXCEPT ![q] = h], h.at # "insert", RowsOf(d)' = RowsOf(d)
  PROVE  [FavQuota(d)!Next]_(FavQuota(d)!vars)
<1>1. Inserting(d)' = Inserting(d) \ {q}
  BY DEF Inserting, FinInv, FavInv, FavTypeOK
<1>2. CASE q \in Inserting(d)
  BY <1>1, <1>2, Inserts DEF FinInv
<1>3. CASE q \notin Inserting(d)
  BY <1>1, <1>3, Stutters
<1> QED
  BY <1>2, <1>3

\* A row is deleted by a handler that ends.
LEMMA Deletes ==
  ASSUME FinInv, NEW d \in Devices, NEW q \in Requests, DeleteRow(q)
  PROVE  [FavQuota(d)!Next]_(FavQuota(d)!vars)
<1>1. Inserting(d)' = Inserting(d)
  BY DEF DeleteRow, Done, Resting, Inserting, FinInv, FavInv, FavTypeOK
<1>2. RowsOf(d)' = RowsOf(d) \ Owned(handler[q].device, handler[q].row)
  BY DEF DeleteRow, RowsOf
<1>3. \A r, o \in Owned(handler[q].device, handler[q].row) : r = o
  BY DEF Owned, RowsOf, FinInv, FavInv, RowsUnique
<1>4. CASE RowsOf(d)' = RowsOf(d)
  BY <1>1, <1>4, Stutters
<1>5. ASSUME NEW r \in RowsOf(d), RowsOf(d)' = RowsOf(d) \ {r}
      PROVE  FavQuota(d)!Next
  <2>1. Cardinality(RowsOf(d)') = Cardinality(RowsOf(d)) - 1
    BY <1>5, RowsCount, FS_RemoveElement DEF FinInv
  <2>2. Cardinality(RowsOf(d)) \in Nat /\ Cardinality(RowsOf(d)) # 0
    BY <1>5, RowsCount, FS_EmptySet DEF FinInv
  <2>3. FavQuota(d)!Release
    BY <1>1, <2>1, <2>2 DEF FavQuota!Release, Inserting
  <2> QED
    BY <2>3 DEF FavQuota!Next
<1>6. RowsOf(d)' = RowsOf(d) \/ \E r \in RowsOf(d) : RowsOf(d)' = RowsOf(d) \ {r}
  BY <1>2, <1>3
<1> QED
  BY <1>4, <1>5, <1>6

\* count_for_device lets a request through.
LEMMA Counts ==
  ASSUME FinInv, NEW d \in Devices, NEW q \in Requests, Count(q)
  PROVE  [FavQuota(d)!Next]_(FavQuota(d)!vars)
<1>0. Resting \in States /\ Resting.at # "insert" /\ RowsOf(d)' = RowsOf(d)
  BY DEF States, Resting, Count, RowsOf
<1>1. CASE ~HasRoom(handler[q].device)
  BY <1>0, <1>1, Moves DEF Count, Done
<1>2. CASE HasRoom(handler[q].device)
  <2>1. handler[q] \in Saving /\ handler[q].at = "count"
    BY AtPost DEF Count, FinInv, FavInv
  <2>2. \A p \in Requests : p # q => handler'[p] = handler[p]
    BY <1>2 DEF Count, Goto, FinInv, FavInv, FavTypeOK
  <2>3. handler'[q].at = "insert" /\ handler'[q].device = handler[q].device
    BY <1>2, <2>1 DEF Count, Goto, FinInv, FavInv, FavTypeOK, Saving
  <2>4. CASE handler[q].device # d
    BY <1>0, <2>1, <2>2, <2>3, <2>4, Stutters DEF Inserting
  <2>5. CASE handler[q].device = d
    <3>1. q \notin Inserting(d) /\ Inserting(d)' = Inserting(d) \cup {q}
      BY <2>1, <2>2, <2>3, <2>5 DEF Inserting
    <3>2. Cardinality(RowsOf(d)) < FavLimit /\ Cardinality(RowsOf(d)') = Cardinality(RowsOf(d))
      BY <1>0, <1>2, <2>5 DEF HasRoom
    <3> QED
      BY <3>1, <3>2 DEF FavQuota!Next, FavQuota!Clear, FavQuota!Room, Inserting
  <2> QED
    BY <2>4, <2>5
<1> QED
  BY <1>1, <1>2

LEMMA RowGoesIn ==
  ASSUME FinInv, NEW d \in Devices, NEW q \in Requests, InsertRow(q)
  PROVE  [FavQuota(d)!Next]_(FavQuota(d)!vars)
<1> DEFINE new == [id |-> made + 1, device |-> handler[q].device, wish |-> handler[q].wish]
<1>1. handler[q] \in Saving /\ handler[q].at = "insert"
  BY AtPost DEF InsertRow, FinInv, FavInv
<1>2. CASE Clashes(handler[q].device, handler[q].wish) = {}
  <2>1. favorites' = favorites \cup {new} /\ Done(q)
    BY <1>2 DEF InsertRow
  <2>2. Inserting(d)' = Inserting(d) \ {q}
    BY <2>1 DEF Done, Resting, Inserting, FinInv, FavInv, FavTypeOK
  <2>3. new.id \notin {r.id : r \in favorites} /\ new.device = handler[q].device
    BY FavAssumption DEF FinInv, FavInv, FavTypeOK, Row, Ids
  <2> HIDE DEF new
  <2>4. CASE handler[q].device = d
    <3>1. RowsOf(d)' = RowsOf(d) \cup {new} /\ new \notin RowsOf(d)
      BY <2>1, <2>3, <2>4 DEF RowsOf
    <3>2. q \in Inserting(d)
      BY <1>1, <2>4 DEF Inserting
    <3> QED
      BY <2>2, <3>1, <3>2, Inserts DEF FinInv
  <2>5. CASE handler[q].device # d
    <3>1. RowsOf(d)' = RowsOf(d)
      BY <2>1, <2>3, <2>5 DEF RowsOf
    <3>2. q \notin Inserting(d)
      BY <2>5 DEF Inserting
    <3> QED
      BY <2>2, <3>1, <3>2, Stutters
  <2> QED
    BY <2>4, <2>5
<1>3. CASE Clashes(handler[q].device, handler[q].wish) # {}
  <2> DEFINE h == [handler[q] EXCEPT
                    !.at = IF handler[q].wish.station # NoStation THEN "station" ELSE "coords",
                    !.blockers = {r.id : r \in Clashes(handler[q].device, handler[q].wish)}]
  <2>1. h.at # "insert" /\ RowsOf(d)' = RowsOf(d) /\ handler' = [handler EXCEPT ![q] = h]
    BY <1>1, <1>3 DEF InsertRow, RowsOf, Saving
  <2>2. {r.id : r \in Clashes(handler[q].device, handler[q].wish)} \subseteq Ids
    BY DEF Clashes, AtStation, AtCoords, RowsOf, FinInv, FavInv, FavTypeOK, Row
  <2>3. h \in States
    BY <1>1, <2>2 DEF Saving, States
  <2> HIDE DEF h
  <2> QED
    BY <2>1, <2>3, Moves
<1> QED
  BY <1>2, <1>3

LEMMA StepQuota ==
  ASSUME FinInv, [FavNext]_favVars, NEW d \in Devices
  PROVE  [FavQuota(d)!Next]_(FavQuota(d)!vars)
<1>0. Resting \in States /\ Resting.at # "insert"
  BY DEF States, Resting
<1>1. CASE UNCHANGED favVars
  BY <1>1, Stutters DEF favVars, RowsOf, Inserting
<1>2. ASSUME NEW q \in Requests, NEW e \in Devices, NEW w \in Wishes, Save(q, e, w)
      PROVE  [FavQuota(d)!Next]_(FavQuota(d)!vars)
  <2> DEFINE h == [at |-> "count", device |-> e, wish |-> w, blockers |-> {}]
  <2>1. h \in States /\ h.at # "insert"
    BY DEF States, Saving
  <2>2. RowsOf(d)' = RowsOf(d)
    BY <1>2 DEF Save, RowsOf
  <2> QED
    BY <1>2, <2>1, <2>2, Moves DEF Save
<1>3. ASSUME NEW q \in Requests, NEW e \in Devices, NEW id \in Ids, Remove(q, e, id)
      PROVE  [FavQuota(d)!Next]_(FavQuota(d)!vars)
  <2> DEFINE h == [at |-> "delete", device |-> e, row |-> id]
  <2>1. h \in States /\ h.at # "insert"
    BY DEF States, Removing
  <2>2. RowsOf(d)' = RowsOf(d)
    BY <1>3 DEF Remove, RowsOf
  <2> QED
    BY <1>3, <2>1, <2>2, Moves DEF Remove
<1>4. ASSUME NEW q \in Requests, FindByStation(q)
      PROVE  [FavQuota(d)!Next]_(FavQuota(d)!vars)
  <2>1. RowsOf(d)' = RowsOf(d)
    BY <1>4 DEF FindByStation, RowsOf
  <2>2. CASE AtStation(handler[q].device, handler[q].wish) = {}
    <3> DEFINE h == [handler[q] EXCEPT !.at = "coords"]
    <3>1. handler[q] \in Saving
      BY <1>4, AtPost DEF FindByStation, FinInv, FavInv
    <3>2. h \in States /\ h.at # "insert"
      BY <3>1 DEF Saving, States
    <3>3. handler' = [handler EXCEPT ![q] = h]
      BY <1>4, <2>2 DEF FindByStation, Goto
    <3> HIDE DEF h
    <3> QED
      BY <2>1, <3>2, <3>3, Moves
  <2> QED
    BY <1>0, <1>4, <2>1, <2>2, Moves DEF FindByStation, Done
<1>5. ASSUME NEW q \in Requests, FindByCoords(q) \/ StatementFails(q)
      PROVE  [FavQuota(d)!Next]_(FavQuota(d)!vars)
  <2>1. RowsOf(d)' = RowsOf(d)
    BY <1>5 DEF FindByCoords, StatementFails, RowsOf
  <2> QED
    BY <1>0, <1>5, <2>1, Moves DEF FindByCoords, StatementFails, Done
<1> QED
  BY <1>1, <1>2, <1>3, <1>4, <1>5, Counts, RowGoesIn, Deletes DEF FavNext, Begin, Handle

\* create_favorite implements the soft limit for every device: with SoftQuota's own
\* theorem, a device holds less than FavLimit and the number of requests served
\* at the same time together.
THEOREM FavQuotaRefined == FavSpec => FavQuotaIsSoft
<1>1. FavInit => \A d \in Devices : FavQuota(d)!Init
  <2> SUFFICES ASSUME FavInit, NEW d \in Devices PROVE FavQuota(d)!Init
    OBVIOUS
  <2>1. RowsOf(d) = {}
    BY DEF FavInit, RowsOf
  <2> QED
    BY <2>1, FS_EmptySet DEF FavQuota!Init, Inserting, FavInit, Resting
<1>2. FinInv /\ [FavNext]_favVars
        => [\A d \in Devices : [FavQuota(d)!Next]_(FavQuota(d)!vars)]_favVars
  BY StepQuota
<1> QED
  BY <1>1, <1>2, FiniteInvariant, PTL DEF FavSpec, FavQuotaIsSoft
=============================================================================

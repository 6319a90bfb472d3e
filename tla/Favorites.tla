------------------------------ MODULE Favorites ------------------------------
(***************************************************************************)
(* The saved places of app/api/routes/favorites.py and FavoritesRepository *)
(* of app/db/repositories.py: POST counts what the device holds, inserts,  *)
(* and looks the row up that made the insert a duplicate; DELETE removes a *)
(* row of the device. Every statement of the database is a step; requests  *)
(* of all workers run between them.                                        *)
(***************************************************************************)
EXTENDS Integers, FiniteSets

CONSTANTS
  Devices,
  Requests,      \* requests served at the same time
  Stations,      \* AQI stations
  Coords,        \* pairs of coordinates
  FavLimit,      \* MAX_FAVORITES_PER_DEVICE
  MaxRows        \* bound: rows ever inserted

ASSUME FavAssumption ==
  /\ IsFiniteSet(Requests) /\ Requests # {}
  /\ FavLimit \in Nat /\ MaxRows \in Nat
  /\ "none" \notin Stations

VARIABLES
  favorites,     \* the table
  made,          \* rows inserted so far: the last id
  handler        \* per request: where its handler is

favVars == <<favorites, made, handler>>

\* A place is saved by its coordinates, and by its station if it has one.
NoStation == "none"
Wishes == [station : Stations \cup {NoStation}, coords : Coords]

Ids == 1..MaxRows
Row == [id : Ids, device : Devices, wish : Wishes]

\* device and wish are the arguments of a POST, blockers the rows that made its
\* insert a duplicate, and row the id a DELETE names.
Saving == [at : {"count", "insert", "station", "coords"},
           device : Devices, wish : Wishes, blockers : SUBSET Ids]
Removing == [at : {"delete"}, device : Devices, row : Ids]

Resting == [at |-> "idle"]

FavTypeOK ==
  /\ favorites \subseteq Row
  /\ made \in 0..MaxRows
  /\ \A r \in favorites : r.id <= made
  /\ handler \in [Requests -> {Resting} \cup Saving \cup Removing]

FavInit ==
  /\ favorites = {} /\ made = 0
  /\ handler = [q \in Requests |-> Resting]

-----------------------------------------------------------------------------
RowsOf(d) == {r \in favorites : r.device = d}

\* The rows the two unique indexes hold against a place: the index on stations
\* is partial and leaves out the places without one.
AtStation(d, w) == {r \in RowsOf(d) : w.station # NoStation /\ r.wish.station = w.station}
AtCoords(d, w) == {r \in RowsOf(d) : r.wish.coords = w.coords}
Clashes_NoCoordsIndex(d, w) == AtStation(d, w)
Clashes(d, w) == AtStation(d, w) \cup AtCoords(d, w)

\* The handler goes on, or is done: it has returned, or raised.
Goto(q, place) == handler' = [handler EXCEPT ![q].at = place]
Done(q) == handler' = [handler EXCEPT ![q] = Resting]

\* A device saves a place.
Save(q, d, w) ==
  /\ handler[q].at = "idle"
  /\ handler' = [handler EXCEPT ![q] =
       [at |-> "count", device |-> d, wish |-> w, blockers |-> {}]]
  /\ UNCHANGED <<favorites, made>>

HasRoom_OffByOne(d) == Cardinality(RowsOf(d)) <= FavLimit
HasRoom(d) == Cardinality(RowsOf(d)) < FavLimit

\* count_for_device
Count(q) ==
  /\ handler[q].at = "count"
  /\ IF HasRoom(handler[q].device)
     THEN Goto(q, "insert")
     ELSE Done(q)
  /\ UNCHANGED <<favorites, made>>

\* create: the insert goes in, or a unique index refuses it.
InsertRow(q) ==
  /\ handler[q].at = "insert"
  /\ LET d == handler[q].device
         w == handler[q].wish
     IN IF Clashes(d, w) = {}
        THEN /\ made < MaxRows
             /\ made' = made + 1
             /\ favorites' = favorites \cup {[id |-> made + 1, device |-> d, wish |-> w]}
             /\ Done(q)
        ELSE /\ handler' = [handler EXCEPT
                  ![q].at = IF w.station # NoStation THEN "station" ELSE "coords",
                  ![q].blockers = {r.id : r \in Clashes(d, w)}]
             /\ UNCHANGED <<favorites, made>>

\* find: by the station first ...
FindByStation(q) ==
  /\ handler[q].at = "station"
  /\ IF AtStation(handler[q].device, handler[q].wish) # {}
     THEN Done(q)
     ELSE Goto(q, "coords")
  /\ UNCHANGED <<favorites, made>>

\* ... then by the coordinates. Where nothing is found the save has failed, 404.
LastLook_StationAgain(d, w) == AtStation(d, w)
LastLook(d, w) == AtCoords(d, w)

FindByCoords(q) ==
  /\ handler[q].at = "coords"
  /\ Done(q)
  /\ UNCHANGED <<favorites, made>>

\* A device deletes a row: whatever id it names, only its own goes.
Remove(q, d, id) ==
  /\ handler[q].at = "idle"
  /\ handler' = [handler EXCEPT ![q] = [at |-> "delete", device |-> d, row |-> id]]
  /\ UNCHANGED <<favorites, made>>

Owned(d, id) == {r \in RowsOf(d) : r.id = id}

DeleteRow(q) ==
  /\ handler[q].at = "delete"
  /\ favorites' = favorites \ Owned(handler[q].device, handler[q].row)
  /\ Done(q)
  /\ UNCHANGED made

\* A statement fails, and with it the request.
StatementFails(q) ==
  /\ handler[q] # Resting
  /\ Done(q)
  /\ UNCHANGED <<favorites, made>>

-----------------------------------------------------------------------------
Begin(q) ==
  \E d \in Devices : \/ \E w \in Wishes : Save(q, d, w)
                     \/ \E id \in Ids : id <= made /\ Remove(q, d, id)

Handle(q) ==
  \/ Count(q) \/ InsertRow(q) \/ FindByStation(q) \/ FindByCoords(q)
  \/ DeleteRow(q) \/ StatementFails(q)

FavNext == \E q \in Requests : Begin(q) \/ Handle(q)

FavSpec == FavInit /\ [][FavNext]_favVars

-----------------------------------------------------------------------------
Inserting(d) == {q \in Requests : handler[q].at = "insert" /\ handler[q].device = d}

FavQuota(d) == INSTANCE SoftQuota WITH
  Limit <- FavLimit, held <- Cardinality(RowsOf(d)), cleared <- Inserting(d)

\* The limit of saved places implements SoftQuota for every device: checked by
\* one statement, used up by the next, with duplicates and deletions between.
FavQuotaIsSoft ==
  /\ \A d \in Devices : FavQuota(d)!Init
  /\ [][\A d \in Devices : [FavQuota(d)!Next]_(FavQuota(d)!vars)]_favVars

\* A save is answered with "could not be saved" only if every row that made its
\* insert a duplicate was deleted before it was looked up: by station and by
\* coordinates, for either index may have refused the insert.
FailedOnlyIfDeleted ==
  [][\A q \in Requests :
       FindByCoords(q) /\ LastLook(handler[q].device, handler[q].wish) = {} =>
         handler[q].blockers \cap {r.id : r \in favorites} = {}]_favVars

\* No request removes the row of another device, whatever id it names.
OwnRowsOnly ==
  [][\A r \in favorites \ favorites' :
       \E q \in Requests : DeleteRow(q) /\ handler[q].device = r.device]_favVars

\* The comment on the unique indexes: tapping "save" twice is not an error. At
\* the limit it is: the count comes before the insert that finds the duplicate.
SavedAgainNotRefused ==
  [][\A q \in Requests : Count(q) /\ handler'[q] = Resting =>
       Clashes(handler[q].device, handler[q].wish) = {}]_favVars

-----------------------------------------------------------------------------
\* A row has its id, and a device a place, alone.
RowsUnique ==
  \A r, o \in favorites : r # o =>
    /\ r.id # o.id
    /\ r.device = o.device =>
         /\ r.wish.coords # o.wish.coords
         /\ r.wish.station # NoStation => r.wish.station # o.wish.station

\* What FailedOnlyIfDeleted rests on: the rows that are still to be looked up.
StillToFind ==
  \A q \in Requests : handler[q].at \in {"station", "coords"} =>
    /\ \A id \in handler[q].blockers : id <= made
    /\ \A r \in favorites : r.id \in handler[q].blockers =>
         IF handler[q].at = "station"
         THEN r \in Clashes(handler[q].device, handler[q].wish)
         ELSE r \in AtCoords(handler[q].device, handler[q].wish)

FavInv == FavTypeOK /\ RowsUnique /\ StillToFind
=============================================================================

------------------------------ MODULE DataStore ------------------------------
(***************************************************************************)
(* The script data store, CDataStore (DataStore.cpp): a map of paths to    *)
(* maps of names to values, with "#" indexed names that a store allocates  *)
(* ("Name#" becomes "Name#n") and a retrieve iterates ("Name#n+" becomes   *)
(* the next existing "Name#m", or "" at the end), and the script natives   *)
(* StoreData, RetrieveData, RemoveData and CopyData that use it.           *)
(*                                                                         *)
(* A path or name is a record: "p" is [p, f |-> "plain"], "p#i" is        *)
(* [p, f |-> "fixed", i], "p#" is [p, f |-> "fresh"] and "p#i+" is         *)
(* [p, f |-> "after", i].  Only plain and fixed ones are ever keys.        *)
(* Indices are C++ ints: 32 bits, and INT_MAX is SelectName's sentinel.    *)
(* The script also runs the iteration loop of the comment at lines         *)
(* 249-259 over the names of the root path, between its other calls.       *)
(***************************************************************************)
EXTENDS Integers, FiniteSets, FiniteSetsExt, TLC

CONSTANTS
  Values,     \* the values a script stores
  NameArgs,   \* the Name arguments of StoreData and RetrieveData
  PathArgs,   \* the Path arguments of StoreData and RetrieveData
  NewPaths,   \* the NewPath arguments of CopyData
  NamePats,   \* the Name patterns of RemoveData and CopyData
  PathPats,   \* the Path patterns of RemoveData
  CopyPaths,  \* the source Path of CopyData
  IterPrefix, \* the prefix of the names the script iterates
  MaxIndex,   \* bound on the name indices a store allocates
  MaxPathIndex \* bound on the path indices

VARIABLES store, it
vars == <<store, it>>

IntMax == 2147483647
(* "PrevIndex + 1" on a 32-bit int: INT_MAX + 1 wraps to INT_MIN. *)
Inc32(x) == IF x = IntMax THEN -IntMax - 1 ELSE x + 1

Nm(p, f, i) == [p |-> p, f |-> f, i |-> i]
Plain(p) == Nm(p, "plain", 0)
Fixed(p, i) == Nm(p, "fixed", i)
Fresh(p) == Nm(p, "fresh", 0)
After(p, i) == Nm(p, "after", i)
(* Path->clear() *)
Cleared == Plain("")
(* An argument the script leaves out (GetArgument returns NULL). *)
NoArg == Nm("", "null", 0)
(* The patterns of EnumStore: a literal key, "p#*" and "*". *)
Wild(p) == Nm(p, "wild", 0)
AnyKey == Nm("", "all", 0)
Root == Plain("")
Empty == [k \in {} |-> ""]

(* SelectName with "PrevIndex + 1" left out of the allocation. *)
SelectName_NoInc(K, n, New) ==
  IF n.f \in {"plain", "fixed"} THEN [ok |-> TRUE, n |-> n]
  ELSE LET PrevIndex == IF n.f = "after" THEN n.i ELSE 0
           Cur == {k.i : k \in {k \in K : k.f = "fixed" /\ k.p = n.p}}
           Later == {c \in Cur : PrevIndex < c /\ c < IntMax}
       IN CASE New -> [ok |-> TRUE, n |-> Fixed(n.p, Max(Cur \cup {PrevIndex}))]
            [] Later = {} -> [ok |-> FALSE, n |-> Cleared]
            [] OTHER -> [ok |-> TRUE, n |-> Fixed(n.p, Min(Later))]

(* SelectName stepping past the index right after the previous one. *)
SelectName_Skip(K, n, New) ==
  IF n.f \in {"plain", "fixed"} THEN [ok |-> TRUE, n |-> n]
  ELSE LET PrevIndex == IF n.f = "after" THEN n.i ELSE 0
           Cur == {k.i : k \in {k \in K : k.f = "fixed" /\ k.p = n.p}}
           Later == {c \in Cur : PrevIndex + 1 < c /\ c < IntMax}
       IN CASE New -> [ok |-> TRUE, n |-> Fixed(n.p, Inc32(Max(Cur \cup {PrevIndex})))]
            [] Later = {} -> [ok |-> FALSE, n |-> Cleared]
            [] OTHER -> [ok |-> TRUE, n |-> Fixed(n.p, Min(Later))]

(* SelectName without the clear and "return false" at the end. *)
SelectName_NoClear(K, n, New) ==
  IF n.f \in {"plain", "fixed"} THEN [ok |-> TRUE, n |-> n]
  ELSE LET PrevIndex == IF n.f = "after" THEN n.i ELSE 0
           Cur == {k.i : k \in {k \in K : k.f = "fixed" /\ k.p = n.p}}
           Later == {c \in Cur : PrevIndex < c /\ c < IntMax}
       IN CASE New -> [ok |-> TRUE, n |-> Fixed(n.p, Inc32(Max(Cur \cup {PrevIndex})))]
            [] Later = {} -> [ok |-> TRUE, n |-> n]
            [] OTHER -> [ok |-> TRUE, n |-> Fixed(n.p, Min(Later))]

(* SelectName: a plain or fixed name is taken as it is.  With New, "p#"   *)
(* and "p#i+" become "p#(m+1)" for the largest index m (at least i) of    *)
(* prefix p; without New, the smallest index above i, or a cleared name   *)
(* and FALSE when there is none.  INT_MAX is the "none found" sentinel.   *)
SelectName(K, n, New) ==
  IF n.f \in {"plain", "fixed"} THEN [ok |-> TRUE, n |-> n]
  ELSE LET PrevIndex == IF n.f = "after" THEN n.i ELSE 0
           Cur == {k.i : k \in {k \in K : k.f = "fixed" /\ k.p = n.p}}
           Later == {c \in Cur : PrevIndex < c /\ c < IntMax}
       IN CASE New -> [ok |-> TRUE, n |-> Fixed(n.p, Inc32(Max(Cur \cup {PrevIndex})))]
            [] Later = {} -> [ok |-> FALSE, n |-> Cleared]
            [] OTHER -> [ok |-> TRUE, n |-> Fixed(n.p, Min(Later))]

(* SelectData: the path (the root when none is given) is selected, and   *)
(* created empty when it does not exist, New or not.                      *)
SelectData(st, path, New) ==
  LET r == SelectName(DOMAIN st, IF path = NoArg THEN Root ELSE path, New)
  IN [ok   |-> r.ok,
      path |-> IF path = NoArg THEN NoArg ELSE r.n,
      key  |-> r.n,
      st   |-> IF r.ok /\ r.n \notin DOMAIN st THEN (r.n :> Empty) @@ st ELSE st]

(* SelectEntry: the name in the selected path, created with an empty      *)
(* value when it does not exist, New or not.                               *)
SelectEntry(st, path, name, New) ==
  LET d == SelectData(st, path, New)
      r == SelectName(IF d.ok THEN DOMAIN d.st[d.key] ELSE {}, name, New)
  IN IF ~d.ok THEN [ok |-> FALSE, st |-> d.st, path |-> d.path, name |-> name, key |-> d.key]
     ELSE [ok   |-> r.ok,
           st   |-> IF r.ok /\ r.n \notin DOMAIN d.st[d.key]
                      THEN [d.st EXCEPT ![d.key] = (r.n :> "") @@ @] ELSE d.st,
           path |-> d.path, name |-> r.n, key |-> d.key]

(* wildcmpex, for the patterns of EnumStore. *)
Match(pat, k) ==
  CASE pat.f = "all" -> TRUE
    [] pat.f = "wild" -> k.f = "fixed" /\ k.p = pat.p
    [] OTHER -> k = pat

(* EnumStore's paths: those the pattern matches, every path without one. *)
EnumPaths(st, pathPat) == {pk \in DOMAIN st : pathPat = NoArg \/ Match(pathPat, pk)}
EnumNames(st, pk, namePat) == {nk \in DOMAIN st[pk] : Match(namePat, nk)}

(* RemoveData: without a name the enumerated paths are erased, with one   *)
(* the enumerated names in them.                                           *)
RemoveData(st, pathPat, namePat) ==
  IF namePat = NoArg
    THEN [pk \in DOMAIN st \ EnumPaths(st, pathPat) |-> st[pk]]
    ELSE [pk \in DOMAIN st |->
            IF pk \in EnumPaths(st, pathPat)
              THEN [nk \in DOMAIN st[pk] \ EnumNames(st, pk, namePat) |-> st[pk][nk]]
              ELSE st[pk]]

(* CopyData with the inserts replacing what the target holds. *)
CopyData_Overwrite(st, pathPat, namePat, newPath) ==
  LET d == SelectData(st, newPath, TRUE)
      src == UNION {{<<pk, nk>> : nk \in IF namePat = NoArg THEN DOMAIN st[pk]
                                         ELSE EnumNames(st, pk, namePat)}
                    : pk \in EnumPaths(st, pathPat)}
      add == [nk \in {e[2] : e \in src} |-> LET e == CHOOSE e \in src : e[2] = nk
                                             IN st[e[1]][nk]]
  IN [path |-> d.path, st |-> [d.st EXCEPT ![d.key] = add @@ @]]

(* CopyData: NewPath is selected (created, "p#" made fixed) first; the    *)
(* entries enumerated before are then inserted, map::insert leaving a     *)
(* name the target already has untouched.                                  *)
CopyData(st, pathPat, namePat, newPath) ==
  LET d == SelectData(st, newPath, TRUE)
      src == UNION {{<<pk, nk>> : nk \in IF namePat = NoArg THEN DOMAIN st[pk]
                                         ELSE EnumNames(st, pk, namePat)}
                    : pk \in EnumPaths(st, pathPat)}
      add == [nk \in {e[2] : e \in src} |-> LET e == CHOOSE e \in src : e[2] = nk
                                             IN st[e[1]][nk]]
  IN [path |-> d.path,
      st   |-> [d.st EXCEPT ![d.key] = @ @@ add]]

(***************************************************************************)
(* The script: `it` is its iteration (st: idle, run or done; cur the      *)
(* index in Name; seen the indices it retrieved; stable those of the      *)
(* entries present since it began).  The in/out arguments a call updates *)
(* are the script's own variables; only the iteration's Name is kept.      *)
(***************************************************************************)
IterIdx(st) == IF Root \in DOMAIN st
                 THEN {k.i : k \in {k \in DOMAIN st[Root] : k.f = "fixed" /\ k.p = IterPrefix}}
                 ELSE {}
Track(st2) == IF it.st = "run" THEN [it EXCEPT !.stable = @ \cap IterIdx(st2)] ELSE it

Init ==
  /\ store = Empty
  /\ it = [st |-> "idle", cur |-> 0, seen |-> {}, stable |-> {}]

(* FxStoreData *)
FxStoreData(path, name, value) ==
  IF name = NoArg
    THEN UNCHANGED <<store, it>>
    ELSE LET e == SelectEntry(store, path, name, TRUE)
             st2 == IF e.ok THEN [e.st EXCEPT ![e.key][e.name] = value] ELSE e.st
         IN /\ store' = st2
            /\ it' = Track(st2)

(* FxRetrieveData *)
FxRetrieveData(path, name) ==
  IF name = NoArg
    THEN UNCHANGED <<store, it>>
    ELSE LET e == SelectEntry(store, path, name, FALSE)
         IN /\ store' = e.st
            /\ it' = Track(e.st)

(* FxRemoveData *)
FxRemoveData(pathPat, namePat) ==
  IF pathPat = NoArg /\ namePat = NoArg
    THEN UNCHANGED <<store, it>>
    ELSE LET st2 == RemoveData(store, pathPat, namePat)
         IN /\ store' = st2
            /\ it' = Track(st2)

(* FxCopyData *)
FxCopyData(pathPat, namePat, newPath) ==
  IF pathPat = NoArg \/ newPath = NoArg
    THEN UNCHANGED <<store, it>>
    ELSE LET c == CopyData(store, pathPat, namePat, newPath)
         IN /\ store' = c.st
            /\ it' = Track(c.st)

(* Name = "Name#": the loop begins. *)
IterBegin ==
  /\ it.st # "run"
  /\ it' = [st |-> "run", cur |-> 0, seen |-> {}, stable |-> IterIdx(store)]
  /\ UNCHANGED store

(* Name & "+"; RetrieveData(Name = Name, Value = Value); if(!Name) break *)
IterStep ==
  /\ it.st = "run"
  /\ LET e == SelectEntry(store, NoArg, After(IterPrefix, it.cur), FALSE)
     IN /\ store' = e.st
        /\ it' = IF e.ok
                   THEN [it EXCEPT !.cur = e.name.i, !.seen = @ \cup {e.name.i},
                                   !.stable = @ \cap IterIdx(e.st)]
                   ELSE [it EXCEPT !.st = "done"]

Next ==
  \/ \E p \in PathArgs \cup {NoArg}, n \in NameArgs \cup {NoArg}, v \in Values :
       FxStoreData(p, n, v)
  \/ \E p \in PathArgs \cup {NoArg}, n \in NameArgs \cup {NoArg} : FxRetrieveData(p, n)
  \/ \E p \in PathPats \cup {NoArg}, n \in NamePats \cup {NoArg} : FxRemoveData(p, n)
  \/ \E p \in CopyPaths \cup {NoArg}, n \in NamePats \cup {NoArg}, np \in NewPaths \cup {NoArg} :
       FxCopyData(p, n, np)
  \/ IterBegin
  \/ IterStep

Spec == Init /\ [][Next]_vars

(* A state constraint: no allocated index passes its bound. *)
WithinMaxIndex ==
  \A pk \in DOMAIN store : pk.i <= MaxPathIndex /\ \A nk \in DOMAIN store[pk] : nk.i <= MaxIndex

(***************************************************************************)
(* Properties                                                              *)
(***************************************************************************)

(* Only plain and fixed names become keys of either level, and a value is *)
(* one a script stored or the empty one SelectEntry creates.              *)
DataTypeOK ==
  /\ \A pk \in DOMAIN store :
       /\ pk.f \in {"plain", "fixed"}
       /\ \A nk \in DOMAIN store[pk] : nk.f \in {"plain", "fixed"} /\ store[pk][nk] \in Values \cup {""}
  /\ it.st \in {"idle", "run", "done"}
  /\ it.stable \subseteq IterIdx(store) \/ it.st # "run"

(* StoreData with "Name#" or "Name#n+" never overwrites an entry that     *)
(* exists: in every state, the entry SelectName allocates for such a name, *)
(* on any path, is one the store does not hold yet, whatever value is then *)
(* stored (overwriting an entry with its own value included).              *)
FreshNeverOverwrites ==
  \A p \in PathArgs \cup {NoArg}, n \in NameArgs :
    n.f \in {"fresh", "after"} =>
      LET e == SelectEntry(store, p, n, TRUE)
      IN e.ok => ~(e.key \in DOMAIN store /\ e.name \in DOMAIN store[e.key])

(* The iteration loop of the comment at lines 249-259 ("Name & '+'; ...   *)
(* RetrieveData ...; if(!Name) break") visits, when it ends, every indexed *)
(* entry of its prefix that existed throughout, whatever else the script   *)
(* stored, retrieved, copied or removed between its steps.                 *)
IterationComplete == it.st = "done" => it.stable \subseteq it.seen

(* An entry, once in the store, keeps its value except when StoreData      *)
(* names it, and is erased only by a RemoveData whose patterns match it:   *)
(* RetrieveData and CopyData never change what is stored.                  *)
StoredTo(pk, nk) ==
  \E p \in PathArgs \cup {NoArg}, n \in NameArgs, v \in Values :
    /\ FxStoreData(p, n, v)
    /\ LET e == SelectEntry(store, p, n, TRUE) IN e.key = pk /\ e.name = nk
RemovedBy(pk, nk) ==
  \E pp \in PathPats \cup {NoArg}, np \in NamePats \cup {NoArg} :
    /\ FxRemoveData(pp, np)
    /\ pp = NoArg \/ Match(pp, pk)
    /\ np = NoArg \/ Match(np, nk)
EntriesPersist ==
  [][\A pk \in DOMAIN store : \A nk \in DOMAIN store[pk] :
       \/ pk \in DOMAIN store' /\ nk \in DOMAIN store'[pk] /\ store'[pk][nk] = store[pk][nk]
       \/ StoredTo(pk, nk)
       \/ RemovedBy(pk, nk)]_vars

(* RemoveData without a Path removes from the root path only, as its doc   *)
(* comment says ("If path is not specified the root path is assumed");     *)
(* EnumStore enumerates every path when Path is NULL.                      *)
RemoveDefaultsToRoot ==
  \A np \in NamePats : \A pk \in DOMAIN store \ {Root} :
    RemoveData(store, NoArg, np)[pk] = store[pk]

====

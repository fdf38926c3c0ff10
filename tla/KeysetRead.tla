----------------------------- MODULE KeysetRead -----------------------------
(***************************************************************************)
(* _read_paginated (adapters/repository_postgres.py): a read that may be of   *)
(* any size walks a unique key in pages, each page a statement of its own     *)
(* that sees the table as it then is.  Rows enter, change and leave the set   *)
(* that is read between two pages.                                          *)
(***************************************************************************)
EXTENDS Integers, FiniteSets

CONSTANTS
  Keys,        (* posting ids, in the order of the database                  *)
  Rows,        (* what a row of the result may hold                          *)
  NoRow,       (* the key is not in the set that is read                     *)
  PageSize,    (* _PAGE_SIZE                                                 *)
  Limits,      (* the limits callers ask for                                 *)
  NoLimit,     (* limit=None                                                 *)
  StartTables, (* bound: what the table may hold when the read begins        *)
  MaxWrites    (* bound: writes while the read is in progress                *)

ASSUME KeyAssumption   == IsFiniteSet(Keys) /\ Keys \subseteq Nat \ {0}
ASSUME RowAssumption   == NoRow \notin Rows
ASSUME PageAssumption  == PageSize \in Nat \ {0} /\ MaxWrites \in Nat
ASSUME TableAssumption == StartTables \subseteq [Keys -> Rows \cup {NoRow}]
ASSUME LimitAssumption == Limits \subseteq Nat \cup {NoLimit} /\ NoLimit \notin Nat

VARIABLES
  table,     (* the set that is read, as it is now                           *)
  reading,   (* off, on, or done                                             *)
  limit,
  after,     (* the last key of the last page; 0 is the empty string         *)
  got,       (* rows: what the read has of each key                          *)
  taken,     (* len(rows)                                                    *)
  writes,
  seen       (* history: what the table held of a key since the read began   *)

readVars == <<table, reading, limit, after, got, taken, writes, seen>>

Cell     == Rows \cup {NoRow}
Gotten   == {k \in Keys : got[k] # NoRow}
Present  == {k \in Keys : NoRow \notin seen[k]}

ReadTypeOK ==
  /\ table \in [Keys -> Cell] /\ got \in [Keys -> Cell]
  /\ reading \in {"off", "on", "done"} /\ limit \in Limits
  /\ after \in Nat /\ taken \in Nat
  /\ writes \in 0..MaxWrites
  /\ seen \in [Keys -> SUBSET Cell]

ReadInit ==
  /\ table \in StartTables
  /\ reading = "off" /\ limit \in Limits
  /\ after = 0 /\ got = [k \in Keys |-> NoRow] /\ taken = 0
  /\ writes = 0 /\ seen = [k \in Keys |-> {}]

Begin ==
  /\ reading = "off" /\ reading' = "on"
  /\ seen' = [k \in Keys |-> {table[k]}]
  /\ UNCHANGED <<table, limit, after, got, taken, writes>>

Page == IF limit = NoLimit \/ PageSize < limit - taken THEN PageSize ELSE limit - taken

\* Mutant: OFFSET len(rows) in place of the key.
Offset ==
  {k \in Keys : /\ table[k] # NoRow
                /\ Cardinality({j \in Keys : table[j] # NoRow /\ j < k}) >= taken}

Beyond ==
  {k \in Keys : table[k] # NoRow /\ k > after}

NextPage(page) ==
  /\ reading = "on" /\ Page > 0
  /\ page \in SUBSET Beyond /\ page # {}
  /\ \A k \in page, j \in Beyond : j < k => j \in page
  /\ Cardinality(page) = IF Cardinality(Beyond) < Page THEN Cardinality(Beyond) ELSE Page
  /\ \E last \in page : (\A k \in page : k <= last) /\ after' = last
  /\ got' = [k \in Keys |-> IF k \in page THEN table[k] ELSE got[k]]
  /\ taken' = taken + Cardinality(page)
  /\ UNCHANGED <<table, reading, limit, writes, seen>>

EndRead ==
  /\ reading = "on" /\ (Page <= 0 \/ Beyond = {})
  /\ reading' = "done"
  /\ UNCHANGED <<table, limit, after, got, taken, writes, seen>>

\* Another run's write, or a date that passes: a row enters, changes or leaves.
Write(k, row) ==
  /\ reading = "on" /\ writes < MaxWrites /\ row # table[k]
  /\ table' = [table EXCEPT ![k] = row]
  /\ seen' = [seen EXCEPT ![k] = @ \cup {row}]
  /\ writes' = writes + 1
  /\ UNCHANGED <<reading, limit, after, got, taken>>

ReadStep == \/ Begin \/ EndRead
            \/ \E page \in SUBSET Keys : NextPage(page)
            \/ \E k \in Keys, row \in Cell : Write(k, row)

\* A walk that has ended has each row once, as it was at some time of the walk;
\* it has every row that was there all along, unless the caller's limit is
\* reached, and then those it lacks come after those it has.
ReadIsWhole == reading = "done" =>
  /\ taken = Cardinality(Gotten)
  /\ \A k \in Gotten : got[k] \in seen[k]
  /\ limit # NoLimit => taken <= limit
  /\ \A k \in Present \ Gotten : taken = limit /\ \A j \in Gotten : j < k
=============================================================================

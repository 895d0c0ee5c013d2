-------------------------------- MODULE Logalloc --------------------------------
(***************************************************************************)
(* tsl/alloc/logalloc.c: a circular log of cells.  The first cell of every *)
(* run of cells starts with a header: the length of the run (0: up to the  *)
(* end of the log) and a reference count (0: free).  log_head is where the *)
(* next allocation looks for room.                                         *)
(*                                                                         *)
(* One thread allocates; Threads take references to objects they hold, a   *)
(* load and an increment; objects are released by anybody.  An allocation  *)
(* is one step: a release that happens during its walk only makes cells    *)
(* free that it has not looked at yet, or has already given up on.         *)
(*                                                                         *)
(* Cells inside an object hold what the user writes: Payloads are what     *)
(* such bytes look like when they are taken for a header.  faults collects *)
(* the places where the code does what its callers cannot have asked for;  *)
(* the properties that need it say "as long as there was none".            *)
(***************************************************************************)
EXTENDS Integers, FiniteSets, FiniteSetsExt

CONSTANTS
    NrCells,     \* cells of the log
    CellBytes,   \* cell_size: a cell with its header
    HdrBytes,    \* sizeof(struct logalloc_cell_header)
    MaxByte,     \* 255: both header fields are uint8_t
    Sizes,       \* bytes the user asks for
    Payloads,    \* what users write, read as a header
    Threads,     \* threads that take references
    Explored,    \* faults after which allocations are still looked at
    Objects      \* bound: names for objects in use

ASSUME SizeAssumption ==
    /\ {NrCells, CellBytes, HdrBytes, MaxByte} \subseteq Nat \ {0}
    /\ HdrBytes < CellBytes
    /\ Sizes \subseteq Nat \ {0}
    /\ Payloads \subseteq [nr : 0 .. MaxByte, ref : 0 .. MaxByte]
    /\ Explored \subseteq {"wrapped over", "not marked", "spilled"}

None == "none"
NoObject == [at |-> 0, len |-> 0, refs |-> 0]

VARIABLES
    hdr,         \* what each cell starts with, read as a header
    log_head,    \* the next cell to allocate from
    region,      \* cells prepared at log_head and not finalized, or 0
    live,        \* the objects in use: first cell, cells, references held
    taking,      \* the object each thread is taking a reference to
    faults,      \* what went wrong so far
    open         \* between logalloc_new and logalloc_delete

logVars == <<hdr, log_head, region, live, taking, faults, open>>

Cells == 0 .. NrCells - 1
\* After an access outside of the log nothing more can be said.
Outside == {"read past the end", "wrote past the end"}
Usable == open /\ faults \subseteq Explored

Span(at, len) == at .. at + len - 1
Live == {o \in Objects : live[o].refs > 0}

-------------------------------------------------------------------------------
(* logalloc_alloc.                                                         *)

\* Cells needed for size bytes.  The header is not counted.
CellsFor(size) == (size + CellBytes - 1) \div CellBytes

\* The user of an object writes all of the bytes asked for, behind the header.
Spills(size) == size + HdrBytes > CellsFor(size) * CellBytes

\* The length of the run that starts at cell c.
RunLength(h, c) == IF h[c].nr = 0 THEN NrCells - c ELSE h[c].nr

\* Where a walk over the headers h from cell at is after n runs.
Positions(h, at) ==
    LET pos[n \in 0 .. NrCells] ==
            IF n = 0 THEN at
            ELSE LET c == pos[n - 1] IN IF c \in Cells THEN c + RunLength(h, c) ELSE c
    IN  pos

\* The cells at which a run starts, from cell at on.
RunsFrom(h, at) ==
    LET pos == Positions(h, at) IN {pos[n] : n \in 0 .. NrCells} \cap Cells

\* Mutant: the walk does not look at reference counts.
GatherAny(h, at, req) ==
    LET c == Min({d \in RunsFrom(h, at) : h[d].nr = 0 \/ d - at + h[d].nr >= req})
    IN  [found |-> c - at + RunLength(h, c), last |-> h[c].nr]

\* Mutant: off by one, the last cell of the log is left out.
GatherShort(h, at, req) ==
    LET c == Min({d \in RunsFrom(h, at) :
                     h[d].ref # 0 \/ h[d].nr = 0 \/ d - at + h[d].nr >= req})
    IN  IF h[c].ref # 0 THEN [found |-> c - at, last |-> 0]
        ELSE IF h[c].nr = 0 THEN [found |-> NrCells - at - 1, last |-> 0]
        ELSE [found |-> c - at + h[c].nr, last |-> h[c].nr]

\* The walk over free runs from cell at, up to req cells or the first run in
\* use: the cells found, and the length in the last header.
Gather(h, at, req) ==
    LET c == Min({d \in RunsFrom(h, at) :
                     h[d].ref # 0 \/ h[d].nr = 0 \/ d - at + h[d].nr >= req})
    IN  IF h[c].ref # 0 THEN [found |-> c - at, last |-> 0]
        ELSE IF h[c].nr = 0 THEN [found |-> NrCells - at, last |-> 0]
        ELSE [found |-> c - at + h[c].nr, last |-> h[c].nr]

\* h with an object of len cells put at cell at: its header, what the user
\* writes behind it, and the cell after it if the user's bytes reach that far.
Placed(h, at, len, size, p) ==
    [c \in Cells |->
        CASE c = at                              -> [nr |-> len, ref |-> 1]
          [] c \in Span(at + 1, len - 1)         -> p
          [] c = at + len /\ Spills(size)        -> p
          [] OTHER                               -> h[c]]

\* Mutant: the remaining cells keep whatever header is there.
AllocatedNoRest(h, at, req, size, g, p) == Placed(h, at, req, size, p)

\* The header of what remains of the last run is written before the user writes.
Allocated(h, at, req, size, g, p) ==
    LET rest == at + req
        rem == IF g.last = 0 THEN 0 ELSE g.found - req
    IN  Placed(IF req < g.found THEN [h EXCEPT ![rest] = [nr |-> rem, ref |-> 0]] ELSE h,
               at, req, size, p)

\* Does the request wrap around?  Then the cells from log_head to the end
\* become one free run, whatever they hold.
Wraps(req) == req > NrCells - log_head

Skipped ==
    [hdr EXCEPT ![log_head] = [nr |-> NrCells - log_head, ref |-> 0]]

HeadIsFree == hdr[log_head].ref = 0

InUseBehind == \E o \in Live : live[o].at >= log_head

logalloc_alloc(size) ==
    LET req == CellsFor(size)
        at == IF Wraps(req) THEN 0 ELSE log_head
        h == IF Wraps(req) THEN Skipped ELSE hdr
        g == Gather(h, at, req)
    IN  /\ Usable
        /\ req <= MaxByte /\ req <= NrCells
        /\ HeadIsFree
        /\ region' = 0
        /\ \/ /\ g.found < req
              /\ hdr' = h
              /\ UNCHANGED <<log_head, live>>
           \/ /\ g.found >= req
              /\ \E p \in Payloads : hdr' = Allocated(h, at, req, size, g, p)
              /\ log_head' = (at + req) % NrCells
              /\ \E o \in Objects \ Live :
                     live' = [live EXCEPT ![o] = [at |-> at, len |-> req, refs |-> 1]]
        /\ faults' = faults \cup (IF Wraps(req) /\ InUseBehind THEN {"wrapped over"} ELSE {})
                            \cup (IF g.found >= req /\ Spills(size) THEN {"spilled"} ELSE {})
        /\ UNCHANGED <<taking, open>>

-------------------------------------------------------------------------------
(* logalloc_prepare_region and logalloc_finalize_region.                   *)

\* The walk of logalloc_prepare_region goes on while it has found more than nr
\* cells.  At a 0 header avail_cells, which counts from log_head already, is
\* taken to count from cell 0: the result is a size_t, of 16 bits here.
GatherRegion(nr) ==
    LET stops == {d \in RunsFrom(hdr, log_head) :
                     hdr[d].ref # 0 \/ hdr[d].nr = 0 \/ d - log_head + hdr[d].nr <= nr}
        c == Min(stops)
    IN  IF stops = {} THEN [found |-> 0, how |-> "past"]
        ELSE IF hdr[c].ref # 0 THEN [found |-> c - log_head, how |-> "run"]
        ELSE IF hdr[c].nr = 0 THEN [found |-> (NrCells - 2 * log_head) % 2^16, how |-> "rest"]
        ELSE [found |-> c - log_head + hdr[c].nr, how |-> "run"]

\* The headers behind a prepared region of nr cells: the mark of a free rest,
\* or runs of at most MaxByte cells.
Behind(nr, g) ==
    LET first == log_head + nr
        rem == g.found - nr
        runs == {k \in 0 .. NrCells : k * MaxByte < rem}
    IN  IF g.how = "rest"
        THEN [c \in {first} |-> [nr |-> 0, ref |-> 0]]
        ELSE [c \in {first + k * MaxByte : k \in runs} |->
                [nr |-> Min({MaxByte, first + rem - c}), ref |-> 0]]

PrepareUnsafe(nr, g) ==
    CASE g.how = "past" -> {"read past the end"}
      [] g.how = "rest" /\ g.found >= nr /\ log_head + nr = NrCells -> {"wrote past the end"}
      [] OTHER -> {}

\* The region stays free; its user may fill it at once.
logalloc_prepare_region(size) ==
    LET nr == Min({CellsFor(size), MaxByte})
        g == GatherRegion(nr)
        unsafe == PrepareUnsafe(nr, g)
    IN  /\ Usable
        /\ NrCells - log_head >= nr
        /\ HeadIsFree
        /\ faults' = faults \cup unsafe
        /\ IF unsafe # {} \/ g.found < nr
           THEN UNCHANGED <<hdr, region>>
           ELSE /\ region' = nr
                /\ \E p \in Payloads :
                     hdr' = [c \in Cells |->
                       CASE c = log_head                       -> [nr |-> nr, ref |-> 0]
                         [] c \in Span(log_head + 1, nr - 1)   -> p
                         [] c \in DOMAIN Behind(nr, g)         -> Behind(nr, g)[c]
                         [] OTHER                              -> hdr[c]]
        /\ UNCHANGED <<log_head, live, taking, open>>

\* A region that is used to its last cell is not marked as in use.
logalloc_finalize_region(size) ==
    LET used == CellsFor(size)
        rest == (log_head + used) % NrCells
        all == hdr[log_head].nr = used
    IN  /\ Usable
        /\ region > 0
        /\ used <= MaxByte /\ used <= hdr[log_head].nr
        /\ region' = 0
        /\ log_head' = rest
        /\ hdr' = IF all THEN hdr
                  ELSE [hdr EXCEPT ![log_head] = [nr |-> used, ref |-> 1],
                                   ![rest] = [nr |-> hdr[log_head].nr - used, ref |-> 0]]
        /\ \E o \in Objects \ Live :
              live' = [live EXCEPT ![o] = [at |-> log_head, len |-> used, refs |-> 1]]
        /\ faults' = faults \cup (IF all THEN {"not marked"} ELSE {})
                            \cup (IF Spills(size) THEN {"spilled"} ELSE {})
        /\ UNCHANGED <<taking, open>>

-------------------------------------------------------------------------------
(* logalloc_reference and logalloc_free.                                   *)

Takers(o) == {t \in Threads : taking[t] = o}

\* The caller holds a reference already.
ReferenceCheck(t, o) ==
    /\ open
    /\ taking[t] = None
    /\ o \in Live
    /\ live[o].refs > Cardinality(Takers(o))
    /\ hdr[live[o].at].ref \notin {0, MaxByte}
    /\ taking' = [taking EXCEPT ![t] = o]
    /\ UNCHANGED <<hdr, log_head, region, live, faults, open>>

ReferenceInc(t) ==
    LET o == taking[t]
    IN  /\ open
        /\ o # None
        /\ hdr' = [hdr EXCEPT ![live[o].at].ref = (@ + 1) % (MaxByte + 1)]
        /\ live' = [live EXCEPT ![o].refs = @ + 1]
        /\ taking' = [taking EXCEPT ![t] = None]
        /\ UNCHANGED <<log_head, region, faults, open>>

\* Whoever is taking a reference keeps the one it holds.
logalloc_free(o) ==
    /\ open
    /\ o \in Live
    /\ live[o].refs > Cardinality(Takers(o))
    /\ hdr' = IF hdr[live[o].at].ref = 0 THEN hdr
              ELSE [hdr EXCEPT ![live[o].at].ref = @ - 1]
    /\ live' = IF live[o].refs = 1 THEN [live EXCEPT ![o] = NoObject]
               ELSE [live EXCEPT ![o].refs = @ - 1]
    /\ UNCHANGED <<log_head, region, taking, faults, open>>

-------------------------------------------------------------------------------
(* logalloc_new and logalloc_delete.                                       *)

\* The region comes zeroed: one free run up to the end.
Fresh == [c \in Cells |-> [nr |-> 0, ref |-> 0]]

LogInit ==
    /\ hdr = Fresh
    /\ log_head = 0
    /\ region = 0
    /\ live = [o \in Objects |-> NoObject]
    /\ taking = [t \in Threads |-> None]
    /\ faults = {}
    /\ open = TRUE

logalloc_new ==
    /\ ~open
    /\ hdr' = Fresh
    /\ log_head' = 0
    /\ open' = TRUE
    /\ UNCHANGED <<region, live, taking, faults>>

\* Objects still in use go with it.
logalloc_delete ==
    /\ open
    /\ \A t \in Threads : taking[t] = None
    /\ open' = FALSE
    /\ region' = 0
    /\ live' = [o \in Objects |-> NoObject]
    /\ faults' = {}
    /\ UNCHANGED <<hdr, log_head, taking>>

LogNext ==
    \/ logalloc_new
    \/ logalloc_delete
    \/ \E size \in Sizes : \/ logalloc_alloc(size)
                           \/ logalloc_prepare_region(size)
                           \/ logalloc_finalize_region(size)
    \/ \E o \in Objects : logalloc_free(o) \/ \E t \in Threads : ReferenceCheck(t, o)
    \/ \E t \in Threads : ReferenceInc(t)

LogSpec == LogInit /\ [][LogNext]_logVars

-------------------------------------------------------------------------------
(* Properties.                                                             *)

\* The cells at which a run starts, walking the log from its start.
Runs == RunsFrom(hdr, 0)

Disjoint ==
    /\ \A o \in Live : Span(live[o].at, live[o].len) \subseteq Cells
    /\ \A o, p \in Live :
          o # p => Span(live[o].at, live[o].len) \cap Span(live[p].at, live[p].len) = {}

\* With one allocating thread no cell is in two objects (logalloc_alloc,
\* logalloc_finalize_region), as long as no request wrapped around over an object
\* in use (line 194), no region was used to its last cell (line 442) or reached
\* past its log (lines 358 and 394), and every object fits into its cells with the
\* header that line 169 does not count.
NoOverlap == faults = {} => Disjoint

\* Under the same conditions, and when no two threads take a reference to one
\* object at once, the headers are true: the log is cut into runs at log_head and
\* at every object, and the runs in use are the objects, with the references held
\* to them, the limit of the count included.
HeadersTrue ==
    open /\ faults = {} =>
        /\ log_head \in Runs
        /\ \A o \in Live : /\ live[o].at \in Runs
                           /\ hdr[live[o].at].nr = live[o].len
                           /\ hdr[live[o].at].ref = live[o].refs
        /\ \A c \in Runs : /\ c + hdr[c].nr <= NrCells
                           /\ hdr[c].ref # 0 => \E o \in Live : live[o].at = c

\* Under the conditions of NoOverlap nothing leaks: when every object has been
\* released, whatever fits into the log can be allocated, wherever log_head is.
EmptyServes ==
    open /\ faults = {} /\ Live = {} =>
        \A size \in Sizes :
            LET req == CellsFor(size)
                at == IF Wraps(req) THEN 0 ELSE log_head
            IN  req <= Min({NrCells, MaxByte}) =>
                    /\ HeadIsFree
                    /\ Gather(IF Wraps(req) THEN Skipped ELSE hdr, at, req).found >= req

\* logalloc.h:91 allocates objects: they do not share cells, whatever happened.
NeverOverlap == Disjoint

\* A region handed out by logalloc_prepare_region lies in the log, and so does
\* what the function looks at.
StaysInside == faults \cap Outside = {}

\* An object occupies CEIL(size / cell_size) cells (logalloc.h:93), header
\* included.
FitsItsCells == "spilled" \notin faults
===============================================================================

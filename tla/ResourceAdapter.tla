-------------------------- MODULE ResourceAdapter --------------------------
(***************************************************************************)
(* Nested resource adapters: ResourceAdapter::compose() makes one adapter  *)
(* of several, whose open() asks each in turn and chains the handles they  *)
(* answer.  The first adapter is the outermost: it prepares the request    *)
(* first and transforms the response last.                                 *)
(*                                                                         *)
(* Every handle of the chain is taken to keep the promise ResourceHandle   *)
(* states; the chain is then shown to keep it as well, so that an adapter  *)
(* that is itself composed may stand for one handle.                       *)
(***************************************************************************)
EXTENDS Naturals, SequencesExt

CONSTANTS
    MaxAdapters,    \* bound: entries passed to compose()
    MaxBlocks       \* bound: blocks of the response

ASSUME ResourceAdapterAssumption == MaxAdapters \in Nat /\ MaxBlocks \in Nat

Adapters == 1..MaxAdapters

VARIABLES
    adapters,       \* how many adapters compose() kept, the first the outermost
    phase,          \* where the owner of the opened resource is
    current,        \* open(): the description passed to the next adapter
    seen,           \* history: the descriptions the adapters were given
    handles,        \* the handles of the chain, by the adapters that answered them
    metadata,       \* the handles that have normalized the response's metadata
    count,          \* the loop of on_response() and final(): handles yet to call
    todo,           \* per handle: blocks its running call has yet to write
    kept,           \* per handle: blocks it keeps back
    fed,            \* blocks the transport has passed in
    delivered       \* blocks written to the consumer

vars == <<adapters, phase, current, seen, handles, metadata, count, todo, kept, fed, delivered>>

opening == <<adapters, current, seen, handles>>
streaming == <<todo, kept, fed, delivered>>

\* A block of the response and the handles that have transformed it.
Blocks == [id : 1..MaxBlocks, through : BoundedSeq(Adapters, MaxAdapters)]

\* parent_url and content_type_hint: as they were given, or what a move leaves of them.
Descriptions == [url : Seq(Adapters), ancestry : {"given", "moved from"}]

TypeOK ==
    /\ adapters \in Adapters
    /\ phase \in {"opening", "responding", "opened", "ready", "updating", "finalizing", "ended", "failed"}
    /\ current \in Descriptions
    /\ seen \in Seq(Descriptions)
    /\ handles \in Seq(Adapters)
    /\ metadata \in Seq(Adapters)
    /\ count \in 0..MaxAdapters
    /\ todo \in [Adapters -> Seq(Blocks)]
    /\ kept \in [Adapters -> Seq(Blocks)]
    /\ fed \in 0..MaxBlocks
    /\ delivered \in Seq(Blocks)

\* compose() has erased null entries; with none left there is nothing to open.
Init ==
    /\ adapters \in Adapters
    /\ phase = "opening"
    /\ current = [url |-> <<>>, ancestry |-> "given"]
    /\ seen = <<>>
    /\ handles = <<>>
    /\ metadata = <<>>
    /\ count = 0
    /\ todo = [h \in Adapters |-> <<>>]
    /\ kept = [h \in Adapters |-> <<>>]
    /\ fed = 0
    /\ delivered = <<>>

-----------------------------------------------------------------------------
(* open() *)

\* What is left of the description once it was moved into a call of open() and the
\* request answered was copied back; an adapter that is alone is called directly.
Prepared(adapter, rewrites) ==
    [url |-> IF rewrites THEN Append(current.url, adapter) ELSE current.url,
     ancestry |-> "moved from"]

\* One adapter is asked: it may rewrite the URL or the headers, and may answer a handle.
OpenNext(rewrites, hasHandle) ==
    /\ phase = "opening"
    /\ Len(seen) < adapters
    /\ LET adapter == Len(seen) + 1 IN
        /\ current' = Prepared(adapter, rewrites)
        /\ handles' = IF hasHandle THEN Append(handles, adapter) ELSE handles
    /\ seen' = Append(seen, current)
    /\ UNCHANGED <<adapters, phase, metadata, count, streaming>>

OpenFails ==
    /\ phase = "opening"
    /\ Len(seen) < adapters
    /\ phase' = "failed"
    /\ handles' = <<>>
    /\ seen' = Append(seen, current)
    /\ UNCHANGED <<adapters, current, metadata, count, streaming>>

Opened ==
    /\ phase = "opening"
    /\ Len(seen) = adapters
    /\ phase' = "opened"
    /\ UNCHANGED <<opening, metadata, count, streaming>>

-----------------------------------------------------------------------------
(* on_response(): from the last handle to the first *)

\* Without a handle the transport passes the response through and calls nothing.
OnResponse ==
    /\ phase = "opened"
    /\ handles # <<>>
    /\ phase' = "responding"
    /\ count' = Len(handles)
    /\ UNCHANGED <<opening, metadata, streaming>>

\* A variant that begins with the first handle.
NormalizeForward ==
    /\ phase = "responding"
    /\ count > 0
    /\ metadata' = Append(metadata, handles[Len(handles) + 1 - count])
    /\ count' = count - 1
    /\ UNCHANGED <<opening, phase, streaming>>

Normalize ==
    /\ phase = "responding"
    /\ count > 0
    /\ metadata' = Append(metadata, handles[count])
    /\ count' = count - 1
    /\ UNCHANGED <<opening, phase, streaming>>

ResponseReturns ==
    /\ phase = "responding"
    /\ count = 0
    /\ phase' = "ready"
    /\ UNCHANGED <<opening, metadata, count, streaming>>

-----------------------------------------------------------------------------
(* Blocks on their way through the chain *)

Busy == phase \in {"updating", "finalizing"}

\* The handle whose call is innermost on the stack: those before it are not running.
Running(h) == todo[h] # <<>> /\ \A g \in 1..(h - 1) : todo[g] = <<>>

Settled == \A h \in Adapters : todo[h] = <<>>

\* The handle whose output is the update() of another one, as update_prefix() counts.
Before(h) == h - 1

\* A handle's own update(): of what it kept and the block it writes some now.
Transform(h, block, writes, calls) ==
    LET all == Append(kept[h], [id |-> block.id, through |-> Append(block.through, handles[h])]) IN
    /\ writes <= Len(all)
    /\ todo' = [calls EXCEPT ![h] = SubSeq(all, 1, writes)]
    /\ kept' = [kept EXCEPT ![h] = SubSeq(all, writes + 1, Len(all))]

\* update_prefix(): the block is an update() of the count-th handle, or if there is
\* none it reaches the consumer.
UpdatePrefix(n, block, writes, calls) ==
    IF n = 0
      THEN /\ writes = 0
           /\ delivered' = Append(delivered, block)
           /\ todo' = calls
           /\ UNCHANGED kept
      ELSE Transform(n, block, writes, calls) /\ UNCHANGED delivered

\* The transport passes a block to the last handle.
Update(writes) ==
    /\ phase = "ready"
    /\ fed < MaxBlocks
    /\ fed' = fed + 1
    /\ phase' = "updating"
    /\ UpdatePrefix(Len(handles), [id |-> fed + 1, through |-> <<>>], writes, todo)
    /\ UNCHANGED <<opening, metadata, count>>

\* ForwardingOutput::write(): the next block a running handle writes.
Forward(h, writes) ==
    /\ Busy
    /\ Running(h)
    /\ UpdatePrefix(Before(h), Head(todo[h]), writes, [todo EXCEPT ![h] = Tail(@)])
    /\ UNCHANGED <<opening, phase, metadata, count, fed>>

UpdateReturns ==
    /\ phase = "updating"
    /\ Settled
    /\ phase' = "ready"
    /\ UNCHANGED <<opening, metadata, count, streaming>>

-----------------------------------------------------------------------------
(* final(), after the transport has seen the end of the response *)

Final ==
    /\ phase = "ready"
    /\ phase' = "finalizing"
    /\ count' = Len(handles)
    /\ UNCHANGED <<opening, metadata, streaming>>

\* A variant that begins with the first handle.
FinalFromFirst ==
    /\ phase = "finalizing"
    /\ Settled
    /\ count > 0
    /\ LET h == Len(handles) + 1 - count IN
        /\ todo' = [todo EXCEPT ![h] = kept[h]]
        /\ kept' = [kept EXCEPT ![h] = <<>>]
    /\ count' = count - 1
    /\ UNCHANGED <<opening, phase, metadata, fed, delivered>>

\* The next handle's own final() writes all it kept; the handles before it still
\* transform that.
FinalNext ==
    /\ phase = "finalizing"
    /\ Settled
    /\ count > 0
    /\ todo' = [todo EXCEPT ![count] = kept[count]]
    /\ kept' = [kept EXCEPT ![count] = <<>>]
    /\ count' = count - 1
    /\ UNCHANGED <<opening, phase, metadata, fed, delivered>>

FinalReturns ==
    /\ phase = "finalizing"
    /\ Settled
    /\ count = 0
    /\ phase' = "ended"
    /\ UNCHANGED <<opening, metadata, count, streaming>>

\* Any call of a handle or of the consumer's output answers an error, which every
\* caller passes on, or the transport gives up: the handles are destroyed.
Abort ==
    /\ phase \in {"responding", "opened", "ready", "updating", "finalizing"}
    /\ phase' = "failed"
    /\ UNCHANGED <<opening, metadata, count, streaming>>

Next ==
    \/ \E rewrites, hasHandle \in BOOLEAN : OpenNext(rewrites, hasHandle)
    \/ OpenFails
    \/ Opened
    \/ OnResponse
    \/ Normalize
    \/ ResponseReturns
    \/ \E writes \in 0..MaxBlocks : Update(writes)
    \/ \E h \in Adapters, writes \in 0..MaxBlocks : Forward(h, writes)
    \/ UpdateReturns
    \/ Final
    \/ FinalNext
    \/ FinalReturns
    \/ Abort

Spec == Init /\ [][Next]_vars

-----------------------------------------------------------------------------
(* Properties *)

\* "inner response transformations run before outer ones" (ResourceAdapter.hpp:218):
\* metadata and every block pass each handle once, the last one first.
InnermostFirst ==
    /\ phase \in {"ready", "updating", "finalizing", "ended"} => metadata = Reverse(handles)
    /\ \A i \in DOMAIN delivered : delivered[i].through = Reverse(handles)

Rests(h) == kept'[h] = <<>> /\ Len(todo'[h]) <= Len(todo[h])

FinalizedRest == \A h \in 1..Len(handles) : phase = "finalizing" /\ count < h => Rests(h)

\* A handle whose final() was called takes in no further block: only those before it
\* still transform what later ones flush.
FinalizedHandlesRest == [][FinalizedRest]_vars

\* The chain is a handle: blocks leave it in order, none twice, and none is left in it
\* once final() has answered.
Promise == INSTANCE ResourceHandle WITH
    state <- IF phase \in {"opening", "responding"} THEN "opened" ELSE phase,
    taken <- fed,
    given <- [i \in DOMAIN delivered |-> delivered[i].id]

KeepsThePromise == Promise!Spec

\* parent_url is the "URL of the manifest that discovered" the resource, "if any"
\* (ResourceAdapter.hpp:57), whichever adapter of a chain reads it.
EveryAdapterSeesTheManifest ==
    \A i \in DOMAIN seen : seen[i].ancestry = "given"

=============================================================================

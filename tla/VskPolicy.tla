----------------------------- MODULE VskPolicy ------------------------------
(***************************************************************************)
(* The authority half of the VSK policy (sandbox/vsk/src/vf_policy.c):     *)
(* cells hold capabilities that name a grant of memory, pass restricted    *)
(* duplicates on, use them to let the CPU or a device reach its pages, and *)
(* its owner revokes it so that the pages can be used again.               *)
(*                                                                         *)
(* The code decides; a trusted root, which the repository only describes   *)
(* (vf_policy.h), keeps the tables, holds their lock from a decision to    *)
(* what follows from it, takes the references and does the hardware work.  *)
(* An action is one such locked section.  A call the code refuses changes  *)
(* nothing.  One set of pages is granted again and again: object counts    *)
(* the grants.  No handle is ever issued twice (vf_policy.h: no generation *)
(* wraps).                                                                 *)
(***************************************************************************)
EXTENDS VskBlock, FiniteSets

CONSTANTS Cells, Slots,
          Owners,           \* the cells whose memory is granted
          AllRights,        \* the rights there are
          FirstRights,      \* sets of them the root may give the first holder
          DupRights,        \* sets of rights a duplicate may be asked for
          Horizon,          \* bound on the clock and the expiry dates
          MaxGeneration,    \* bound on the capabilities issued
          MaxDevice,        \* bound on the generations of the disk
          GrantBytes,       \* the size of the granted memory
          Spans,            \* [offset, bytes] of the payloads of messages
          Selected,         \* the selector in the configuration
          Inventories,      \* what discovery may find, by disk generation
          Requests,         \* the block requests of the guest
          Depth             \* bound on the requests a device carries out at once

ASSUME PolicyAssumption ==
    /\ Horizon \in Nat /\ MaxGeneration \in Nat
    /\ MaxDevice \in Nat \ {0}
    /\ FirstRights \subseteq SUBSET AllRights
    /\ Selected \in Selector
    /\ Requests \subseteq Request
    /\ \A d \in 1 .. MaxDevice : Inventories[d] \subseteq SUBSET Partition

VARIABLES table,        \* the capabilities, all of the present grant
          grant,        \* the canonical grant object
          refs,         \* the references held on it, each with its handle
          reach,        \* how the hardware can still reach its pages
          issued,       \* history: every handle and the object it was for
          generation,   \* the generation last used
          now,
          device,       \* the generation of the disk
          inventory,    \* the partition records of the last discovery
          binding,      \* the binding made, if any
          io            \* the plans the device is carrying out

blockVars == <<device, inventory, binding, io>>
grantVars == <<table, grant, refs, reach, issued, generation>>
vars == <<grantVars, now, blockVars>>

Flags == {"pages_pinned", "dma_ever_mapped", "device_drained",
          "ept_invalidated", "iotlb_invalidated"}

\* The pages are reached through a translation a CPU may hold, through one
\* the IOMMU may hold, and by transfers a device has not finished.
Ways == {"ept", "iotlb", "transfer"}

Handle == [slot : Slots, generation : 1 .. MaxGeneration]

Capability == [slot : Slots, generation : 1 .. MaxGeneration,
               holder_cell : Cells, rights : SUBSET AllRights,
               state : {"live", "revoked"}, object_id : Nat,
               valid_from : Nat, expires_at : Nat]

Issue(c) == [holder_cell |-> c.holder_cell, slot |-> c.slot,
             generation |-> c.generation, object_id |-> c.object_id]

Reference(kind, caller, h) ==
    [kind |-> kind, holder_cell |-> caller, slot |-> h.slot,
     generation |-> h.generation]

Held(kind) == {r \in refs : r.kind = kind}

Init ==
    /\ table = {} /\ refs = {} /\ reach = {} /\ issued = {}
    /\ grant = [state |-> "free", object_id |-> 0, owner_cell |-> "none",
                flags |-> {}, rights |-> {}, valid_from |-> 0,
                expires_at |-> 0]
    /\ generation = 0
    /\ now = 0
    /\ device = 1
    /\ inventory = {}
    /\ binding = {}
    /\ io = {}

(***************************************************************************)
(* vf_check_cap, vf_cap_lookup and vf_validate_payload_grant: whether they *)
(* return the entry c.                                                     *)
(***************************************************************************)
\* Mutant: the generation half of a handle is ignored.
CheckCapBySlot(c, caller, h, rights) ==
    /\ c.holder_cell = caller
    /\ c.slot = h.slot
    /\ c.state = "live"
    /\ c.valid_from < c.expires_at
    /\ c.valid_from <= now
    /\ now < c.expires_at
    /\ rights \subseteq c.rights

CheckCap(c, caller, h, rights) ==
    /\ c.holder_cell = caller
    /\ c.slot = h.slot /\ c.generation = h.generation
    /\ c.state = "live"
    /\ c.valid_from < c.expires_at
    /\ c.valid_from <= now
    /\ now < c.expires_at
    /\ rights \subseteq c.rights

Matches(caller, slot) ==
    {c \in table : c.holder_cell = caller /\ c.slot = slot}

Lookup(c, caller, h, rights) ==
    /\ Matches(caller, h.slot) = {c}
    /\ CheckCap(c, caller, h, rights)

ValidatePayload(c, caller, h, rights, span) ==
    /\ Lookup(c, caller, h, rights)
    /\ grant.state = "live"
    /\ span.offset <= GrantBytes
    /\ span.bytes <= Minus(GrantBytes, span.offset)

(***************************************************************************)
(* The root creates a grant for its pages, owned by one cell, and gives a  *)
(* capability for it to one holder.                                        *)
(***************************************************************************)
Create(owner, holder, slot, rights, until) ==
    /\ grant.state = "free"
    /\ generation < MaxGeneration
    /\ until > now
    /\ generation' = generation + 1
    /\ grant' = [state |-> "live", object_id |-> grant.object_id + 1,
                 owner_cell |-> owner, flags |-> {}, rights |-> rights,
                 valid_from |-> now, expires_at |-> until]
    /\ table' = {[slot |-> slot, generation |-> generation + 1,
                  holder_cell |-> holder, rights |-> rights,
                  state |-> "live", object_id |-> grant.object_id + 1,
                  valid_from |-> now, expires_at |-> until]}
    /\ issued' = issued \cup
           {[holder_cell |-> holder, slot |-> slot,
             generation |-> generation + 1,
             object_id |-> grant.object_id + 1]}
    /\ UNCHANGED <<refs, reach, now, blockVars>>

(***************************************************************************)
(* vf_cap_dup_restricted, and the root entering the duplicate it returns.  *)
(* The new slot and generation are the root's, rights and expiry the       *)
(* caller's.                                                               *)
(***************************************************************************)
Duplicate(c, target, slot, rights, until) ==
    [c EXCEPT !.slot = slot, !.generation = generation + 1,
              !.holder_cell = target, !.rights = rights,
              !.valid_from = now, !.expires_at = until]

\* Mutant: the rights asked for are not compared with those that are held.
DupAnyRights(caller, h, target, slot, rights, until) ==
    /\ generation < MaxGeneration
    /\ Matches(target, slot) = {}
    /\ \E c \in table :
        /\ Lookup(c, caller, h, {"dup"})
        /\ until > now
        /\ until <= c.expires_at
        /\ generation' = generation + 1
        /\ table' = table \cup {Duplicate(c, target, slot, rights, until)}
        /\ issued' = issued \cup
               {Issue(Duplicate(c, target, slot, rights, until))}
    /\ UNCHANGED <<grant, refs, reach, now, blockVars>>

Dup(caller, h, target, slot, rights, until) ==
    /\ generation < MaxGeneration
    /\ Matches(target, slot) = {}
    /\ \E c \in table :
        /\ Lookup(c, caller, h, rights \cup {"dup"})
        /\ until > now
        /\ until <= c.expires_at
        /\ generation' = generation + 1
        /\ table' = table \cup {Duplicate(c, target, slot, rights, until)}
        /\ issued' = issued \cup
               {Issue(Duplicate(c, target, slot, rights, until))}
    /\ UNCHANGED <<grant, refs, reach, now, blockVars>>

(***************************************************************************)
(* The uses of a grant, each a decision and the reference the root then    *)
(* takes: the CPU reads or writes a payload, and a cell maps the pages for *)
(* a device.                                                               *)
(***************************************************************************)
Access(caller, h, right, span) ==
    /\ \E c \in table : ValidatePayload(c, caller, h, {right}, span)
    /\ refs' = refs \cup {Reference("cpu", caller, h)}
    /\ reach' = reach \cup {"ept"}
    /\ UNCHANGED <<table, grant, issued, generation, now, blockVars>>

MapDma(caller, h) ==
    /\ \E c \in table : Lookup(c, caller, h, {"dma"})
    /\ refs' = refs \cup {Reference("dma", caller, h)}
    /\ reach' = reach \cup {"iotlb", "transfer"}
    /\ grant' = [grant EXCEPT !.flags =
                    @ \cup {"pages_pinned", "dma_ever_mapped"}]
    /\ UNCHANGED <<table, issued, generation, now, blockVars>>

(***************************************************************************)
(* A block request: vf_plan_block_request on the binding, and for a read   *)
(* or a write vf_validate_payload_grant on the memory it moves, which the  *)
(* device reaches until the transfer ends.  A flush moves nothing.         *)
(***************************************************************************)
Flush(request) ==
    /\ Cardinality(io) < Depth
    /\ request.opcode = "flush"
    /\ \E b \in binding : /\ Plans(b, device, request)
                         /\ io' = io \cup {Plan(b, request)}
    /\ UNCHANGED <<grantVars, now, device, inventory, binding>>

Submit(caller, h, span, request) ==
    /\ Cardinality(io) < Depth
    /\ request.opcode # "flush"
    /\ \E c \in table :
        ValidatePayload(c, caller, h,
            {IF request.opcode = "write" THEN "read" ELSE "write"}, span)
    /\ \E b \in binding : /\ Plans(b, device, request)
                         /\ io' = io \cup {Plan(b, request)}
    /\ refs' = refs \cup {Reference("dma", caller, h)}
    /\ reach' = reach \cup {"iotlb", "transfer"}
    /\ grant' = [grant EXCEPT !.flags =
                    @ \cup {"pages_pinned", "dma_ever_mapped"}]
    /\ UNCHANGED <<table, issued, generation, now, device, inventory,
                   binding>>

Complete(plan) ==
    /\ io' = io \ {plan}
    /\ UNCHANGED <<grantVars, now, device, inventory, binding>>

(***************************************************************************)
(* The root's side of taking access away: a reference is given back, which *)
(* leaves translations and transfers behind it, and the hardware is        *)
(* cleared of them and the acknowledgement recorded.  It may do that       *)
(* whenever nothing refers to the pages that way.                          *)
(***************************************************************************)
Release(r) ==
    /\ refs' = refs \ {r}
    /\ UNCHANGED <<table, grant, reach, issued, generation, now, blockVars>>

Acknowledge(kind, way, flag) ==
    /\ grant.state # "free"
    /\ Held(kind) = {}
    /\ reach' = reach \ {way}
    /\ grant' = [grant EXCEPT !.flags = @ \cup {flag}]

InvalidateEpt ==
    /\ Acknowledge("cpu", "ept", "ept_invalidated")
    /\ UNCHANGED <<table, refs, issued, generation, now, blockVars>>

InvalidateIotlb ==
    /\ Acknowledge("dma", "iotlb", "iotlb_invalidated")
    /\ UNCHANGED <<table, refs, issued, generation, now, blockVars>>

Drain ==
    /\ Acknowledge("dma", "transfer", "device_drained")
    /\ io' = {}
    /\ UNCHANGED <<table, refs, issued, generation, now, device, inventory,
                   binding>>

(***************************************************************************)
(* vf_grant_begin_revoke, and the root revoking every view of the grant.   *)
(***************************************************************************)
\* Mutant: acknowledgements of before the revocation stay.
BeginRevokeKeepsAcks(caller) ==
    /\ grant.state = "live"
    /\ grant.owner_cell = caller
    /\ \E c \in table : c.state = "live"
    /\ grant' = [grant EXCEPT !.state = "revoking"]
    /\ table' = {[c EXCEPT !.state = "revoked"] : c \in table}
    /\ UNCHANGED <<refs, reach, issued, generation, now, blockVars>>

BeginRevoke(caller) ==
    /\ grant.state = "live"
    /\ grant.owner_cell = caller
    /\ \E c \in table : c.state = "live"
    /\ grant' = [grant EXCEPT
                    !.state = "revoking",
                    !.flags = @ \ {"ept_invalidated", "iotlb_invalidated",
                                   "device_drained"}]
    /\ table' = {[c EXCEPT !.state = "revoked"] : c \in table}
    /\ UNCHANGED <<refs, reach, issued, generation, now, blockVars>>

(***************************************************************************)
(* vf_grant_reclaim_ready, and the root taking the pages back: the views   *)
(* go, and their slots are used again under later generations.             *)
(***************************************************************************)
ReclaimReady ==
    /\ grant.state = "revoking"
    /\ \A c \in table : c.state = "revoked"
    /\ refs = {}
    /\ "ept_invalidated" \in grant.flags
    /\ "dma_ever_mapped" \in grant.flags
         => {"pages_pinned", "device_drained", "iotlb_invalidated"}
                \subseteq grant.flags

Reclaim ==
    /\ ReclaimReady
    /\ grant' = [grant EXCEPT !.state = "free"]
    /\ table' = {}
    /\ UNCHANGED <<refs, reach, issued, generation, now, blockVars>>

(***************************************************************************)
(* The disk: a reset starts a new generation and ends what was under way,  *)
(* discovery reads the partitions afresh, and the root binds the           *)
(* configured selector to what was found.                                  *)
(***************************************************************************)
Reset ==
    /\ device < MaxDevice
    /\ device' = device + 1
    /\ io' = {}
    /\ UNCHANGED <<grantVars, now, inventory, binding>>

Discover(found) ==
    /\ io = {}
    /\ \A p \in inventory : p.device_generation # device
    /\ inventory' = {[p EXCEPT !.device_generation = device] : p \in found}
    /\ UNCHANGED <<grantVars, now, device, binding, io>>

Bind ==
    /\ \E p \in inventory :
        /\ Binds(Selected, inventory, p)
        /\ binding' = {Binding(Selected, p)}
    /\ UNCHANGED <<grantVars, now, device, inventory, io>>

Tick ==
    /\ now < Horizon
    /\ now' = now + 1
    /\ UNCHANGED <<grantVars, blockVars>>

Dates == 1 .. (Horizon + 1)

Next ==
    \/ \E owner \in Owners, holder \in Cells, slot \in Slots,
          rights \in FirstRights, until \in Dates :
        Create(owner, holder, slot, rights, until)
    \/ \E caller, target \in Cells, h \in Handle, slot \in Slots,
          rights \in DupRights, until \in Dates :
        Dup(caller, h, target, slot, rights, until)
    \/ \E caller \in Cells, h \in Handle, right \in {"read", "write"},
          span \in Spans : Access(caller, h, right, span)
    \/ \E caller \in Cells, h \in Handle : MapDma(caller, h)
    \/ \E request \in Requests : Flush(request)
    \/ \E caller \in Cells, h \in Handle, span \in Spans,
          request \in Requests : Submit(caller, h, span, request)
    \/ \E plan \in io : Complete(plan)
    \/ \E r \in refs : Release(r)
    \/ InvalidateEpt \/ InvalidateIotlb \/ Drain
    \/ \E caller \in Cells : BeginRevoke(caller)
    \/ Reclaim
    \/ Reset \/ Bind \/ Tick
    \/ \E found \in Inventories[device] : Discover(found)

Spec == Init /\ [][Next]_vars
-----------------------------------------------------------------------------
(***************************************************************************)
(* The variables stay within these sets.                                   *)
(***************************************************************************)
PlanType == [opcode : {"read", "write", "flush"}, flags : {0, 1},
             physical_lba : Unsigned, blocks : Unsigned, bytes : Unsigned]

TypeOK ==
    /\ table \subseteq Capability
    /\ grant \in [state : {"free", "live", "revoking"}, object_id : Nat,
                  owner_cell : Owners \cup {"none"}, flags : SUBSET Flags,
                  rights : SUBSET AllRights, valid_from : Nat,
                  expires_at : Nat]
    /\ refs \subseteq [kind : {"cpu", "dma"}, holder_cell : Cells,
                       slot : Slots, generation : 1 .. MaxGeneration]
    /\ reach \subseteq Ways
    /\ issued \subseteq [holder_cell : Cells, slot : Slots,
                         generation : 1 .. MaxGeneration, object_id : Nat]
    /\ generation \in 0 .. MaxGeneration
    /\ now \in Nat
    /\ device \in 1 .. MaxDevice
    /\ inventory \subseteq Partition
    /\ binding \subseteq [partition : Partition, read_only : {0, 1}]
    /\ io \subseteq PlanType

(***************************************************************************)
(* vf_policy.c:172-196: when a grant has been reclaimed and its pages are  *)
(* free for other use, no CPU or IOMMU translation leads to them and no    *)
(* device transfer to or from them is unfinished, however many references  *)
(* came and went and whatever was acknowledged before the revocation.      *)
(***************************************************************************)
ReclaimedIsUnreachable ==
    grant.state = "free" => refs = {} /\ reach = {}

(***************************************************************************)
(* vf_policy.c:108-140: along any chain of duplicates, no capability has a *)
(* right the first holder was not given or is good outside the time it was *)
(* given for.                                                              *)
(***************************************************************************)
NeverAmplified ==
    \A c \in table : /\ c.object_id = grant.object_id
                     /\ c.rights \subseteq grant.rights
                     /\ c.valid_from >= grant.valid_from
                     /\ c.expires_at <= grant.expires_at

(***************************************************************************)
(* vf_policy.c:73-107 and 141-171: every reference on the present grant    *)
(* was taken with a handle that its cell was given for this grant and for  *)
(* no earlier one: a handle of a grant that is gone opens nothing, even    *)
(* after its slot is used again.                                           *)
(***************************************************************************)
HandlesOf(r) == {i \in issued : /\ i.holder_cell = r.holder_cell
                                /\ i.slot = r.slot
                                /\ i.generation = r.generation}

HandlesAreCurrent ==
    \A r \in refs : /\ HandlesOf(r) # {}
                    /\ \A i \in HandlesOf(r) : i.object_id = grant.object_id

(***************************************************************************)
(* vf_policy.c:248-320: what the device carries out lies inside the        *)
(* partition the selector names as the disk has it now, which lies on the  *)
(* disk, with no number wrapped; and a partition that either side calls    *)
(* read-only is not written.                                               *)
(***************************************************************************)
TransfersStayInside ==
    \A plan \in io : plan.opcode # "flush" =>
        \E p \in Named(Selected, inventory) :
            /\ p.device_generation = device
            /\ Inside(plan, p)
            /\ plan.opcode = "write" => Selected.read_only = 0
=============================================================================

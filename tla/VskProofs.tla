----------------------------- MODULE VskProofs ------------------------------
(***************************************************************************)
(* What holds of VskPolicy for every word size, every set of cells, slots  *)
(* and rights, every disk and every request.                               *)
(***************************************************************************)
EXTENDS VskPolicy, TLAPS

-----------------------------------------------------------------------------
(***************************************************************************)
(* The block plan.  The code subtracts only what it has compared, so no    *)
(* subtraction wraps, and then its additions cannot wrap either.           *)
(***************************************************************************)
LEMMA CheckedPartition ==
    ASSUME NEW p \in Partition, CheckPartition(p)
    PROVE  /\ p.usable_first_lba <= p.first_lba
           /\ p.first_lba + p.blocks <= p.usable_first_lba + p.usable_blocks
           /\ p.usable_first_lba + p.usable_blocks <= p.disk_blocks
<1> DEFINE F == p.usable_first_lba
           U == p.usable_blocks
           D == p.disk_blocks
           A == p.first_lba
           B == p.blocks
<1>1. /\ F \in Int /\ U \in Int /\ D \in Int /\ A \in Int /\ B \in Int
      /\ Word \in Int
  BY WordAssumption DEF Partition, Unsigned
<1>2. F < D /\ U <= Minus(D, F)
  BY DEF CheckPartition
<1>3. A >= F /\ Minus(A, F) < U /\ B <= Minus(U, Minus(A, F))
  BY DEF CheckPartition
<1> HIDE DEF F, U, D, A, B
<1>4. Minus(D, F) = D - F
  BY <1>1, <1>2 DEF Minus
<1>5. Minus(A, F) = A - F
  BY <1>1, <1>3 DEF Minus
<1>6. Minus(U, A - F) = U - (A - F)
  BY <1>1, <1>3, <1>5 DEF Minus
<1>7. F <= A /\ A + B <= F + U /\ F + U <= D
  BY <1>1, <1>2, <1>3, <1>4, <1>5, <1>6
<1> QED
  BY <1>7 DEF F, U, D, A, B

\* Multiplication is monotone, the one nonlinear fact needed.
LEMMA ProductFits ==
    ASSUME NEW n \in Nat, NEW s \in Nat \ {0}, NEW m \in Nat, n <= m \div s
    PROVE  n * s <= m
<1> DEFINE q == m \div s
<1>1. q \in Nat /\ q * s <= m
  OBVIOUS
<1> HIDE DEF q
<1>2. n <= q
  BY DEF q
<1>3. n * s <= q * s
  BY <1>1, <1>2
<1>4. n * s \in Int /\ q * s \in Int
  BY <1>1
<1> QED
  BY <1>1, <1>3, <1>4

LEMMA PlanIsInside ==
    ASSUME NEW b, b.partition \in Partition, NEW g,
           NEW request \in Request, request.opcode # "flush",
           Plans(b, g, request)
    PROVE  /\ Inside(Plan(b, request), b.partition)
           /\ Plan(b, request) \in PlanType
           /\ Plan(b, request).opcode = "write" => b.read_only = 0
<1> DEFINE p == b.partition
           A == p.first_lba
           B == p.blocks
           S == p.sector_bytes
           L == request.guest_lba
           N == request.blocks
<1>1. CheckPartition(p)
  BY DEF Plans
<1>2. /\ p.usable_first_lba <= A
      /\ A + B <= p.usable_first_lba + p.usable_blocks
      /\ p.usable_first_lba + p.usable_blocks <= p.disk_blocks
  BY <1>1, CheckedPartition
<1>3. /\ A \in 0 .. (Word - 1) /\ B \in 0 .. (Word - 1)
      /\ S \in 0 .. (Word - 1) /\ p.disk_blocks \in 0 .. (Word - 1)
      /\ p.usable_first_lba \in Int /\ p.usable_blocks \in Int
      /\ L \in 0 .. (Word - 1) /\ N \in 0 .. (Word - 1) /\ Word \in Int
  BY WordAssumption DEF Partition, Request, Unsigned
<1>4. S # 0
  BY <1>1, SectorAssumption, WordAssumption DEF CheckPartition
<1>5. L < B /\ N <= Minus(B, L) /\ N <= (Word - 1) \div S
  BY DEF Plans
<1>6. request.opcode = "write" => b.read_only = 0 /\ p.read_only = 0
  BY DEF Plans
<1>7. Plan(b, request) =
        [opcode |-> request.opcode, flags |-> request.flags,
         physical_lba |-> Plus(A, L), blocks |-> N, bytes |-> Times(N, S)]
  BY DEF Plan
<1>8. A + L < Word /\ A + L + N <= A + B
  <2>1. Minus(B, L) = B - L
    BY <1>3, <1>5 DEF Minus
  <2> HIDE DEF A, B, L, N, p
  <2> QED
    BY <2>1, <1>2, <1>3, <1>5
<1>9. Plus(A, L) = A + L
  BY <1>8 DEF Plus
<1>10. Times(N, S) = N * S /\ N * S \in 0 .. (Word - 1)
  <2>1. N \in Nat /\ S \in Nat \ {0} /\ Word - 1 \in Nat /\ Word \in Nat \ {0}
    BY <1>3, <1>4, WordAssumption
  <2>2. N * S <= Word - 1
    BY <2>1, <1>5, ProductFits
  <2> HIDE DEF N, S
  <2>3. N * S \in Nat
    BY <2>1
  <2> DEFINE P == N * S
  <2>4. P \in 0 .. (Word - 1)
    BY <2>1, <2>2, <2>3
  <2> HIDE DEF P
  <2>5. P % Word = P
    BY <2>1, <2>4
  <2> QED
    BY <2>4, <2>5 DEF Times, P
<1>11. request.opcode \in {"read", "write", "flush"} /\ request.flags \in {0, 1}
  BY DEF Request
<1>12. A + L \in 0 .. (Word - 1)
  BY <1>3, <1>8
<1> HIDE DEF p, A, B, S, L, N
<1>13. Plan(b, request) \in PlanType
  BY <1>3, <1>7, <1>9, <1>10, <1>11, <1>12 DEF PlanType, Unsigned
<1>14. Inside(Plan(b, request), p)
  <2> DEFINE plan == Plan(b, request)
  <2>1. /\ plan.physical_lba = A + L /\ plan.blocks = N
        /\ plan.bytes = N * S /\ plan.opcode = request.opcode
    BY <1>7, <1>9, <1>10
  <2> HIDE DEF plan
  <2>2. A + L >= A
    BY <1>3
  <2>3. A + L + N <= A + B
    BY <1>8
  <2>4. plan.bytes = plan.blocks * p.sector_bytes
    BY <2>1 DEF S
  <2>5. /\ plan.physical_lba >= p.first_lba
        /\ plan.physical_lba + plan.blocks <= p.first_lba + p.blocks
    BY <2>1, <2>2, <2>3 DEF A, B
  <2>6. /\ p.usable_first_lba <= p.first_lba
        /\ p.first_lba + p.blocks <= p.usable_first_lba + p.usable_blocks
        /\ p.usable_first_lba + p.usable_blocks <= p.disk_blocks
    BY <1>2 DEF A, B
  <2>7. plan.opcode = "write" => p.read_only = 0
    BY <2>1, <1>6
  <2>8. Inside(plan, p)
    BY <2>4, <2>5, <2>6, <2>7 DEF Inside
  <2> QED
    BY <2>8 DEF plan
<1> QED
  BY <1>6, <1>7, <1>13, <1>14 DEF p

-----------------------------------------------------------------------------
(***************************************************************************)
(* Types.  Each action is a lemma, because a step proof has twenty.        *)
(***************************************************************************)
LEMMA CapabilityFacts ==
    ASSUME NEW c \in Capability
    PROVE  /\ c.slot \in Slots /\ c.generation \in 1 .. MaxGeneration
           /\ c.holder_cell \in Cells /\ c.rights \subseteq AllRights
           /\ c.state \in {"live", "revoked"} /\ c.object_id \in Nat
           /\ c.valid_from \in Nat /\ c.expires_at \in Nat
  BY DEF Capability

LEMMA DuplicateIs ==
    ASSUME NEW c \in Capability, NEW target \in Cells, NEW slot \in Slots,
           NEW rights \in SUBSET AllRights, NEW until \in Nat,
           now \in Nat, generation \in Nat, generation < MaxGeneration
    PROVE  LET d == Duplicate(c, target, slot, rights, until) IN
           /\ d \in Capability
           /\ d.slot = slot /\ d.generation = generation + 1
           /\ d.holder_cell = target /\ d.rights = rights
           /\ d.state = c.state /\ d.object_id = c.object_id
           /\ d.valid_from = now /\ d.expires_at = until
<1>1. generation + 1 \in 1 .. MaxGeneration
  BY PolicyAssumption
<1> QED
  BY <1>1 DEF Duplicate, Capability

LEMMA TypeInit == Init => TypeOK
  BY PolicyAssumption DEF Init, TypeOK

\* A date the caller asks for is a number.
LEMMA DatesAreNumbers == Dates \subseteq Nat
  BY PolicyAssumption DEF Dates

LEMMA TypeCreate ==
    ASSUME TypeOK, NEW owner \in Owners, NEW holder \in Cells,
           NEW slot \in Slots, NEW rights \in FirstRights, NEW until \in Dates,
           Create(owner, holder, slot, rights, until)
    PROVE  TypeOK'
<1>1. until \in Nat /\ now \in Nat /\ generation \in Nat
  BY DatesAreNumbers DEF TypeOK
<1>2. generation + 1 \in 1 .. MaxGeneration
  BY <1>1, PolicyAssumption DEF Create
<1>3. grant.object_id + 1 \in Nat
  BY DEF TypeOK
<1>4. table' \subseteq Capability
  BY <1>1, <1>2, <1>3, PolicyAssumption DEF Create, Capability
<1>5. grant' \in [state : {"free", "live", "revoking"}, object_id : Nat,
                  owner_cell : Owners \cup {"none"}, flags : SUBSET Flags,
                  rights : SUBSET AllRights, valid_from : Nat,
                  expires_at : Nat]
  BY <1>1, <1>3, PolicyAssumption DEF Create
<1>6. issued' \subseteq [holder_cell : Cells, slot : Slots,
                         generation : 1 .. MaxGeneration, object_id : Nat]
  BY <1>2, <1>3 DEF Create, TypeOK
<1>7. generation' \in 0 .. MaxGeneration
  BY <1>2 DEF Create
<1> QED
  BY <1>4, <1>5, <1>6, <1>7 DEF Create, TypeOK, blockVars

LEMMA TypeDup ==
    ASSUME TypeOK, NEW caller \in Cells, NEW target \in Cells,
           NEW h \in Handle, NEW slot \in Slots, NEW rights \in DupRights,
           NEW until \in Dates, Dup(caller, h, target, slot, rights, until)
    PROVE  TypeOK'
<1>1. until \in Nat /\ now \in Nat /\ generation \in Nat
  BY DatesAreNumbers DEF TypeOK
<1>2. PICK c \in table :
        /\ Lookup(c, caller, h, rights \cup {"dup"})
        /\ generation' = generation + 1
        /\ table' = table \cup {Duplicate(c, target, slot, rights, until)}
        /\ issued' = issued \cup
               {Issue(Duplicate(c, target, slot, rights, until))}
  BY DEF Dup
<1>3. c \in Capability
  BY DEF TypeOK
<1>4. rights \subseteq AllRights
  BY <1>2, <1>3, CapabilityFacts DEF Lookup, CheckCap
<1> DEFINE d == Duplicate(c, target, slot, rights, until)
<1>5. generation < MaxGeneration
  BY DEF Dup
<1>6. /\ d \in Capability /\ d.slot = slot
      /\ d.generation = generation + 1 /\ d.holder_cell = target
      /\ d.object_id = c.object_id
  BY <1>1, <1>3, <1>4, <1>5, DuplicateIs
<1> HIDE DEF d
<1>7. Issue(d) \in [holder_cell : Cells, slot : Slots,
                    generation : 1 .. MaxGeneration, object_id : Nat]
  BY <1>6, CapabilityFacts DEF Issue
<1>8. /\ table' \subseteq Capability
      /\ issued' \subseteq [holder_cell : Cells, slot : Slots,
                            generation : 1 .. MaxGeneration, object_id : Nat]
  BY <1>2, <1>6, <1>7 DEF TypeOK, d
<1>9. generation' \in 0 .. MaxGeneration
  BY <1>1, <1>2, <1>5, PolicyAssumption
<1> QED
  BY <1>8, <1>9 DEF Dup, TypeOK, blockVars

LEMMA ReferenceType ==
    ASSUME NEW caller \in Cells, NEW h \in Handle,
           NEW kind \in {"cpu", "dma"}
    PROVE  /\ Reference(kind, caller, h) \in
                [kind : {"cpu", "dma"}, holder_cell : Cells,
                 slot : Slots, generation : 1 .. MaxGeneration]
           /\ Reference(kind, caller, h).kind = kind
           /\ Reference(kind, caller, h).holder_cell = caller
           /\ Reference(kind, caller, h).slot = h.slot
           /\ Reference(kind, caller, h).generation = h.generation
  BY DEF Reference, Handle

\* Setting or clearing flags keeps the grant a grant.
LEMMA FlagsType ==
    ASSUME TypeOK, NEW flags \in SUBSET Flags,
           grant' = [grant EXCEPT !.flags = flags]
    PROVE  grant' \in [state : {"free", "live", "revoking"}, object_id : Nat,
                       owner_cell : Owners \cup {"none"},
                       flags : SUBSET Flags, rights : SUBSET AllRights,
                       valid_from : Nat, expires_at : Nat]
  BY DEF TypeOK

LEMMA TypeUses ==
    ASSUME TypeOK, NEW caller \in Cells, NEW h \in Handle
    PROVE  /\ \A right, span : Access(caller, h, right, span) => TypeOK'
           /\ MapDma(caller, h) => TypeOK'
<1>1. ASSUME NEW right, NEW span, Access(caller, h, right, span)
      PROVE  TypeOK'
  BY <1>1, ReferenceType DEF Access, TypeOK, blockVars, Ways
<1>2. ASSUME MapDma(caller, h)
      PROVE  TypeOK'
  <2>1. grant.flags \cup {"pages_pinned", "dma_ever_mapped"} \subseteq Flags
    BY DEF TypeOK, Flags
  <2>2. grant' = [grant EXCEPT !.flags =
                     grant.flags \cup {"pages_pinned", "dma_ever_mapped"}]
    BY <1>2 DEF MapDma
  <2>3. grant' \in [state : {"free", "live", "revoking"}, object_id : Nat,
                    owner_cell : Owners \cup {"none"}, flags : SUBSET Flags,
                    rights : SUBSET AllRights, valid_from : Nat,
                    expires_at : Nat]
    BY <2>1, <2>2, FlagsType
  <2> QED
    BY <1>2, <2>3, ReferenceType DEF MapDma, TypeOK, blockVars, Ways
<1> QED
  BY <1>1, <1>2

LEMMA TypeRequests ==
    ASSUME TypeOK, NEW request \in Requests
    PROVE  /\ Flush(request) => TypeOK'
           /\ \A caller \in Cells, h \in Handle : \A span :
                Submit(caller, h, span, request) => TypeOK'
<1>1. request \in Request
  BY PolicyAssumption
<1>2. ASSUME Flush(request)
      PROVE  TypeOK'
  <2>1. PICK b \in binding : io' = io \cup {Plan(b, request)}
    BY <1>2 DEF Flush
  <2>2. Plan(b, request) = [opcode |-> "flush", flags |-> 0,
                            physical_lba |-> 0, blocks |-> 0, bytes |-> 0]
    BY <1>2 DEF Flush, Plan
  <2>3. 0 \in Unsigned
    BY WordAssumption DEF Unsigned
  <2>4. Plan(b, request) \in PlanType
    BY <2>2, <2>3 DEF PlanType
  <2>5. io' \subseteq PlanType
    BY <2>1, <2>4 DEF TypeOK
  <2> QED
    BY <1>2, <2>5 DEF Flush, TypeOK, grantVars
<1>3. ASSUME NEW caller \in Cells, NEW h \in Handle, NEW span,
             Submit(caller, h, span, request)
      PROVE  TypeOK'
  <2>1. PICK b \in binding : /\ Plans(b, device, request)
                             /\ io' = io \cup {Plan(b, request)}
    BY <1>3 DEF Submit
  <2>2. b.partition \in Partition /\ request.opcode # "flush"
    BY <1>3 DEF TypeOK, Submit
  <2>3. Plan(b, request) \in PlanType
    BY <1>1, <2>1, <2>2, PlanIsInside
  <2>4. io' \subseteq PlanType
    BY <2>1, <2>3 DEF TypeOK
  <2>5. grant.flags \cup {"pages_pinned", "dma_ever_mapped"} \subseteq Flags
    BY DEF TypeOK, Flags
  <2>6. grant' = [grant EXCEPT !.flags =
                     grant.flags \cup {"pages_pinned", "dma_ever_mapped"}]
    BY <1>3 DEF Submit
  <2>7. grant' \in [state : {"free", "live", "revoking"}, object_id : Nat,
                    owner_cell : Owners \cup {"none"}, flags : SUBSET Flags,
                    rights : SUBSET AllRights, valid_from : Nat,
                    expires_at : Nat]
    BY <2>5, <2>6, FlagsType
  <2> QED
    BY <1>3, <2>4, <2>7, ReferenceType DEF Submit, TypeOK, Ways
<1> QED
  BY <1>2, <1>3

LEMMA TypeAcks ==
    ASSUME TypeOK, InvalidateEpt \/ InvalidateIotlb \/ Drain
    PROVE  TypeOK'
<1>1. ASSUME NEW kind, NEW way, NEW flag \in Flags,
             Acknowledge(kind, way, flag)
      PROVE  /\ reach' \subseteq Ways
             /\ grant' \in [state : {"free", "live", "revoking"},
                            object_id : Nat,
                            owner_cell : Owners \cup {"none"},
                            flags : SUBSET Flags, rights : SUBSET AllRights,
                            valid_from : Nat, expires_at : Nat]
  <2>1. reach' = reach \ {way}
    BY <1>1 DEF Acknowledge
  <2>2. grant' = [grant EXCEPT !.flags = grant.flags \cup {flag}]
    BY <1>1 DEF Acknowledge
  <2>3. grant.flags \cup {flag} \subseteq Flags
    BY DEF TypeOK
  <2> QED
    BY <2>1, <2>2, <2>3, FlagsType DEF TypeOK
<1>2. CASE InvalidateEpt
  BY <1>1, <1>2 DEF InvalidateEpt, TypeOK, blockVars, Flags
<1>3. CASE InvalidateIotlb
  BY <1>1, <1>3 DEF InvalidateIotlb, TypeOK, blockVars, Flags
<1>4. CASE Drain
  BY <1>1, <1>4 DEF Drain, TypeOK, Flags
<1> QED
  BY <1>2, <1>3, <1>4

\* What beginning a revocation does to the tables.
LEMMA Revoked ==
    ASSUME TypeOK, NEW caller, BeginRevoke(caller)
    PROVE  /\ grant.state = "live" /\ grant'.state = "revoking"
           /\ grant'.flags = grant.flags \ {"ept_invalidated",
                  "iotlb_invalidated", "device_drained"}
           /\ grant'.object_id = grant.object_id
           /\ grant'.rights = grant.rights
           /\ grant'.valid_from = grant.valid_from
           /\ grant'.expires_at = grant.expires_at
           /\ grant' \in [state : {"free", "live", "revoking"},
                          object_id : Nat,
                          owner_cell : Owners \cup {"none"},
                          flags : SUBSET Flags, rights : SUBSET AllRights,
                          valid_from : Nat, expires_at : Nat]
           /\ \A d \in table' : \E c \in table :
                /\ d = [c EXCEPT !.state = "revoked"]
                /\ d \in Capability /\ d.state = "revoked"
                /\ d.slot = c.slot /\ d.generation = c.generation
                /\ d.holder_cell = c.holder_cell /\ d.rights = c.rights
                /\ d.object_id = c.object_id
                /\ d.valid_from = c.valid_from
                /\ d.expires_at = c.expires_at
<1>1. /\ grant.state = "live"
      /\ grant' = [grant EXCEPT
                    !.state = "revoking",
                    !.flags = grant.flags \ {"ept_invalidated",
                        "iotlb_invalidated", "device_drained"}]
      /\ table' = {[c EXCEPT !.state = "revoked"] : c \in table}
  BY DEF BeginRevoke
<1>2. ASSUME NEW c \in table
      PROVE  LET d == [c EXCEPT !.state = "revoked"] IN
             /\ d \in Capability /\ d.state = "revoked"
             /\ d.slot = c.slot /\ d.generation = c.generation
             /\ d.holder_cell = c.holder_cell /\ d.rights = c.rights
             /\ d.object_id = c.object_id
             /\ d.valid_from = c.valid_from
             /\ d.expires_at = c.expires_at
  <2>1. c \in Capability
    BY DEF TypeOK
  <2> QED
    BY <2>1 DEF Capability
<1>3. \A d \in table' : \E c \in table : d = [c EXCEPT !.state = "revoked"]
  BY <1>1
<1>4. grant \in [state : {"free", "live", "revoking"}, object_id : Nat,
                 owner_cell : Owners \cup {"none"}, flags : SUBSET Flags,
                 rights : SUBSET AllRights, valid_from : Nat,
                 expires_at : Nat]
  BY DEF TypeOK
<1>5. /\ grant'.state = "revoking"
      /\ grant'.flags = grant.flags \ {"ept_invalidated",
             "iotlb_invalidated", "device_drained"}
      /\ grant'.object_id = grant.object_id
      /\ grant'.rights = grant.rights
      /\ grant'.valid_from = grant.valid_from
      /\ grant'.expires_at = grant.expires_at
  BY <1>1, <1>4
<1>6. grant' \in [state : {"free", "live", "revoking"}, object_id : Nat,
                  owner_cell : Owners \cup {"none"}, flags : SUBSET Flags,
                  rights : SUBSET AllRights, valid_from : Nat,
                  expires_at : Nat]
  BY <1>1, <1>4
<1>7. ASSUME NEW d \in table'
      PROVE  \E c \in table :
                /\ d = [c EXCEPT !.state = "revoked"]
                /\ d \in Capability /\ d.state = "revoked"
                /\ d.slot = c.slot /\ d.generation = c.generation
                /\ d.holder_cell = c.holder_cell /\ d.rights = c.rights
                /\ d.object_id = c.object_id
                /\ d.valid_from = c.valid_from
                /\ d.expires_at = c.expires_at
  <2>1. PICK c \in table : d = [c EXCEPT !.state = "revoked"]
    BY <1>3
  <2> WITNESS c \in table
  <2> QED
    BY <1>2, <2>1, Zenon
<1> QED
  BY <1>1, <1>5, <1>6, <1>7, Zenon

LEMMA TypeStep ==
    ASSUME TypeOK, [Next]_vars
    PROVE  TypeOK'
<1>1. CASE \E owner \in Owners, holder \in Cells, slot \in Slots,
              rights \in FirstRights, until \in Dates :
            Create(owner, holder, slot, rights, until)
  BY <1>1, TypeCreate
<1>2. CASE \E caller, target \in Cells, h \in Handle, slot \in Slots,
              rights \in DupRights, until \in Dates :
            Dup(caller, h, target, slot, rights, until)
  BY <1>2, TypeDup
<1>3. CASE \E caller \in Cells, h \in Handle, right \in {"read", "write"},
              span \in Spans : Access(caller, h, right, span)
  BY <1>3, TypeUses
<1>4. CASE \E caller \in Cells, h \in Handle : MapDma(caller, h)
  BY <1>4, TypeUses
<1>5. CASE \E request \in Requests : Flush(request)
  BY <1>5, TypeRequests
<1>6. CASE \E caller \in Cells, h \in Handle, span \in Spans,
              request \in Requests : Submit(caller, h, span, request)
  BY <1>6, TypeRequests
<1>7. CASE \E plan \in io : Complete(plan)
  BY <1>7 DEF Complete, TypeOK, grantVars
<1>8. CASE \E r \in refs : Release(r)
  BY <1>8 DEF Release, TypeOK, blockVars
<1>9. CASE InvalidateEpt \/ InvalidateIotlb \/ Drain
  BY <1>9, TypeAcks
<1>10. CASE \E caller \in Cells : BeginRevoke(caller)
  <2>1. PICK caller \in Cells : BeginRevoke(caller)
    BY <1>10
  <2>2. table' \subseteq Capability
    BY <2>1, Revoked
  <2> QED
    BY <2>1, <2>2, Revoked DEF BeginRevoke, TypeOK, blockVars
<1>11. CASE Reclaim
  <2>1. grant' = [grant EXCEPT !.state = "free"]
    BY <1>11 DEF Reclaim
  <2>2. grant' \in [state : {"free", "live", "revoking"}, object_id : Nat,
                    owner_cell : Owners \cup {"none"}, flags : SUBSET Flags,
                    rights : SUBSET AllRights, valid_from : Nat,
                    expires_at : Nat]
    BY <2>1 DEF TypeOK
  <2> QED
    BY <1>11, <2>2 DEF Reclaim, TypeOK, blockVars
<1>12. CASE Reset
  <2>1. device' \in 1 .. MaxDevice
    BY <1>12, PolicyAssumption DEF Reset, TypeOK
  <2> QED
    BY <1>12, <2>1 DEF Reset, TypeOK, grantVars
<1>13. CASE Bind
  <2>1. PICK p \in inventory : binding' = {Binding(Selected, p)}
    BY <1>13 DEF Bind
  <2>2. Binding(Selected, p) \in [partition : Partition, read_only : {0, 1}]
    BY <2>1 DEF Binding, TypeOK
  <2> QED
    BY <1>13, <2>1, <2>2 DEF Bind, TypeOK, grantVars
<1>14. CASE Tick
  BY <1>14 DEF Tick, TypeOK, grantVars, blockVars
<1>15. CASE \E found \in Inventories[device] : Discover(found)
  <2>1. PICK found \in Inventories[device] : Discover(found)
    BY <1>15
  <2>2. found \subseteq Partition /\ device \in Nat
    BY PolicyAssumption DEF TypeOK
  <2>3. ASSUME NEW p \in found
        PROVE  [p EXCEPT !.device_generation = device] \in Partition
    <3>1. p \in Partition
      BY <2>2
    <3> QED
      BY <2>2, <3>1 DEF Partition
  <2>4. inventory' \subseteq Partition
    BY <2>1, <2>3 DEF Discover
  <2> QED
    BY <2>1, <2>4 DEF Discover, TypeOK, grantVars
<1>16. CASE UNCHANGED vars
  BY <1>16 DEF vars, grantVars, blockVars, TypeOK
<1> QED
  BY <1>1, <1>2, <1>3, <1>4, <1>5, <1>6, <1>7, <1>8, <1>9, <1>10, <1>11,
     <1>12, <1>13, <1>14, <1>15, <1>16 DEF Next

(***************************************************************************)
(* Every state of the policy and of the root around it has its type.       *)
(***************************************************************************)
THEOREM PolicyTypes == Spec => []TypeOK
  BY TypeInit, TypeStep, PTL DEF Spec

-----------------------------------------------------------------------------
(***************************************************************************)
(* The invariant of the grant.  A free grant has nothing left; a view is   *)
(* live only while the grant is, so that nothing is acquired once it is    *)
(* revoked; a flag found set while it is being revoked was set since, with *)
(* no reference of its kind left; and a grant never mapped for a device is *)
(* not reached by one.                                                     *)
(***************************************************************************)
FreeIsEmpty == grant.state = "free" => refs = {} /\ reach = {} /\ table = {}

LiveViews == \A c \in table : c.state = "live" => grant.state = "live"

Acknowledged ==
    grant.state = "revoking" =>
        /\ "ept_invalidated" \in grant.flags => "ept" \notin reach
        /\ "iotlb_invalidated" \in grant.flags => "iotlb" \notin reach
        /\ "device_drained" \in grant.flags => "transfer" \notin reach

NeverMapped ==
    "dma_ever_mapped" \notin grant.flags =>
        "iotlb" \notin reach /\ "transfer" \notin reach

RevokeInv == FreeIsEmpty /\ LiveViews /\ Acknowledged /\ NeverMapped

(***************************************************************************)
(* The invariant of the handles: every view's handle was issued for the    *)
(* present grant, no two issues share a generation, and every reference    *)
(* goes back to an issue for the present grant.                            *)
(***************************************************************************)
ViewsIssued == \A c \in table : Issue(c) \in issued

Fresh == \A i \in issued : i.generation <= generation

Unique == \A i, j \in issued : i.generation = j.generation => i = j

RefsIssued ==
    \A r \in refs : \E i \in issued : /\ i.holder_cell = r.holder_cell
                                      /\ i.slot = r.slot
                                      /\ i.generation = r.generation
                                      /\ i.object_id = grant.object_id

HandleInv == ViewsIssued /\ Fresh /\ Unique /\ RefsIssued

GrantInv == RevokeInv /\ NeverAmplified /\ HandleInv

LEMMA IssueIs ==
    ASSUME NEW c
    PROVE  /\ Issue(c).holder_cell = c.holder_cell
           /\ Issue(c).slot = c.slot
           /\ Issue(c).generation = c.generation
           /\ Issue(c).object_id = c.object_id
  BY DEF Issue

LEMMA InvInit == Init => GrantInv
  BY DEF Init, GrantInv, RevokeInv, FreeIsEmpty, LiveViews, Acknowledged,
         NeverMapped, NeverAmplified, HandleInv, ViewsIssued, Fresh, Unique,
         RefsIssued

\* A new issue with the next generation keeps the handles apart.
LEMMA IssueFresh ==
    ASSUME TypeOK, Fresh, Unique, NEW new, new.generation = generation + 1,
           generation' = generation + 1, issued' = issued \cup {new}
    PROVE  Fresh' /\ Unique'
<1>1. generation \in Int /\ \A i \in issued : i.generation \in Int
  BY DEF TypeOK
<1>2. \A i \in issued' : i.generation <= generation'
  BY <1>1 DEF Fresh
<1>3. \A i \in issued : i.generation # new.generation
  BY <1>1 DEF Fresh
<1>4. \A i, j \in issued' : i.generation = j.generation => i = j
  BY <1>3 DEF Unique
<1> QED
  BY <1>2, <1>4 DEF Fresh, Unique

LEMMA InvCreate ==
    ASSUME TypeOK, GrantInv, NEW owner \in Owners, NEW holder \in Cells,
           NEW slot \in Slots, NEW rights \in FirstRights, NEW until \in Dates,
           Create(owner, holder, slot, rights, until)
    PROVE  GrantInv'
<1> DEFINE new == [slot |-> slot, generation |-> generation + 1,
                   holder_cell |-> holder, rights |-> rights,
                   state |-> "live", object_id |-> grant.object_id + 1,
                   valid_from |-> now, expires_at |-> until]
           handle == [holder_cell |-> holder, slot |-> slot,
                      generation |-> generation + 1,
                      object_id |-> grant.object_id + 1]
<1>1. /\ grant.state = "free" /\ table' = {new} /\ refs' = refs
      /\ reach' = reach /\ generation' = generation + 1
      /\ issued' = issued \cup {handle}
  BY DEF Create
<1>2. grant' = [state |-> "live", object_id |-> grant.object_id + 1,
                owner_cell |-> owner, flags |-> {}, rights |-> rights,
                valid_from |-> now, expires_at |-> until]
  BY DEF Create
<1>3. refs' = {} /\ reach' = {}
  BY <1>1 DEF GrantInv, RevokeInv, FreeIsEmpty
<1>4. RevokeInv'
  BY <1>1, <1>2, <1>3 DEF RevokeInv, FreeIsEmpty, LiveViews, Acknowledged,
     NeverMapped
<1>5. now \in Nat /\ until \in Nat
  BY DatesAreNumbers DEF TypeOK
<1>6. NeverAmplified'
  BY <1>1, <1>2, <1>5 DEF NeverAmplified
<1>7. Issue(new) = handle
  BY DEF Issue
<1>8. handle.generation = generation + 1
  OBVIOUS
<1> HIDE DEF handle, new
<1>9. Fresh' /\ Unique'
  BY <1>1, <1>8, IssueFresh DEF GrantInv, HandleInv
<1>10. ViewsIssued' /\ RefsIssued'
  BY <1>1, <1>3, <1>7 DEF ViewsIssued, RefsIssued
<1> QED
  BY <1>4, <1>6, <1>9, <1>10 DEF GrantInv, HandleInv

LEMMA InvDup ==
    ASSUME TypeOK, GrantInv, NEW caller \in Cells, NEW target \in Cells,
           NEW h \in Handle, NEW slot \in Slots, NEW rights \in DupRights,
           NEW until \in Dates, Dup(caller, h, target, slot, rights, until)
    PROVE  GrantInv'
<1>1. until \in Nat /\ now \in Nat /\ generation \in Nat
  BY DatesAreNumbers DEF TypeOK
<1>2. PICK c \in table :
        /\ Lookup(c, caller, h, rights \cup {"dup"})
        /\ until <= c.expires_at
        /\ generation' = generation + 1
        /\ table' = table \cup {Duplicate(c, target, slot, rights, until)}
        /\ issued' = issued \cup
               {Issue(Duplicate(c, target, slot, rights, until))}
  BY DEF Dup
<1>3. /\ c \in Capability /\ c.valid_from \in Nat /\ c.expires_at \in Nat
      /\ c.rights \subseteq AllRights
  BY CapabilityFacts DEF TypeOK
<1>4. /\ rights \subseteq c.rights /\ c.state = "live"
      /\ c.valid_from <= now
  BY <1>2 DEF Lookup, CheckCap
<1> DEFINE d == Duplicate(c, target, slot, rights, until)
<1>5. /\ d.generation = generation + 1 /\ d.rights = rights
      /\ d.state = c.state /\ d.object_id = c.object_id
      /\ d.valid_from = now /\ d.expires_at = until
  BY <1>1, <1>3, <1>4, DuplicateIs DEF Dup
<1> HIDE DEF d
<1>6. /\ grant' = grant /\ refs' = refs /\ reach' = reach
      /\ table' = table \cup {d} /\ issued' = issued \cup {Issue(d)}
  BY <1>2 DEF Dup, d
<1>7. RevokeInv'
  <2>1. grant.state = "live"
    BY <1>4 DEF GrantInv, RevokeInv, LiveViews
  <2> QED
    BY <2>1, <1>4, <1>5, <1>6 DEF GrantInv, RevokeInv, FreeIsEmpty,
       LiveViews, Acknowledged, NeverMapped
<1>8. NeverAmplified'
  <2>1. /\ c.object_id = grant.object_id
        /\ c.rights \subseteq grant.rights
        /\ c.valid_from >= grant.valid_from
        /\ c.expires_at <= grant.expires_at
    BY DEF GrantInv, NeverAmplified
  <2>2. grant.valid_from \in Nat /\ grant.expires_at \in Nat
    BY DEF TypeOK
  <2>3. /\ d.object_id = grant.object_id
        /\ d.rights \subseteq grant.rights
        /\ d.valid_from >= grant.valid_from
        /\ d.expires_at <= grant.expires_at
    BY <1>1, <1>2, <1>3, <1>4, <1>5, <2>1, <2>2
  <2> QED
    BY <1>6, <2>3 DEF GrantInv, NeverAmplified
<1>9. Issue(d).generation = generation + 1
  BY <1>5, IssueIs
<1>10. Fresh' /\ Unique'
  BY <1>2, <1>6, <1>9, IssueFresh DEF GrantInv, HandleInv
<1>11. ViewsIssued' /\ RefsIssued'
  BY <1>6 DEF GrantInv, HandleInv, ViewsIssued, RefsIssued
<1> QED
  BY <1>7, <1>8, <1>10, <1>11 DEF GrantInv, HandleInv

\* A reference taken with a live view of the grant, for the CPU (no flag) or
\* for a device (which marks the grant as mapped).
LEMMA InvUse ==
    ASSUME TypeOK, GrantInv, NEW caller \in Cells, NEW h \in Handle,
           NEW kind \in {"cpu", "dma"}, NEW rights, NEW c \in table,
           CheckCap(c, caller, h, rights),
           refs' = refs \cup {Reference(kind, caller, h)},
           UNCHANGED <<table, issued, generation>>,
           \/ UNCHANGED grant /\ reach' = reach \cup {"ept"}
           \/ /\ reach' = reach \cup {"iotlb", "transfer"}
              /\ grant' = [grant EXCEPT !.flags =
                    grant.flags \cup {"pages_pinned", "dma_ever_mapped"}]
    PROVE  GrantInv'
<1> DEFINE r == Reference(kind, caller, h)
<1>1. /\ c.holder_cell = caller /\ c.slot = h.slot
      /\ c.generation = h.generation /\ c.state = "live"
  BY DEF CheckCap
<1>2. grant.state = "live"
  BY <1>1 DEF GrantInv, RevokeInv, LiveViews
<1>3. /\ grant'.state = grant.state /\ grant'.object_id = grant.object_id
      /\ grant'.rights = grant.rights
      /\ grant'.valid_from = grant.valid_from
      /\ grant'.expires_at = grant.expires_at
  BY DEF TypeOK
<1>4. \/ grant'.flags = grant.flags /\ reach' = reach \cup {"ept"}
      \/ "dma_ever_mapped" \in grant'.flags
  BY DEF TypeOK
<1>5. RevokeInv'
  BY <1>2, <1>3, <1>4 DEF GrantInv, RevokeInv, FreeIsEmpty, LiveViews,
     Acknowledged, NeverMapped
<1>6. NeverAmplified'
  BY <1>3 DEF GrantInv, NeverAmplified
<1>7. /\ r.holder_cell = c.holder_cell /\ r.slot = c.slot
      /\ r.generation = c.generation
  BY <1>1, ReferenceType
<1> HIDE DEF r
<1>8. Issue(c) \in issued /\ c.object_id = grant.object_id
  BY DEF GrantInv, HandleInv, ViewsIssued, NeverAmplified
<1>9. \E i \in issued : /\ i.holder_cell = r.holder_cell
                        /\ i.slot = r.slot
                        /\ i.generation = r.generation
                        /\ i.object_id = grant.object_id
  BY <1>7, <1>8, IssueIs
<1>10. refs' = refs \cup {r}
  BY DEF r
<1>11. RefsIssued'
  BY <1>3, <1>9, <1>10 DEF GrantInv, HandleInv, RefsIssued
<1> QED
  BY <1>5, <1>6, <1>11 DEF GrantInv, HandleInv, ViewsIssued, Fresh, Unique

LEMMA InvUses ==
    ASSUME TypeOK, GrantInv, NEW caller \in Cells, NEW h \in Handle
    PROVE  /\ \A right, span : Access(caller, h, right, span) => GrantInv'
           /\ MapDma(caller, h) => GrantInv'
           /\ \A span, request :
                Submit(caller, h, span, request) => GrantInv'
<1>1. ASSUME NEW right, NEW span, Access(caller, h, right, span)
      PROVE  GrantInv'
  <2>1. PICK c \in table : CheckCap(c, caller, h, {right})
    BY <1>1 DEF Access, ValidatePayload, Lookup
  <2> QED
    BY <1>1, <2>1, InvUse DEF Access
<1>2. ASSUME MapDma(caller, h)
      PROVE  GrantInv'
  <2>1. PICK c \in table : CheckCap(c, caller, h, {"dma"})
    BY <1>2 DEF MapDma, Lookup
  <2> QED
    BY <1>2, <2>1, InvUse DEF MapDma
<1>3. ASSUME NEW span, NEW request, Submit(caller, h, span, request)
      PROVE  GrantInv'
  <2> DEFINE right == IF request.opcode = "write" THEN "read" ELSE "write"
  <2>1. PICK c \in table : CheckCap(c, caller, h, {right})
    BY <1>3 DEF Submit, ValidatePayload, Lookup
  <2> HIDE DEF right
  <2> QED
    BY <1>3, <2>1, InvUse DEF Submit
<1> QED
  BY <1>1, <1>2, <1>3

\* An acknowledgement clears the way it is about.
LEMMA InvAcknowledge ==
    ASSUME TypeOK, GrantInv, NEW kind,
           NEW way \in Ways, NEW flag \in Flags,
           \/ way = "ept" /\ flag = "ept_invalidated"
           \/ way = "iotlb" /\ flag = "iotlb_invalidated"
           \/ way = "transfer" /\ flag = "device_drained",
           Acknowledge(kind, way, flag),
           UNCHANGED <<table, refs, issued, generation>>
    PROVE  GrantInv'
<1>1. /\ reach' = reach \ {way}
      /\ grant' = [grant EXCEPT !.flags = grant.flags \cup {flag}]
  BY DEF Acknowledge
<1>2. /\ grant'.state = grant.state /\ grant'.object_id = grant.object_id
      /\ grant'.rights = grant.rights
      /\ grant'.valid_from = grant.valid_from
      /\ grant'.expires_at = grant.expires_at
      /\ grant'.flags = grant.flags \cup {flag}
  BY <1>1 DEF TypeOK
<1>3. FreeIsEmpty' /\ LiveViews' /\ NeverMapped'
  BY <1>1, <1>2 DEF GrantInv, RevokeInv, FreeIsEmpty, LiveViews, NeverMapped
<1>4. Acknowledged'
  BY <1>1, <1>2 DEF GrantInv, RevokeInv, Acknowledged
<1>5. NeverAmplified' /\ RefsIssued'
  BY <1>2 DEF GrantInv, NeverAmplified, HandleInv, RefsIssued
<1> QED
  BY <1>3, <1>4, <1>5 DEF GrantInv, RevokeInv, HandleInv, ViewsIssued,
     Fresh, Unique

LEMMA InvRevoke ==
    ASSUME TypeOK, GrantInv, NEW caller, BeginRevoke(caller)
    PROVE  GrantInv'
<1>1. /\ grant.state = "live" /\ grant'.state = "revoking"
      /\ grant'.flags = grant.flags \ {"ept_invalidated",
             "iotlb_invalidated", "device_drained"}
      /\ grant'.object_id = grant.object_id
      /\ grant'.rights = grant.rights
      /\ grant'.valid_from = grant.valid_from
      /\ grant'.expires_at = grant.expires_at
  BY Revoked
<1>2. \A d \in table' : \E c \in table :
        /\ d.state = "revoked"
        /\ d.slot = c.slot /\ d.generation = c.generation
        /\ d.holder_cell = c.holder_cell /\ d.rights = c.rights
        /\ d.object_id = c.object_id
        /\ d.valid_from = c.valid_from /\ d.expires_at = c.expires_at
  BY Revoked
<1>3. UNCHANGED <<refs, reach, issued, generation>>
  BY DEF BeginRevoke
<1>4. RevokeInv'
  BY <1>1, <1>2, <1>3 DEF GrantInv, RevokeInv, FreeIsEmpty, LiveViews,
     Acknowledged, NeverMapped
<1>5. NeverAmplified'
  BY <1>1, <1>2 DEF GrantInv, NeverAmplified
<1>6. ViewsIssued'
  <2>1. ASSUME NEW d \in table'
        PROVE  Issue(d) \in issued
    <3>1. PICK c \in table :
            /\ d.slot = c.slot /\ d.generation = c.generation
            /\ d.holder_cell = c.holder_cell /\ d.object_id = c.object_id
      BY <1>2
    <3>2. Issue(d) = Issue(c)
      BY <3>1 DEF Issue
    <3> QED
      BY <3>2 DEF GrantInv, HandleInv, ViewsIssued
  <2> QED
    BY <2>1, <1>3 DEF ViewsIssued
<1>7. RefsIssued' /\ Fresh' /\ Unique'
  BY <1>1, <1>3 DEF GrantInv, HandleInv, RefsIssued, Fresh, Unique
<1> QED
  BY <1>4, <1>5, <1>6, <1>7 DEF GrantInv, HandleInv

LEMMA InvReclaim ==
    ASSUME TypeOK, GrantInv, Reclaim
    PROVE  GrantInv'
<1>1. /\ grant.state = "revoking" /\ refs = {}
      /\ "ept_invalidated" \in grant.flags
      /\ "dma_ever_mapped" \in grant.flags
           => /\ "device_drained" \in grant.flags
              /\ "iotlb_invalidated" \in grant.flags
  BY DEF Reclaim, ReclaimReady
<1>2. /\ table' = {} /\ refs' = refs /\ reach' = reach /\ issued' = issued
      /\ generation' = generation
      /\ grant' = [grant EXCEPT !.state = "free"]
  BY DEF Reclaim
<1>3. grant'.state = "free" /\ grant'.flags = grant.flags
  BY <1>2 DEF TypeOK
<1>4. "ept" \notin reach /\ "iotlb" \notin reach /\ "transfer" \notin reach
  BY <1>1 DEF GrantInv, RevokeInv, Acknowledged, NeverMapped
<1>5. reach = {}
  BY <1>4 DEF TypeOK, Ways
<1>6. RevokeInv'
  BY <1>1, <1>2, <1>3, <1>5 DEF RevokeInv, FreeIsEmpty, LiveViews,
     Acknowledged, NeverMapped
<1> QED
  BY <1>1, <1>2, <1>6 DEF GrantInv, NeverAmplified, HandleInv, ViewsIssued,
     Fresh, Unique, RefsIssued

LEMMA InvUnchanged ==
    ASSUME GrantInv, UNCHANGED grantVars
    PROVE  GrantInv'
  BY DEF grantVars, GrantInv, RevokeInv, FreeIsEmpty, LiveViews,
     Acknowledged, NeverMapped, NeverAmplified, HandleInv, ViewsIssued,
     Fresh, Unique, RefsIssued

LEMMA InvStep ==
    ASSUME TypeOK, GrantInv, [Next]_vars
    PROVE  GrantInv'
<1>1. CASE \E owner \in Owners, holder \in Cells, slot \in Slots,
              rights \in FirstRights, until \in Dates :
            Create(owner, holder, slot, rights, until)
  BY <1>1, InvCreate
<1>2. CASE \E caller, target \in Cells, h \in Handle, slot \in Slots,
              rights \in DupRights, until \in Dates :
            Dup(caller, h, target, slot, rights, until)
  BY <1>2, InvDup
<1>3. CASE \E caller \in Cells, h \in Handle, right \in {"read", "write"},
              span \in Spans : Access(caller, h, right, span)
  BY <1>3, InvUses
<1>4. CASE \E caller \in Cells, h \in Handle : MapDma(caller, h)
  BY <1>4, InvUses
<1>5. CASE \E caller \in Cells, h \in Handle, span \in Spans,
              request \in Requests : Submit(caller, h, span, request)
  BY <1>5, InvUses
<1>6. CASE \E r \in refs : Release(r)
  BY <1>6 DEF Release, GrantInv, RevokeInv, FreeIsEmpty, LiveViews,
     Acknowledged, NeverMapped, NeverAmplified, HandleInv, ViewsIssued,
     Fresh, Unique, RefsIssued
<1>7. CASE InvalidateEpt \/ InvalidateIotlb \/ Drain
  <2>1. CASE InvalidateEpt
    BY <2>1, InvAcknowledge DEF InvalidateEpt, Ways, Flags
  <2>2. CASE InvalidateIotlb
    BY <2>2, InvAcknowledge DEF InvalidateIotlb, Ways, Flags
  <2>3. CASE Drain
    BY <2>3, InvAcknowledge DEF Drain, Ways, Flags
  <2> QED
    BY <1>7, <2>1, <2>2, <2>3
<1>8. CASE \E caller \in Cells : BeginRevoke(caller)
  BY <1>8, InvRevoke
<1>9. CASE Reclaim
  BY <1>9, InvReclaim
<1>10. CASE \/ \E request \in Requests : Flush(request)
            \/ \E plan \in io : Complete(plan)
            \/ Reset \/ Bind \/ Tick
            \/ \E found \in Inventories[device] : Discover(found)
  <2>1. UNCHANGED grantVars
    BY <1>10 DEF Flush, Complete, Reset, Bind, Tick, Discover
  <2> QED
    BY <2>1, InvUnchanged
<1>11. CASE UNCHANGED vars
  BY <1>11, InvUnchanged DEF vars
<1> QED
  BY <1>1, <1>2, <1>3, <1>4, <1>5, <1>6, <1>7, <1>8, <1>9, <1>10, <1>11
     DEF Next

LEMMA GrantInvariant == Spec => [](TypeOK /\ GrantInv)
<1>1. TypeOK /\ GrantInv /\ [Next]_vars => (TypeOK /\ GrantInv)'
  BY TypeStep, InvStep
<1> QED
  BY TypeInit, InvInit, <1>1, PTL DEF Spec

(***************************************************************************)
(* Pages that were reclaimed are reached by nothing: an acknowledgement    *)
(* that vf_grant_reclaim_ready finds was given since the revocation.       *)
(***************************************************************************)
THEOREM ReclaimedPages == Spec => []ReclaimedIsUnreachable
<1>1. GrantInv => ReclaimedIsUnreachable
  BY DEF GrantInv, RevokeInv, FreeIsEmpty, ReclaimedIsUnreachable
<1> QED
  BY GrantInvariant, <1>1, PTL

(***************************************************************************)
(* No chain of duplicates goes beyond what the first holder was given.     *)
(***************************************************************************)
THEOREM DuplicatesNeverAmplify == Spec => []NeverAmplified
<1>1. GrantInv => NeverAmplified
  BY DEF GrantInv
<1> QED
  BY GrantInvariant, <1>1, PTL

(***************************************************************************)
(* A reference on the present grant was taken with a handle issued for it. *)
(***************************************************************************)
THEOREM HandlesStayCurrent == Spec => []HandlesAreCurrent
<1>1. GrantInv => HandlesAreCurrent
  <2> SUFFICES ASSUME GrantInv, NEW r \in refs
               PROVE  /\ HandlesOf(r) # {}
                      /\ \A i \in HandlesOf(r) :
                            i.object_id = grant.object_id
    BY DEF HandlesAreCurrent
  <2>1. PICK i \in issued : /\ i.holder_cell = r.holder_cell
                            /\ i.slot = r.slot
                            /\ i.generation = r.generation
                            /\ i.object_id = grant.object_id
    BY DEF GrantInv, HandleInv, RefsIssued
  <2>2. i \in HandlesOf(r)
    BY <2>1 DEF HandlesOf
  <2>3. \A j \in HandlesOf(r) : j = i
    BY <2>1 DEF HandlesOf, GrantInv, HandleInv, Unique
  <2> QED
    BY <2>1, <2>2, <2>3
<1> QED
  BY GrantInvariant, <1>1, PTL

-----------------------------------------------------------------------------
(***************************************************************************)
(* The invariant of the disk.  Whatever carries the present generation, a  *)
(* record or a binding, is what the last discovery found; so a plan made   *)
(* from a binding of the present generation is made from a record that is  *)
(* still true.                                                             *)
(***************************************************************************)
BindingsNamed ==
    \A b \in binding :
        /\ b.partition.device_generation <= device
        /\ b.partition.device_generation = device
             => /\ b.partition \in Named(Selected, inventory)
                /\ b.read_only = 0 => Selected.read_only = 0

RecordsDated == \A p \in inventory : p.device_generation <= device

BlockInv == BindingsNamed /\ RecordsDated /\ TransfersStayInside

LEMMA BlockInit == Init => BlockInv
  BY DEF Init, BlockInv, BindingsNamed, RecordsDated, TransfersStayInside

LEMMA BlockSubmit ==
    ASSUME TypeOK, BlockInv, NEW caller \in Cells, NEW h \in Handle,
           NEW span, NEW request \in Requests,
           Submit(caller, h, span, request)
    PROVE  BlockInv'
<1>1. PICK b \in binding : /\ Plans(b, device, request)
                           /\ io' = io \cup {Plan(b, request)}
  BY DEF Submit
<1>2. /\ b.partition \in Partition /\ request \in Request
      /\ request.opcode # "flush"
  BY PolicyAssumption DEF TypeOK, Submit
<1> DEFINE p == b.partition
           plan == Plan(b, request)
<1>3. p.device_generation = device
  BY <1>1 DEF Plans
<1>4. /\ p \in Named(Selected, inventory)
      /\ b.read_only = 0 => Selected.read_only = 0
  BY <1>3 DEF BlockInv, BindingsNamed
<1>5. Inside(plan, p) /\ (plan.opcode = "write" => b.read_only = 0)
  BY <1>1, <1>2, PlanIsInside
<1>6. UNCHANGED <<device, inventory, binding>>
  BY DEF Submit
<1> HIDE DEF p, plan
<1>7. \E q \in Named(Selected, inventory) :
        /\ q.device_generation = device
        /\ Inside(plan, q)
        /\ plan.opcode = "write" => Selected.read_only = 0
  BY <1>3, <1>4, <1>5 DEF p
<1>8. io' = io \cup {plan}
  BY <1>1 DEF plan
<1>9. TransfersStayInside'
  BY <1>6, <1>7, <1>8 DEF BlockInv, TransfersStayInside, Named
<1> QED
  BY <1>6, <1>9 DEF BlockInv, BindingsNamed, RecordsDated, Named

LEMMA BlockBind ==
    ASSUME TypeOK, BlockInv, Bind
    PROVE  BlockInv'
<1>1. PICK p \in inventory : /\ Binds(Selected, inventory, p)
                             /\ binding' = {Binding(Selected, p)}
  BY DEF Bind
<1>2. UNCHANGED <<device, inventory, io>>
  BY DEF Bind
<1>3. p \in Named(Selected, inventory)
  BY <1>1 DEF Binds
<1>4. /\ Binding(Selected, p).partition = p
      /\ Binding(Selected, p).read_only = 0 => Selected.read_only # 1
  BY DEF Binding
<1>5. Selected.read_only \in {0, 1}
  BY PolicyAssumption DEF Selector
<1>6. p.device_generation <= device
  BY DEF BlockInv, RecordsDated
<1>7. BindingsNamed'
  BY <1>1, <1>2, <1>3, <1>4, <1>5, <1>6 DEF BindingsNamed, Named
<1> QED
  BY <1>2, <1>7 DEF BlockInv, RecordsDated, TransfersStayInside, Named

LEMMA BlockReset ==
    ASSUME TypeOK, BlockInv, Reset
    PROVE  BlockInv'
<1>1. /\ device' = device + 1 /\ io' = {} /\ inventory' = inventory
      /\ binding' = binding /\ device \in Int
  BY PolicyAssumption DEF Reset, TypeOK
<1>2. /\ \A p \in inventory : p.device_generation \in Int
      /\ \A b \in binding : b.partition.device_generation \in Int
  BY DEF TypeOK, Partition
<1>3. BindingsNamed'
  BY <1>1, <1>2 DEF BlockInv, BindingsNamed
<1>4. RecordsDated'
  BY <1>1, <1>2 DEF BlockInv, RecordsDated
<1> QED
  BY <1>1, <1>3, <1>4 DEF BlockInv, TransfersStayInside

LEMMA BlockDiscover ==
    ASSUME TypeOK, BlockInv, NEW found \in Inventories[device],
           Discover(found)
    PROVE  BlockInv'
<1>1. /\ io = {} /\ io' = io /\ device' = device /\ binding' = binding
      /\ \A p \in inventory : p.device_generation # device
      /\ inventory' =
           {[p EXCEPT !.device_generation = device] : p \in found}
  BY DEF Discover
<1>2. found \subseteq Partition /\ device \in Int
  BY PolicyAssumption DEF TypeOK
<1>3. \A b \in binding : b.partition.device_generation # device
  BY <1>1 DEF BlockInv, BindingsNamed, Named
<1>4. BindingsNamed'
  BY <1>1, <1>3 DEF BlockInv, BindingsNamed
<1>5. ASSUME NEW p \in found
      PROVE  [p EXCEPT !.device_generation = device].device_generation
                = device
  <2>1. p \in Partition
    BY <1>2
  <2> QED
    BY <2>1 DEF Partition
<1>6. RecordsDated'
  <2>1. ASSUME NEW q \in inventory'
        PROVE  q.device_generation <= device'
    <3>1. PICK p \in found : q = [p EXCEPT !.device_generation = device]
      BY <1>1
    <3>2. q.device_generation = device
      BY <1>5, <3>1, Zenon
    <3> QED
      BY <1>1, <1>2, <3>2
  <2> QED
    BY <2>1 DEF RecordsDated
<1> QED
  BY <1>1, <1>4, <1>6 DEF BlockInv, TransfersStayInside

LEMMA BlockFlush ==
    ASSUME BlockInv, NEW request, Flush(request)
    PROVE  BlockInv'
<1>1. PICK b \in binding : io' = io \cup {Plan(b, request)}
  BY DEF Flush
<1>2. Plan(b, request).opcode = "flush"
  BY DEF Flush, Plan
<1>3. UNCHANGED <<device, inventory, binding>>
  BY DEF Flush
<1> QED
  BY <1>1, <1>2, <1>3 DEF BlockInv, BindingsNamed, RecordsDated,
     TransfersStayInside, Named

\* Finishing plans leaves fewer of them.
LEMMA BlockFewer ==
    ASSUME BlockInv, io' \subseteq io,
           UNCHANGED <<device, inventory, binding>>
    PROVE  BlockInv'
  BY DEF BlockInv, BindingsNamed, RecordsDated, TransfersStayInside, Named

LEMMA BlockStep ==
    ASSUME TypeOK, BlockInv, [Next]_vars
    PROVE  BlockInv'
<1>1. CASE \E caller \in Cells, h \in Handle, span \in Spans,
              request \in Requests : Submit(caller, h, span, request)
  BY <1>1, BlockSubmit
<1>2. CASE \E request \in Requests : Flush(request)
  BY <1>2, BlockFlush
<1>3. CASE Bind
  BY <1>3, BlockBind
<1>4. CASE Reset
  BY <1>4, BlockReset
<1>5. CASE \E found \in Inventories[device] : Discover(found)
  BY <1>5, BlockDiscover
<1>6. CASE (\E plan \in io : Complete(plan)) \/ Drain
  <2>1. io' \subseteq io /\ UNCHANGED <<device, inventory, binding>>
    BY <1>6 DEF Complete, Drain
  <2> QED
    BY <2>1, BlockFewer
<1>7. CASE UNCHANGED blockVars
  <2>1. io' \subseteq io /\ UNCHANGED <<device, inventory, binding>>
    BY <1>7 DEF blockVars
  <2> QED
    BY <2>1, BlockFewer
<1>8. CASE \/ \E owner \in Owners, holder \in Cells, slot \in Slots,
                 rights \in FirstRights, until \in Dates :
               Create(owner, holder, slot, rights, until)
           \/ \E caller, target \in Cells, h \in Handle, slot \in Slots,
                 rights \in DupRights, until \in Dates :
               Dup(caller, h, target, slot, rights, until)
  <2>1. UNCHANGED blockVars
    BY <1>8 DEF Create, Dup
  <2> QED
    BY <2>1, <1>7
<1>9. CASE \/ \E caller \in Cells, h \in Handle,
                 right \in {"read", "write"}, span \in Spans :
               Access(caller, h, right, span)
           \/ \E caller \in Cells, h \in Handle : MapDma(caller, h)
           \/ \E r \in refs : Release(r)
           \/ InvalidateEpt \/ InvalidateIotlb
           \/ \E caller \in Cells : BeginRevoke(caller)
           \/ Reclaim \/ Tick \/ UNCHANGED vars
  <2>1. UNCHANGED blockVars
    BY <1>9 DEF Access, MapDma, Release, InvalidateEpt, InvalidateIotlb,
       BeginRevoke, Reclaim, Tick, vars
  <2> QED
    BY <2>1, <1>7
<1> QED
  BY <1>1, <1>2, <1>3, <1>4, <1>5, <1>6, <1>8, <1>9 DEF Next

(***************************************************************************)
(* Every transfer stays inside the partition the selector names.           *)
(***************************************************************************)
THEOREM TransfersAreInside == Spec => []TransfersStayInside
<1>1. TypeOK /\ BlockInv /\ [Next]_vars => (TypeOK /\ BlockInv)'
  BY TypeStep, BlockStep
<1>2. BlockInv => TransfersStayInside
  BY DEF BlockInv
<1> QED
  BY TypeInit, BlockInit, <1>1, <1>2, PTL DEF Spec
=============================================================================

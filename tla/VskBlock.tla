------------------------------ MODULE VskBlock ------------------------------
(***************************************************************************)
(* The block half of the VSK policy (sandbox/vsk/src/vf_policy.c): which   *)
(* partition record a selector binds to, and which block requests a        *)
(* binding turns into a plan for the disk.  All of it is arithmetic on     *)
(* unsigned words that wrap, which the code orders so that nothing wraps.  *)
(*                                                                         *)
(* A serial, two GUIDs and a sector size identify a partition; identity    *)
(* stands for the first three, and trusted for controller_approved,        *)
(* gpt_verified and online.                                                *)
(***************************************************************************)
EXTENDS Integers

CONSTANTS Word,         \* the number of values of an unsigned integer
          SectorSizes   \* the sector sizes the code knows, 512 and 4096

ASSUME WordAssumption == Word \in Nat \ {0}
ASSUME SectorAssumption == SectorSizes \subseteq 1 .. (Word - 1)

Unsigned == 0 .. (Word - 1)

(***************************************************************************)
(* C's unsigned arithmetic.                                                *)
(***************************************************************************)
Minus(a, b) == IF b <= a THEN a - b ELSE a - b + Word
Plus(a, b) == IF a + b < Word THEN a + b ELSE a + b - Word
Times(a, b) == (a * b) % Word

Partition == [identity : STRING, sector_bytes : Unsigned, read_only : {0, 1},
              trusted : {0, 1}, fua_verified : {0, 1},
              device_generation : Nat, disk_blocks : Unsigned,
              usable_first_lba : Unsigned, usable_blocks : Unsigned,
              first_lba : Unsigned, blocks : Unsigned]

Selector == [identity : STRING, sector_bytes : Unsigned, read_only : {0, 1}]

Request == [opcode : {"read", "write", "flush"}, flags : {0, 1},
            sector_bytes : Unsigned, guest_lba : Unsigned, blocks : Unsigned]

(***************************************************************************)
(* vf_check_partition: the record can be trusted and its range lies in the *)
(* usable range of the disk.                                               *)
(***************************************************************************)
\* Mutant: the range check compares sums, and a sum may wrap.
CheckPartitionBySums(p) ==
    /\ p.sector_bytes \in SectorSizes
    /\ p.trusted = 1
    /\ p.device_generation # 0
    /\ p.usable_first_lba # 0
    /\ p.first_lba >= p.usable_first_lba
    /\ p.blocks # 0
    /\ Plus(p.first_lba, p.blocks) <= Plus(p.usable_first_lba, p.usable_blocks)
    /\ Plus(p.usable_first_lba, p.usable_blocks) <= p.disk_blocks

CheckPartition(p) ==
    /\ p.sector_bytes \in SectorSizes
    /\ p.trusted = 1
    /\ p.device_generation # 0
    /\ p.usable_first_lba # 0
    /\ p.usable_blocks # 0
    /\ p.usable_first_lba < p.disk_blocks
    /\ p.usable_blocks <= Minus(p.disk_blocks, p.usable_first_lba)
    /\ p.first_lba >= p.usable_first_lba
    /\ p.blocks # 0
    /\ Minus(p.first_lba, p.usable_first_lba) < p.usable_blocks
    /\ p.blocks <= Minus(p.usable_blocks,
                         Minus(p.first_lba, p.usable_first_lba))

(***************************************************************************)
(* vf_bind_partition_exact: the one record the selector names, if it is    *)
(* the only one and passes the check.  The binding copies it and is        *)
(* read-only when either side says so.                                     *)
(***************************************************************************)
Named(selector, inventory) ==
    {p \in inventory : /\ p.identity = selector.identity
                       /\ p.sector_bytes = selector.sector_bytes}

Binds(selector, inventory, p) ==
    /\ selector.sector_bytes \in SectorSizes
    /\ Named(selector, inventory) = {p}
    /\ CheckPartition(p)

Binding(selector, p) ==
    [partition |-> p,
     read_only |-> IF selector.read_only = 1 \/ p.read_only = 1
                   THEN 1 ELSE 0]

(***************************************************************************)
(* vf_plan_block_request.                                                  *)
(***************************************************************************)
Plans(binding, generation, request) ==
    LET p == binding.partition IN
    /\ CheckPartition(p)
    /\ generation = p.device_generation
    /\ request.sector_bytes = p.sector_bytes
    /\ \/ /\ request.opcode = "flush"
          /\ request.guest_lba = 0
          /\ request.blocks = 0
          /\ request.flags = 0
       \/ /\ request.opcode # "flush"
          /\ request.opcode = "write"
               => binding.read_only = 0 /\ p.read_only = 0
          /\ request.flags # 0
               => request.opcode = "write" /\ p.fua_verified = 1
          /\ request.guest_lba < p.blocks
          /\ request.blocks # 0
          /\ request.blocks <= Minus(p.blocks, request.guest_lba)
          /\ request.blocks <= (Word - 1) \div p.sector_bytes

Plan(binding, request) ==
    IF request.opcode = "flush"
    THEN [opcode |-> "flush", flags |-> 0, physical_lba |-> 0,
          blocks |-> 0, bytes |-> 0]
    ELSE [opcode |-> request.opcode, flags |-> request.flags,
          physical_lba |-> Plus(binding.partition.first_lba,
                                request.guest_lba),
          blocks |-> request.blocks,
          bytes |-> Times(request.blocks, binding.partition.sector_bytes)]

(***************************************************************************)
(* What a plan must be: the blocks it names lie in the partition, the      *)
(* partition lies on the disk, no number wrapped on the way, and a         *)
(* read-only partition is not written.                                     *)
(***************************************************************************)
Inside(plan, p) ==
    /\ plan.physical_lba >= p.first_lba
    /\ plan.physical_lba + plan.blocks <= p.first_lba + p.blocks
    /\ p.usable_first_lba <= p.first_lba
    /\ p.first_lba + p.blocks <= p.usable_first_lba + p.usable_blocks
    /\ p.usable_first_lba + p.usable_blocks <= p.disk_blocks
    /\ plan.bytes = plan.blocks * p.sector_bytes
    /\ plan.opcode = "write" => p.read_only = 0
=============================================================================

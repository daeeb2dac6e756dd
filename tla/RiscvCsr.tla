------------------------------ MODULE RiscvCsr ------------------------------
(***************************************************************************)
(* include/riscv/riscv-csr.hpp: the control and status registers the       *)
(* header knows, and what its accessors do with one.                       *)
(*                                                                         *)
(* A register value, a mask and a field value are sets of bit positions:   *)
(* a & b is a \cap b, a | b is a \cup b and a & ~b is a \ b.  The header   *)
(* has one <name>_ops structure for each register, of one instruction per  *)
(* method, and one <name>_data namespace for each register with fields;    *)
(* they differ in what the definitions below record.                       *)
(***************************************************************************)
EXTENDS Integers

CONSTANT XLEN  (* __riscv_xlen                                             *)

ASSUME XlenAssumption == XLEN \in {32, 64}

(* The bits of the three types of registers.                               *)
uint_xlen_t == 0 .. XLEN - 1
uint_csr32_t == 0 .. 31
uint_csr64_t == 0 .. XLEN - 1

(* "Immediate instructions use a 5 bit immediate field"                    *)
CSR_IMM_OP_MASK == 0 .. 4

(* a << n and a >> n in a register of XLEN bits.                           *)
Shl(a, n) == {b \in uint_xlen_t : b - n \in a}
Shr(a, n) == {b \in uint_xlen_t : b + n \in a}

(* An ops structure: the privilege it notes, the type of the register, and *)
(* whether it has the methods that write beside read().                    *)
AllOps(priv, datatype) == [priv |-> priv, datatype |-> datatype, writes |-> TRUE]
ReadOps(priv, datatype) == [priv |-> priv, datatype |-> datatype, writes |-> FALSE]

(* BIT_OFFSET, BIT_WIDTH and BIT_MASK of a field.                          *)
Field(offset, width, mask) == [offset |-> offset, width |-> width, mask |-> mask]

(* Where the width depends on __riscv_xlen the header computes the mask as *)
(* (1UL << (BIT_WIDTH - 1)) << BIT_OFFSET: one bit, not BIT_WIDTH bits.    *)
Computed(offset, width) ==
  Field(offset, width, Shl(Shl({0}, width - 1), offset))

-----------------------------------------------------------------------------
(* The ops structures.                                                     *)
misa_ops == AllOps("MRW", uint_xlen_t)
mvendorid_ops == ReadOps("MRO", uint_csr32_t)
marchid_ops == ReadOps("MRO", uint_xlen_t)
mimpid_ops == ReadOps("MRO", uint_xlen_t)
mhartid_ops == ReadOps("MRO", uint_xlen_t)
mstatus_ops == AllOps("MRW", uint_xlen_t)
mstatush_ops == AllOps("MRW", uint_xlen_t)
mtvec_ops == AllOps("MRW", uint_xlen_t)
medeleg_ops == AllOps("MRW", uint_xlen_t)
mideleg_ops == AllOps("MRW", uint_xlen_t)
mip_ops == AllOps("MRW", uint_xlen_t)
mie_ops == AllOps("MRW", uint_xlen_t)
mcountinhibit_ops == AllOps("MRW", uint_csr32_t)
mcycle_ops == AllOps("MRW", uint_csr64_t)
minstret_ops == AllOps("MRW", uint_csr64_t)
mhpmcounter3_ops == AllOps("MRW", uint_csr64_t)
mhpmevent3_ops == AllOps("MRW", uint_xlen_t)
mcounteren_ops == AllOps("MRW", uint_csr32_t)
scounteren_ops == AllOps("SRW", uint_xlen_t)
mscratch_ops == AllOps("MRW", uint_xlen_t)
mepc_ops == AllOps("MRW", uint_xlen_t)
mcause_ops == AllOps("MRW", uint_xlen_t)
mtval_ops == AllOps("MRW", uint_xlen_t)
sscratch_ops == AllOps("SRW", uint_xlen_t)
sepc_ops == AllOps("SRW", uint_xlen_t)
scause_ops == AllOps("SRW", uint_xlen_t)
sstatus_ops == AllOps("SRW", uint_xlen_t)
stvec_ops == AllOps("SRW", uint_xlen_t)
sideleg_ops == AllOps("SRW", uint_xlen_t)
sedeleg_ops == AllOps("SRW", uint_xlen_t)
sip_ops == AllOps("SRW", uint_xlen_t)
sie_ops == AllOps("SRW", uint_xlen_t)
ustatus_ops == AllOps("URW", uint_xlen_t)
uip_ops == AllOps("URW", uint_xlen_t)
uie_ops == AllOps("URW", uint_xlen_t)
uscratch_ops == AllOps("URW", uint_xlen_t)
uepc_ops == AllOps("URW", uint_xlen_t)
ucause_ops == AllOps("URW", uint_xlen_t)
utvec_ops == AllOps("URW", uint_xlen_t)
utval_ops == AllOps("URW", uint_xlen_t)
fflags_ops == AllOps("URW", uint_xlen_t)
frm_ops == AllOps("URW", uint_xlen_t)
fcsr_ops == AllOps("URW", uint_xlen_t)
cycle_ops == ReadOps("URO", uint_xlen_t)
time_ops == ReadOps("URO", uint_xlen_t)
instret_ops == ReadOps("URO", uint_xlen_t)
hpmcounter3_ops == ReadOps("URO", uint_xlen_t)
hpmcounter4_ops == ReadOps("URO", uint_xlen_t)
hpmcounter31_ops == ReadOps("URO", uint_xlen_t)
cycleh_ops == ReadOps("URO", uint_xlen_t)
timeh_ops == ReadOps("URO", uint_xlen_t)
instreth_ops == ReadOps("URO", uint_xlen_t)
hpmcounter3h_ops == ReadOps("URO", uint_xlen_t)
hpmcounter4h_ops == ReadOps("URO", uint_xlen_t)
hpmcounter31h_ops == ReadOps("URO", uint_xlen_t)
stval_ops == AllOps("SRW", uint_xlen_t)
satp_ops == AllOps("SRW", uint_xlen_t)
hstatus_ops == AllOps("HRW", uint_xlen_t)
hedeleg_ops == AllOps("HRW", uint_xlen_t)
hideleg_ops == AllOps("HRW", uint_xlen_t)
hcounteren_ops == AllOps("HRW", uint_xlen_t)
hgatp_ops == AllOps("HRW", uint_xlen_t)
htimedelta_ops == AllOps("HRW", uint_xlen_t)
htimedeltah_ops == AllOps("HRW", uint_xlen_t)
vsstatus_ops == AllOps("HRW", uint_xlen_t)
vsie_ops == AllOps("HRW", uint_xlen_t)
vstvec_ops == AllOps("HRW", uint_xlen_t)
vsscratch_ops == AllOps("HRW", uint_xlen_t)
vsepc_ops == AllOps("HRW", uint_xlen_t)
vscause_ops == AllOps("HRW", uint_xlen_t)
vstval_ops == AllOps("HRW", uint_xlen_t)
vsip_ops == AllOps("HRW", uint_xlen_t)
vsatp_ops == AllOps("HRW", uint_xlen_t)
mbase_ops == AllOps("MRW", uint_xlen_t)
mbound_ops == AllOps("MRW", uint_xlen_t)
mibase_ops == AllOps("MRW", uint_xlen_t)
mibound_ops == AllOps("MRW", uint_xlen_t)
mdbase_ops == AllOps("MRW", uint_xlen_t)
mdbound_ops == AllOps("MRW", uint_xlen_t)
pmpcfg0_ops == AllOps("MRW", uint_xlen_t)
pmpcfg1_ops == AllOps("MRW", uint_xlen_t)
pmpcfg2_ops == AllOps("MRW", uint_xlen_t)
pmpcfg3_ops == AllOps("MRW", uint_xlen_t)
pmpaddr0_ops == AllOps("MRW", uint_xlen_t)
pmpaddr1_ops == AllOps("MRW", uint_xlen_t)
pmpaddr15_ops == AllOps("MRW", uint_xlen_t)
mhpmcounter4_ops == AllOps("MRW", uint_xlen_t)
mhpmcounter31_ops == AllOps("MRW", uint_xlen_t)
mcycleh_ops == AllOps("MRW", uint_csr32_t)
minstreth_ops == AllOps("MRW", uint_csr32_t)
mhpmcounter3h_ops == AllOps("MRW", uint_csr32_t)
mhpmcounter4h_ops == AllOps("MRW", uint_csr32_t)
mhpmcounter31h_ops == AllOps("MRW", uint_csr32_t)
mhpmevent4_ops == AllOps("MRW", uint_xlen_t)
mhpmevent31_ops == AllOps("MRW", uint_xlen_t)
tselect_ops == AllOps("MRW", uint_xlen_t)
tdata1_ops == AllOps("MRW", uint_xlen_t)
tdata2_ops == AllOps("MRW", uint_xlen_t)
tdata3_ops == AllOps("MRW", uint_xlen_t)
dcsr_ops == AllOps("DRW", uint_xlen_t)
dpc_ops == AllOps("DRW", uint_xlen_t)
dscratch0_ops == AllOps("DRW", uint_xlen_t)
dscratch1_ops == AllOps("DRW", uint_xlen_t)
hie_ops == AllOps("HRW", uint_xlen_t)
hgeie_ops == AllOps("HRW", uint_xlen_t)
htval_ops == AllOps("HRW", uint_xlen_t)
hip_ops == AllOps("HRW", uint_xlen_t)
htinst_ops == AllOps("HRW", uint_xlen_t)
hgeip_ops == ReadOps("HRO", uint_xlen_t)
mtinst_ops == AllOps("MRW", uint_xlen_t)
mtval2_ops == AllOps("MRW", uint_xlen_t)

-----------------------------------------------------------------------------
(* The fields.                                                             *)
mstatus_data ==
  [mie |-> Field(3, 1, {3}),
   sie |-> Field(2, 1, {2}),
   mpie |-> Field(7, 1, {7}),
   spie |-> Field(5, 1, {5}),
   mprv |-> Field(17, 1, {17}),
   mpp |-> Field(11, 2, {11, 12}),
   spp |-> Field(8, 1, {8})]

mtvec_data ==
  [base |-> Computed(2, XLEN - 2),
   mode |-> Field(0, 2, {0, 1})]

mip_data ==
  [msi |-> Field(3, 1, {3}),
   mti |-> Field(7, 1, {7}),
   mei |-> Field(11, 1, {11}),
   ssi |-> Field(1, 1, {1}),
   sti |-> Field(5, 1, {5}),
   sei |-> Field(9, 1, {9}),
   usi |-> Field(0, 1, {0}),
   uti |-> Field(4, 1, {4}),
   uei |-> Field(8, 1, {8}),
   platform_defined |-> Computed(16, XLEN - 15)]

mie_data ==
  [msi |-> Field(3, 1, {3}),
   mti |-> Field(7, 1, {7}),
   mei |-> Field(11, 1, {11}),
   ssi |-> Field(1, 1, {1}),
   sti |-> Field(5, 1, {5}),
   sei |-> Field(9, 1, {9}),
   usi |-> Field(0, 1, {0}),
   uti |-> Field(4, 1, {4}),
   uei |-> Field(8, 1, {8}),
   platform_defined |-> Computed(16, XLEN - 15)]

mcountinhibit_data ==
  [cy |-> Field(0, 1, {0}),
   ir |-> Field(2, 1, {2}),
   hpm |-> Field(3, 29, 3 .. 31)]

mcounteren_data ==
  [cy |-> Field(0, 1, {0}),
   tm |-> Field(1, 1, {1}),
   ir |-> Field(2, 1, {2}),
   hpm |-> Field(3, 29, 3 .. 31)]

mcause_data ==
  [interrupt |-> Field(XLEN - 1, 1, Shl({0}, XLEN - 1)),
   exception_code |-> Computed(0, XLEN - 1)]

scause_data ==
  [interrupt |-> Field(XLEN - 1, 1, Shl({0}, XLEN - 1)),
   exception_code |-> Computed(0, XLEN - 1)]

sstatus_data ==
  [sie |-> Field(2, 1, {2}),
   spie |-> Field(5, 1, {5}),
   spp |-> Field(8, 1, {8})]

stvec_data ==
  [base |-> Computed(2, XLEN - 2),
   mode |-> Field(0, 2, {0, 1})]

sip_data ==
  [ssi |-> Field(1, 1, {1}),
   sti |-> Field(5, 1, {5}),
   sei |-> Field(9, 1, {9}),
   usi |-> Field(0, 1, {0}),
   uti |-> Field(4, 1, {4}),
   uei |-> Field(8, 1, {8})]

sie_data ==
  [ssi |-> Field(1, 1, {1}),
   sti |-> Field(5, 1, {5}),
   sei |-> Field(9, 1, {9}),
   usi |-> Field(0, 1, {0}),
   uti |-> Field(4, 1, {4}),
   uei |-> Field(8, 1, {8})]

ustatus_data ==
  [uie |-> Field(1, 1, {1}),
   upie |-> Field(3, 1, {3})]

uip_data ==
  [usi |-> Field(0, 1, {0}),
   uti |-> Field(4, 1, {4}),
   uei |-> Field(8, 1, {8})]

uie_data ==
  [usi |-> Field(0, 1, {0}),
   uti |-> Field(4, 1, {4}),
   uei |-> Field(8, 1, {8})]

ucause_data ==
  [interrupt |-> Field(XLEN - 1, 1, Shl({0}, XLEN - 1)),
   exception_code |-> Computed(0, XLEN - 1)]

utvec_data ==
  [base |-> Computed(2, XLEN - 2),
   mode |-> Field(0, 2, {0, 1})]

-----------------------------------------------------------------------------
(* The interface classes: which base class a register derives from, and    *)
(* its fields.                                                             *)
(* A slip: the read only base class offers the methods that write.         *)
read_only_regOffersAll(o) == [ops |-> o, writable |-> TRUE, fields |-> {}]

read_only_reg(o) == [ops |-> o, writable |-> FALSE, fields |-> {}]

read_write_reg(o) == [ops |-> o, writable |-> TRUE, fields |-> {}]

(* One with fields: a member for each structure of its namespace.          *)
fields_reg(o, data) ==
  [ops |-> o, writable |-> TRUE, fields |-> {data[f] : f \in DOMAIN data}]

(* struct all, of which riscv::csrs is the one object.                     *)
csrs ==
  [misa |-> read_write_reg(misa_ops),
   mvendorid |-> read_only_reg(mvendorid_ops),
   marchid |-> read_only_reg(marchid_ops),
   mimpid |-> read_only_reg(mimpid_ops),
   mhartid |-> read_only_reg(mhartid_ops),
   mstatus |-> fields_reg(mstatus_ops, mstatus_data),
   mstatush |-> read_write_reg(mstatush_ops),
   mtvec |-> fields_reg(mtvec_ops, mtvec_data),
   medeleg |-> read_write_reg(medeleg_ops),
   mideleg |-> read_write_reg(mideleg_ops),
   mip |-> fields_reg(mip_ops, mip_data),
   mie |-> fields_reg(mie_ops, mie_data),
   mcountinhibit |-> fields_reg(mcountinhibit_ops, mcountinhibit_data),
   mcycle |-> read_write_reg(mcycle_ops),
   minstret |-> read_write_reg(minstret_ops),
   mhpmcounter3 |-> read_write_reg(mhpmcounter3_ops),
   mhpmevent3 |-> read_write_reg(mhpmevent3_ops),
   mcounteren |-> fields_reg(mcounteren_ops, mcounteren_data),
   scounteren |-> read_write_reg(scounteren_ops),
   mscratch |-> read_write_reg(mscratch_ops),
   mepc |-> read_write_reg(mepc_ops),
   mcause |-> fields_reg(mcause_ops, mcause_data),
   mtval |-> read_write_reg(mtval_ops),
   sscratch |-> read_write_reg(sscratch_ops),
   sepc |-> read_write_reg(sepc_ops),
   scause |-> fields_reg(scause_ops, scause_data),
   sstatus |-> fields_reg(sstatus_ops, sstatus_data),
   stvec |-> fields_reg(stvec_ops, stvec_data),
   sideleg |-> read_write_reg(sideleg_ops),
   sedeleg |-> read_write_reg(sedeleg_ops),
   sip |-> fields_reg(sip_ops, sip_data),
   sie |-> fields_reg(sie_ops, sie_data),
   ustatus |-> fields_reg(ustatus_ops, ustatus_data),
   uip |-> fields_reg(uip_ops, uip_data),
   uie |-> fields_reg(uie_ops, uie_data),
   uscratch |-> read_write_reg(uscratch_ops),
   uepc |-> read_write_reg(uepc_ops),
   ucause |-> fields_reg(ucause_ops, ucause_data),
   utvec |-> fields_reg(utvec_ops, utvec_data),
   utval |-> read_write_reg(utval_ops),
   fflags |-> read_write_reg(fflags_ops),
   frm |-> read_write_reg(frm_ops),
   fcsr |-> read_write_reg(fcsr_ops),
   cycle |-> read_only_reg(cycle_ops),
   time |-> read_only_reg(time_ops),
   instret |-> read_only_reg(instret_ops),
   hpmcounter3 |-> read_only_reg(hpmcounter3_ops),
   hpmcounter4 |-> read_only_reg(hpmcounter4_ops),
   hpmcounter31 |-> read_only_reg(hpmcounter31_ops),
   cycleh |-> read_only_reg(cycleh_ops),
   timeh |-> read_only_reg(timeh_ops),
   instreth |-> read_only_reg(instreth_ops),
   hpmcounter3h |-> read_only_reg(hpmcounter3h_ops),
   hpmcounter4h |-> read_only_reg(hpmcounter4h_ops),
   hpmcounter31h |-> read_only_reg(hpmcounter31h_ops),
   stval |-> read_write_reg(stval_ops),
   satp |-> read_write_reg(satp_ops),
   hstatus |-> read_write_reg(hstatus_ops),
   hedeleg |-> read_write_reg(hedeleg_ops),
   hideleg |-> read_write_reg(hideleg_ops),
   hcounteren |-> read_write_reg(hcounteren_ops),
   hgatp |-> read_write_reg(hgatp_ops),
   htimedelta |-> read_write_reg(htimedelta_ops),
   htimedeltah |-> read_write_reg(htimedeltah_ops),
   vsstatus |-> read_write_reg(vsstatus_ops),
   vsie |-> read_write_reg(vsie_ops),
   vstvec |-> read_write_reg(vstvec_ops),
   vsscratch |-> read_write_reg(vsscratch_ops),
   vsepc |-> read_write_reg(vsepc_ops),
   vscause |-> read_write_reg(vscause_ops),
   vstval |-> read_write_reg(vstval_ops),
   vsip |-> read_write_reg(vsip_ops),
   vsatp |-> read_write_reg(vsatp_ops),
   mbase |-> read_write_reg(mbase_ops),
   mbound |-> read_write_reg(mbound_ops),
   mibase |-> read_write_reg(mibase_ops),
   mibound |-> read_write_reg(mibound_ops),
   mdbase |-> read_write_reg(mdbase_ops),
   mdbound |-> read_write_reg(mdbound_ops),
   pmpcfg0 |-> read_write_reg(pmpcfg0_ops),
   pmpcfg1 |-> read_write_reg(pmpcfg1_ops),
   pmpcfg2 |-> read_write_reg(pmpcfg2_ops),
   pmpcfg3 |-> read_write_reg(pmpcfg3_ops),
   pmpaddr0 |-> read_write_reg(pmpaddr0_ops),
   pmpaddr1 |-> read_write_reg(pmpaddr1_ops),
   pmpaddr15 |-> read_write_reg(pmpaddr15_ops),
   mhpmcounter4 |-> read_write_reg(mhpmcounter4_ops),
   mhpmcounter31 |-> read_write_reg(mhpmcounter31_ops),
   mcycleh |-> read_write_reg(mcycleh_ops),
   minstreth |-> read_write_reg(minstreth_ops),
   mhpmcounter3h |-> read_write_reg(mhpmcounter3h_ops),
   mhpmcounter4h |-> read_write_reg(mhpmcounter4h_ops),
   mhpmcounter31h |-> read_write_reg(mhpmcounter31h_ops),
   mhpmevent4 |-> read_write_reg(mhpmevent4_ops),
   mhpmevent31 |-> read_write_reg(mhpmevent31_ops),
   tselect |-> read_write_reg(tselect_ops),
   tdata1 |-> read_write_reg(tdata1_ops),
   tdata2 |-> read_write_reg(tdata2_ops),
   tdata3 |-> read_write_reg(tdata3_ops),
   dcsr |-> read_write_reg(dcsr_ops),
   dpc |-> read_write_reg(dpc_ops),
   dscratch0 |-> read_write_reg(dscratch0_ops),
   dscratch1 |-> read_write_reg(dscratch1_ops),
   hie |-> read_write_reg(hie_ops),
   hgeie |-> read_write_reg(hgeie_ops),
   htval |-> read_write_reg(htval_ops),
   hip |-> read_write_reg(hip_ops),
   htinst |-> read_write_reg(htinst_ops),
   hgeip |-> read_only_reg(hgeip_ops),
   mtinst |-> read_write_reg(mtinst_ops),
   mtval2 |-> read_write_reg(mtval2_ops)]

-----------------------------------------------------------------------------
(* What the instructions do to a register: csrrw writes the operand, csrrs *)
(* sets and csrrc clears the bits of it.                                   *)
Execute(insn, old, m) ==
  CASE insn = "csrrw" -> m
    [] insn = "csrrs" -> old \cup m
    [] insn = "csrrc" -> old \ m

(* csrrwi, csrrsi, csrrci: the instruction holds five bits of the operand. *)
ExecuteImm(insn, old, m) == Execute(insn, old, m \cap CSR_IMM_OP_MASK)

(* A slip: the test for a short operand is missing.                        *)
ConstAlwaysImm(insn, old, m) == ExecuteImm(insn, old, m)

(* write_const, set_const, clr_const and their reading variants choose the *)
(* instruction by the operand.                                             *)
Const(insn, old, m) ==
  IF m \cap CSR_IMM_OP_MASK = m
  THEN ExecuteImm(insn, old, m)
  ELSE Execute(insn, old, m)

(* set() and clr() of a field.                                             *)
set(old, f) == Const("csrrs", old, f.mask)
clr(old, f) == Const("csrrc", old, f.mask)

(* read() of a field.                                                      *)
read(old, f) == Shr(old \cap f.mask, f.offset)

(* A slip: the bits of the field are kept, not those of the others.        *)
new_valueInverted(org, f, v) ==
  (org \cap f.mask) \cup (Shl(v, f.offset) \cap f.mask)

(* What write(v) of a field stores after it has read org.                  *)
new_value(org, f, v) ==
  (org \ f.mask) \cup (Shl(v, f.offset) \cap f.mask)
=============================================================================

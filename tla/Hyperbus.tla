------------------------------ MODULE Hyperbus ------------------------------
(***************************************************************************)
(* The HyperBus driver, host/drivers/hyperbus: accessors for the eleven    *)
(* timing registers and the address window of each chip, and functions     *)
(* that fill a hyperram_cfg_t with defaults, apply it and read it back.    *)
(*                                                                         *)
(* An application holds one configuration, gets it from                    *)
(* hyperram_cfg_default or hyperram_cfg_read, changes it and writes it,    *)
(* and tunes single registers in between.  One action is one call: the     *)
(* host has one hart, and nothing else writes these registers.             *)
(***************************************************************************)
EXTENDS Integers

CONSTANTS
    NumChips,       \* HYPERBUS_NUM_CHIPS
    AddrSpace,      \* number of addresses, 2^32: uint32_t wraps around there
    Timings,        \* the arguments for the timing registers
    MaxBusCalls     \* bound on the number of calls

ASSUME HyperbusAssumption ==
    /\ NumChips \in Nat
    /\ AddrSpace \in Nat \ {0}
    /\ Timings \subseteq Nat
    /\ MaxBusCalls \in Nat

Chips == 0 .. NumChips - 1
Addrs == 0 .. AddrSpace - 1

Fields == {"t_latency_access", "en_latency_additional", "t_burst_max",
           "t_read_write_recovery", "t_rx_clk_delay", "t_tx_clk_delay",
           "address_mask_msb", "address_space", "phys_in_use", "which_phy",
           "t_csh_cycles"}

VARIABLES
    words,      \* the registers
    cfg,        \* the application's hyperram_cfg_t
    want,       \* what the calls so far ask of the peripheral
    answer,     \* what the last get function returned, and what it should have
    made        \* number of calls

busVars == <<words, cfg, want, answer, made>>

-----------------------------------------------------------------------------
(* The register map.                                                       *)

\* HYPERBUS_<field>_REG_OFFSET
FieldOffset ==
    [t_latency_access |-> 0, en_latency_additional |-> 4, t_burst_max |-> 8,
     t_read_write_recovery |-> 12, t_rx_clk_delay |-> 16, t_tx_clk_delay |-> 20,
     address_mask_msb |-> 24, address_space |-> 28, phys_in_use |-> 32,
     which_phy |-> 36, t_csh_cycles |-> 40]

\* HYPERBUS_<field>_MASK, plus one: the registers have no other bits.
FieldSize ==
    [t_latency_access |-> 16, en_latency_additional |-> 2, t_burst_max |-> 65536,
     t_read_write_recovery |-> 16, t_rx_clk_delay |-> 16, t_tx_clk_delay |-> 16,
     address_mask_msb |-> 32, address_space |-> 2, phys_in_use |-> 2,
     which_phy |-> 2, t_csh_cycles |-> 16]

\* A plausible bug: the windows are a word apart.
BugChipStart(chip) == 11 * 4 + chip * 4

\* HYPERBUS_CHIP_START_REG_OFFSET and HYPERBUS_CHIP_END_REG_OFFSET
ChipStart(chip) == 11 * 4 + chip * 8
ChipEnd(chip) == 11 * 4 + chip * 8 + 4

Offsets == {FieldOffset[f] : f \in Fields} \cup {ChipStart(c) : c \in Chips}
             \cup {ChipEnd(c) : c \in Chips}

\* External: what the register at an offset keeps of a word.
Kept(o, word) ==
    IF \E f \in Fields : FieldOffset[f] = o
    THEN word % FieldSize[CHOOSE f \in Fields : FieldOffset[f] = o]
    ELSE word

Write(r, o, word) == [r EXCEPT ![o] = Kept(o, word)]

-----------------------------------------------------------------------------
(* The configuration as a whole.                                           *)

\* A plausible bug: every chip gets the first one's window.
BugSameWindow(chip_base, chip_size) ==
    [field |-> [f \in Fields |-> 0],
     chip_base |-> [i \in Chips |-> chip_base],
     chip_space |-> [i \in Chips |-> chip_size]]

hyperram_cfg_default(chip_base, chip_size) ==
    [field |-> [t_latency_access |-> 6, en_latency_additional |-> 0,
                t_burst_max |-> 350, t_read_write_recovery |-> 6,
                t_rx_clk_delay |-> 8, t_tx_clk_delay |-> 8,
                address_mask_msb |-> 25, address_space |-> 0, phys_in_use |-> 0,
                which_phy |-> 0, t_csh_cycles |-> 1],
     chip_base |-> [i \in Chips |-> (chip_base + i * chip_size) % AddrSpace],
     chip_space |-> [i \in Chips |-> chip_size]]

\* The word that hyperram_cfg_write stores at each offset.
Word(c, o) ==
    IF \E f \in Fields : FieldOffset[f] = o
    THEN c.field[CHOOSE f \in Fields : FieldOffset[f] = o]
    ELSE LET i == CHOOSE i \in Chips : o \in {ChipStart(i), ChipEnd(i)}
         IN IF o = ChipStart(i) THEN c.chip_base[i]
            ELSE (c.chip_base[i] + c.chip_space[i]) % AddrSpace

hyperram_cfg_read(r) ==
    [field |-> [f \in Fields |-> r[FieldOffset[f]]],
     chip_base |-> [i \in Chips |-> r[ChipStart(i)]],
     chip_space |-> [i \in Chips |-> (r[ChipEnd(i)] - r[ChipStart(i)]) % AddrSpace]]

\* The peripheral after a write of c: fields are cut to their registers' widths.
Applied(c) == [c EXCEPT !.field = [f \in Fields |-> c.field[f] % FieldSize[f]]]

NoAnswer == [got |-> 0, due |-> 0]

BusInit ==
    /\ words = [o \in Offsets |-> 0]
    /\ cfg = hyperram_cfg_read(words)
    /\ want = hyperram_cfg_read(words)
    /\ answer = NoAnswer
    /\ made = 0

Called == made < MaxBusCalls /\ made' = made + 1

Default(chip_base, chip_size) ==
    /\ Called
    /\ cfg' = hyperram_cfg_default(chip_base, chip_size)
    /\ UNCHANGED <<words, want, answer>>

\* The application changes its configuration.
Modify(f, v) ==
    /\ Called
    /\ cfg' = [cfg EXCEPT !.field[f] = v]
    /\ UNCHANGED <<words, want, answer>>

hyperram_cfg_write ==
    /\ Called
    /\ words' = [o \in Offsets |-> Kept(o, Word(cfg, o))]
    /\ want' = Applied(cfg)
    /\ UNCHANGED <<cfg, answer>>

\* hyperram_cfg_print reads in the same way and shows what it read.
Read ==
    /\ Called
    /\ cfg' = hyperram_cfg_read(words)
    /\ UNCHANGED <<words, want, answer>>

\* A null pointer: hyperram_cfg_write returns -1, hyperram_cfg_print nothing.
Null ==
    /\ Called
    /\ UNCHANGED <<words, cfg, want, answer>>

-----------------------------------------------------------------------------
(* The accessors.                                                          *)

SetField(f, v) ==
    /\ Called
    /\ words' = Write(words, FieldOffset[f], v)
    /\ want' = [want EXCEPT !.field[f] = v % FieldSize[f]]
    /\ UNCHANGED <<cfg, answer>>

GetWord(o, due) ==
    /\ Called
    /\ answer' = [got |-> words[o], due |-> due]
    /\ UNCHANGED <<words, cfg, want>>

hyperbus_set_t_latency_access(v) == SetField("t_latency_access", v)
hyperbus_set_en_latency_additional(v) == SetField("en_latency_additional", v)
hyperbus_set_t_burst_max(v) == SetField("t_burst_max", v)
hyperbus_set_t_read_write_recovery(v) == SetField("t_read_write_recovery", v)
hyperbus_set_t_rx_clk_delay(v) == SetField("t_rx_clk_delay", v)
hyperbus_set_t_tx_clk_delay(v) == SetField("t_tx_clk_delay", v)
hyperbus_set_address_mask_msb(v) == SetField("address_mask_msb", v)
hyperbus_set_address_space(v) == SetField("address_space", v)
hyperbus_set_phys_in_use(v) == SetField("phys_in_use", v)
hyperbus_set_which_phy(v) == SetField("which_phy", v)
hyperbus_set_t_csh_cycles(v) == SetField("t_csh_cycles", v)

hyperbus_get_t_latency_access == GetWord(FieldOffset["t_latency_access"], want.field["t_latency_access"])
hyperbus_get_en_latency_additional == GetWord(FieldOffset["en_latency_additional"], want.field["en_latency_additional"])
hyperbus_get_t_burst_max == GetWord(FieldOffset["t_burst_max"], want.field["t_burst_max"])
hyperbus_get_t_read_write_recovery == GetWord(FieldOffset["t_read_write_recovery"], want.field["t_read_write_recovery"])
hyperbus_get_t_rx_clk_delay == GetWord(FieldOffset["t_rx_clk_delay"], want.field["t_rx_clk_delay"])
hyperbus_get_t_tx_clk_delay == GetWord(FieldOffset["t_tx_clk_delay"], want.field["t_tx_clk_delay"])
hyperbus_get_address_mask_msb == GetWord(FieldOffset["address_mask_msb"], want.field["address_mask_msb"])
hyperbus_get_address_space == GetWord(FieldOffset["address_space"], want.field["address_space"])
hyperbus_get_phys_in_use == GetWord(FieldOffset["phys_in_use"], want.field["phys_in_use"])
hyperbus_get_which_phy == GetWord(FieldOffset["which_phy"], want.field["which_phy"])
hyperbus_get_t_csh_cycles == GetWord(FieldOffset["t_csh_cycles"], want.field["t_csh_cycles"])

\* The end of chip's window, not part of it.
WindowEnd(chip) == (want.chip_base[chip] + want.chip_space[chip]) % AddrSpace

\* The window is to go from start to end.
SetWindow(chip, start, end) ==
    want' = [want EXCEPT !.chip_base[chip] = start,
                         !.chip_space[chip] = (end - start) % AddrSpace]

hyperbus_set_chip_start(chip, start_addr) ==
    /\ Called
    /\ words' = Write(words, ChipStart(chip), start_addr)
    /\ SetWindow(chip, start_addr, WindowEnd(chip))
    /\ UNCHANGED <<cfg, answer>>

hyperbus_set_chip_end(chip, end_addr_noninclusive) ==
    /\ Called
    /\ words' = Write(words, ChipEnd(chip), end_addr_noninclusive)
    /\ SetWindow(chip, want.chip_base[chip], end_addr_noninclusive)
    /\ UNCHANGED <<cfg, answer>>

hyperbus_set_chip_range(chip, start_addr, end_addr_noninclusive) ==
    /\ Called
    /\ words' = Write(Write(words, ChipStart(chip), start_addr),
                      ChipEnd(chip), end_addr_noninclusive)
    /\ SetWindow(chip, start_addr, end_addr_noninclusive)
    /\ UNCHANGED <<cfg, answer>>

hyperbus_get_chip_start(chip) == GetWord(ChipStart(chip), want.chip_base[chip])
hyperbus_get_chip_end(chip) == GetWord(ChipEnd(chip), WindowEnd(chip))

-----------------------------------------------------------------------------
SetTimings ==
    \E v \in Timings :
        \/ hyperbus_set_t_latency_access(v)
        \/ hyperbus_set_en_latency_additional(v)
        \/ hyperbus_set_t_burst_max(v)
        \/ hyperbus_set_t_read_write_recovery(v)
        \/ hyperbus_set_t_rx_clk_delay(v)
        \/ hyperbus_set_t_tx_clk_delay(v)

SetModes ==
    \E v \in Timings :
        \/ hyperbus_set_address_mask_msb(v)
        \/ hyperbus_set_address_space(v)
        \/ hyperbus_set_phys_in_use(v)
        \/ hyperbus_set_which_phy(v)
        \/ hyperbus_set_t_csh_cycles(v)

GetFields ==
    \/ hyperbus_get_t_latency_access
    \/ hyperbus_get_en_latency_additional
    \/ hyperbus_get_t_burst_max
    \/ hyperbus_get_t_read_write_recovery
    \/ hyperbus_get_t_rx_clk_delay
    \/ hyperbus_get_t_tx_clk_delay
    \/ hyperbus_get_address_mask_msb
    \/ hyperbus_get_address_space
    \/ hyperbus_get_phys_in_use
    \/ hyperbus_get_which_phy
    \/ hyperbus_get_t_csh_cycles

Windows ==
    \E chip \in Chips :
        \/ hyperbus_get_chip_start(chip)
        \/ hyperbus_get_chip_end(chip)
        \/ \E a \in Addrs : hyperbus_set_chip_start(chip, a) \/ hyperbus_set_chip_end(chip, a)
        \/ \E a, b \in Addrs : hyperbus_set_chip_range(chip, a, b)

BusNext ==
    \/ \E base, len \in Addrs : Default(base, len)
    \/ \E f \in Fields, v \in Timings : Modify(f, v)
    \/ hyperram_cfg_write
    \/ Read
    \/ Null
    \/ SetTimings
    \/ SetModes
    \/ GetFields
    \/ Windows

BusSpec == BusInit /\ [][BusNext]_busVars

-----------------------------------------------------------------------------
(* The peripheral has the configuration that the calls asked for, in any   *)
(* order: a call changes its own field or window and no other, a written   *)
(* configuration is read back as it was, cut to the registers' widths, and *)
(* moving one end of a window leaves the other where it was.               *)
ReadsBack ==
    /\ hyperram_cfg_read(words) = want
    /\ answer.got = answer.due

\* External: the chips that the peripheral selects for an address.
Selected(a) == {i \in Chips : words[ChipStart(i)] <= a /\ a < words[ChipEnd(i)]}

(* With the windows of hyperram_cfg_default in the registers, every        *)
(* address from the first chip's base to the last one's end selects one    *)
(* chip, each address the chip it belongs to, unless the windows reach the *)
(* end of the address space: an end of 2^32 is stored as 0.                *)
SelectsOneChip ==
    \A base, len \in Addrs :
        /\ base + NumChips * len < AddrSpace
        /\ want.chip_base = hyperram_cfg_default(base, len).chip_base
        /\ want.chip_space = hyperram_cfg_default(base, len).chip_space
        => \A a \in base .. base + NumChips * len - 1 : Selected(a) = {(a - base) \div len}
=============================================================================

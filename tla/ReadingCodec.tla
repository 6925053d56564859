---------------------------- MODULE ReadingCodec ----------------------------
(***************************************************************************)
(* The pure conversions on the way of a reading: splitting a bulk payload  *)
(* (api/grpc/service.rs), the TLV block of a binary DLMS frame             *)
(* (stacks/binary_decoder.rs), OBIS registers to metrics (stacks/dlms.rs), *)
(* the value a meter signs (api/handlers.rs), the zone and the Influx      *)
(* point of a reading (logic/router.rs), and the zone balances             *)
(* (logic/zone_balance.rs).  Each is checked against a reference           *)
(* definition over bounded inputs.                                         *)
(***************************************************************************)
EXTENDS Integers, Sequences, FiniteSets, SequencesExt, FiniteSetsExt

CONSTANTS
    SigLen,         \* bytes of a signature (64)
    NumZones,       \* zone partitions
    Kilo,           \* Wh per kWh (1000)
    Missing         \* no value

ASSUME CodecAssumption == SigLen \in Nat /\ NumZones \in Nat \ {0} /\ Kilo \in Nat \ {0}

VARIABLE sample     \* the input in hand

-----------------------------------------------------------------------------
(* Framing. *)

\* The whole frame and its signature are there.
entry_fits(payload, c, n) == c + 1 + n + SigLen <= Len(payload)

\* split_bulk_frames: [len][frame][signature] until an entry runs past the end;
\* c bytes have been consumed.
RECURSIVE split_from(_, _)
split_from(payload, c) ==
    IF c >= Len(payload) \/ ~entry_fits(payload, c, payload[c + 1]) THEN <<>>
    ELSE LET n == payload[c + 1]
         IN <<[frame |-> SubSeq(payload, c + 2, c + 1 + n),
               sig |-> SubSeq(payload, c + 2 + n, c + 1 + n + SigLen)]>>
              \o split_from(payload, c + 1 + n + SigLen)

split_bulk_frames(payload) == split_from(payload, 0)

\* The length a known tag's value must have.
TagLen == <<8, 8, 4, 4, 4>>

\* The values found so far with one more: an unknown tag or a wrong length is
\* skipped, the last value of a tag stays.
tlv_value(got, tag, val) ==
    IF tag \in 1 .. 5 /\ Len(val) = TagLen[tag] THEN [got EXCEPT ![tag] = val] ELSE got

\* The TLV loop of DlmsBinaryFrame::parse; a value that runs past the block ends
\* it.
RECURSIVE tlv_from(_, _, _)
tlv_from(data, c, got) ==
    IF c + 2 > Len(data) \/ c + 2 + data[c + 2] > Len(data) THEN got
    ELSE LET len == data[c + 2]
         IN tlv_from(data, c + 2 + len, tlv_value(got, data[c + 1], SubSeq(data, c + 3, c + 2 + len)))

parse_tlv(data) == tlv_from(data, 0, [t \in 1 .. 5 |-> Missing])

-----------------------------------------------------------------------------
(* Registers to metrics.  A payload maps keys to JSON values: a number, a      *)
(* string that parses as a number, or any other text.                          *)

Number(n) == [json |-> "number", val |-> n]
AString(n) == [json |-> "string", val |-> n]
AText == [json |-> "text", val |-> Missing]

\* Value::as_f64, without and with unwrap_or(0.0).
as_f64(value) == IF value.json = "number" THEN value.val ELSE Missing
as_f64_or_0(value) == IF value.json = "number" THEN value.val ELSE 0

\* canonical_sign_value's num: strings are parsed.
num(value) == value.val

\* The name under which map_payload keeps a register that a sink reads by name.
meta_name ==
    [import |-> "obis_active_import", export |-> "obis_active_export",
     import_rate1 |-> "active_import_rate1_kwh", import_rate2 |-> "active_import_rate2_kwh",
     export_rate1 |-> "active_export_rate1_kwh", export_rate2 |-> "active_export_rate2_kwh",
     max_demand |-> "max_demand_import_kw", sum_power |-> "sum_active_power_kw",
     reactive_import |-> "reactive_energy_import_kvarh",
     reactive_export |-> "reactive_energy_export_kvarh",
     voltage_l1 |-> "voltage_l1_v", frequency |-> "frequency_hz", factor |-> "power_factor",
     tariff |-> "active_tariff", soc |-> "battery_soc_percent",
     dispatch |-> "battery_dispatch_kw", ev |-> "ev_charging_kw"]

\* The registers stored in kWh (kvarh), from Wh (varh).
Scaled == {"import_rate1", "import_rate2", "export_rate1", "export_rate2",
           "reactive_import", "reactive_export"}

NoEnergy == [gen |-> 0, con |-> 0, plain_gen |-> Missing, plain_con |-> Missing,
             obis_gen |-> FALSE, obis_con |-> FALSE]

\* Fault: whichever key comes last decides.
visitLastWins(acc, key, val) ==
    CASE key = "import" -> [acc EXCEPT !.con = as_f64_or_0(val)]
      [] key = "energy_consumed" -> [acc EXCEPT !.con = as_f64_or_0(val) * Kilo]
      [] key = "export" -> [acc EXCEPT !.gen = as_f64_or_0(val)]
      [] key = "energy_generated" -> [acc EXCEPT !.gen = as_f64_or_0(val) * Kilo]
      [] OTHER -> acc

\* One turn of map_payload's loop, for the keys that drive energy.  A string is
\* no number here: 0 in a register, and a plain key that is not there.
visit(acc, key, val) ==
    CASE key = "import" -> [acc EXCEPT !.con = as_f64_or_0(val), !.obis_con = TRUE]
      [] key = "export" -> [acc EXCEPT !.gen = as_f64_or_0(val), !.obis_gen = TRUE]
      [] key = "energy_generated" -> [acc EXCEPT !.plain_gen = as_f64(val)]
      [] key = "energy_consumed" -> [acc EXCEPT !.plain_con = as_f64(val)]
      [] key \in {"gas", "water"} -> [acc EXCEPT !.con = as_f64_or_0(val)]
      [] OTHER -> acc

\* map_payload over the keys in the order the hash map yields them: plain keys
\* count only where no OBIS register did.  Energies in kWh.
map_payload(payload, order) ==
    LET Turn(acc, key) == visit(acc, key, payload[key])
        end == FoldLeft(Turn, NoEnergy, order)
        gen == IF ~end.obis_gen /\ end.plain_gen # Missing THEN end.plain_gen * Kilo ELSE end.gen
        con == IF ~end.obis_con /\ end.plain_con # Missing THEN end.plain_con * Kilo ELSE end.con
    IN [generated |-> gen \div Kilo, consumed |-> con \div Kilo]

\* Its metadata for the registers with a name of their own.
metadata(payload) ==
    LET regs == DOMAIN payload \cap DOMAIN meta_name
    IN [name \in {meta_name[r] : r \in regs} |->
          LET r == CHOOSE q \in regs : meta_name[q] = name
          IN IF r \in Scaled THEN Number(as_f64_or_0(payload[r]) \div Kilo) ELSE payload[r]]

\* canonical_sign_value: the first of these keys that has a number, in kWh.
canonical_sign_value(payload) ==
    LET keys == <<"kwh", "energy_consumed", "energy_generated", "import", "export">>
        found == SelectSeq(keys, LAMBDA k : k \in DOMAIN payload /\ num(payload[k]) # Missing)
    IN IF found = <<>> THEN 0
       ELSE IF Head(found) \in {"import", "export"} THEN num(payload[Head(found)]) \div Kilo
       ELSE num(payload[Head(found)])

-----------------------------------------------------------------------------
(* Routing and sinks. *)

\* calculate_zone_index: the number in the zone code if it names a partition;
\* else a hash of the code, or of the serial number when there is no code.
calculate_zone_index(suffix, hash) ==
    IF suffix \in Nat /\ suffix < NumZones THEN suffix ELSE hash % NumZones

\* reading_to_point: the registers promoted from metadata, where numeric.
EXTRA_FIELDS ==
    {"sum_active_power_kw", "max_demand_import_kw", "active_tariff",
     "active_import_rate1_kwh", "active_import_rate2_kwh",
     "active_export_rate1_kwh", "active_export_rate2_kwh",
     "reactive_energy_import_kvarh", "reactive_energy_export_kvarh",
     "voltage_l1_v", "frequency_hz", "power_factor",
     "battery_soc_percent", "battery_dispatch_kw", "ev_charging_kw"}

reading_to_point(meta) ==
    [name \in {x \in EXTRA_FIELDS \cap DOMAIN meta : as_f64(meta[x]) # Missing} |-> as_f64(meta[name])]

zone_of(bin) == bin.zone

\* zone_balances: the bins of each recorded zone, those without one apart.
zone_balances(bins) ==
    LET Of(z) == SelectSeq(bins, LAMBDA b : zone_of(b) = z)
        Total(seq, Val(_)) == FoldLeft(LAMBDA t, b : t + Val(b), 0, seq)
    IN [z \in {zone_of(bins[k]) : k \in DOMAIN bins} |->
          [generated |-> Total(Of(z), LAMBDA b : b.gen),
           consumed |-> Total(Of(z), LAMBDA b : b.con),
           net |-> Total(Of(z), LAMBDA b : b.gen - b.con),
           count |-> Len(Of(z))]]

system_net_kwh(balances) == MapThenSumSet(LAMBDA z : balances[z].net, DOMAIN balances)

-----------------------------------------------------------------------------
(* Reference definitions and what must agree with them. *)

Encoded(entries) ==
    FlattenSeq([k \in DOMAIN entries |-> <<Len(entries[k].frame)>> \o entries[k].frame \o entries[k].sig])

\* What was packed is what is unpacked, each frame with its own signature, and a
\* truncated tail is ignored ("never partially processed").
BulkSplitIsExact ==
    sample.what = "bulk" =>
        split_bulk_frames(Encoded(sample.entries) \o sample.tail) = sample.entries

\* The last well-formed value of each tag, wherever unknown or ill-sized tags
\* and a truncated tail stand between: the frame's registers.
TlvIsExact ==
    sample.what = "tlv" =>
        LET tlvs == sample.tlvs
            data == FlattenSeq([k \in DOMAIN tlvs |-> <<tlvs[k].tag, Len(tlvs[k].val)>> \o tlvs[k].val])
            good(t) == {k \in DOMAIN tlvs : tlvs[k].tag = t /\ Len(tlvs[k].val) = TagLen[t]}
        IN parse_tlv(data \o sample.tail) =
             [t \in 1 .. 5 |-> IF good(t) = {} THEN Missing ELSE tlvs[Max(good(t))].val]

\* The metrics of a payload do not depend on the order in which the hash map
\* yields its keys: "HashMap iteration order is random - resolve after the loop,
\* not by last-write-wins".  A payload with two of import, gas and water is the
\* exception, and left out: all three write consumed_wh, and the last one stays.
OrderDoesNotMatter ==
    sample.what = "payload" /\ Cardinality(DOMAIN sample.payload \cap {"import", "gas", "water"}) <= 1 =>
        \A order \in SetToSeqs(DOMAIN sample.payload) :
            map_payload(sample.payload, order) = map_payload(sample.payload, SetToSeq(DOMAIN sample.payload))

\* A payload that reports energy in one form, plain or OBIS, and no separate kwh
\* has its signed value stored: as consumption, or as generation when that is
\* all it reports.
StoredAsSigned(payload) ==
    LET keys == DOMAIN payload
        reading == map_payload(payload, SetToSeq(keys))
    IN keys # {} /\ (keys \subseteq {"import", "export"}
                        \/ keys \subseteq {"energy_consumed", "energy_generated"}) =>
         canonical_sign_value(payload) =
           (IF keys \cap {"import", "energy_consumed"} # {} THEN reading.consumed
            ELSE reading.generated)

\* A payload whose values are JSON numbers is stored as signed ("a real OBIS-coded
\* meter signs the same kWh the decoder reconstructs").  Strings are left out:
\* canonical_sign_value parses them, map_payload does not.
SignedIsStored ==
    sample.what = "payload" /\ (\A k \in DOMAIN sample.payload : sample.payload[k].json = "number") =>
        StoredAsSigned(sample.payload)

\* Every numeric register that has a column in the Influx point arrives there
\* under the name the decoder gave it: the two lists of names agree.
PointCarriesRegisters ==
    sample.what = "registers" =>
        LET point == reading_to_point(metadata(sample.payload))
        IN \A r \in DOMAIN sample.payload \ {"import", "export"} :
             sample.payload[r].json = "number" =>
               /\ meta_name[r] \in DOMAIN point
               /\ point[meta_name[r]] * (IF r \in Scaled THEN Kilo ELSE 1) = sample.payload[r].val

\* A reading always goes to an existing partition, and to the one its zone code
\* names if there is such a partition.
ZoneExists ==
    sample.what = "zone" =>
        LET z == calculate_zone_index(sample.suffix, sample.hash)
        IN z \in 0 .. NumZones - 1 /\ (sample.suffix \in 0 .. NumZones - 1 => z = sample.suffix)

\* No energy is lost or attributed to another zone: the zones' nets add up to
\* the bins', every bin is counted once, and unzoned energy stays apart.
BalancesConserve ==
    sample.what = "bins" =>
        LET bins == sample.bins
            balances == zone_balances(bins)
            Net(S) == MapThenSumSet(LAMBDA k : bins[k].gen - bins[k].con, S)
        IN /\ system_net_kwh(balances) = Net(DOMAIN bins)
           /\ \A z \in {0, 1, Missing} :
                LET own == {k \in DOMAIN bins : bins[k].zone = z}
                IN own # {} => z \in DOMAIN balances /\ balances[z].net = Net(own) /\ balances[z].count = Cardinality(own)

\* Every conversion of this module agrees with its reference definition, within
\* the exceptions that OrderDoesNotMatter and SignedIsStored state.
ConversionsAreExact ==
    /\ BulkSplitIsExact /\ TlvIsExact
    /\ OrderDoesNotMatter /\ SignedIsStored
    /\ PointCarriesRegisters /\ ZoneExists /\ BalancesConserve
=============================================================================

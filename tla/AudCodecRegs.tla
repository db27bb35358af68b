---------------------------- MODULE AudCodecRegs ----------------------------
(***************************************************************************)
(* What the audio firmware asks of the SSM2603 codec and of the board's    *)
(* own registers: each routine of aud_codec.c, acortex.c, ssm2603_drvr.c,  *)
(* pcm_bffr.c, fgyrus.c, cortex.c and test_audio_fft is the sequence of    *)
(* its operations.  A failed codec operation is only printed, so a routine *)
(* goes on; aud_codec_dump_regs stops at the first one.                    *)
(***************************************************************************)
EXTENDS Naturals, Sequences, FiniteSetsExt, SequencesExt

\* Fields of the codec's nine-bit registers: <<index, offset, width>>.
LineFields ==
  [LINVOL |-> <<0, 0, 6>>, LIN_MUTE |-> <<0, 7, 1>>, LRIN_BOTH |-> <<0, 8, 1>>,
   RINVOL |-> <<1, 0, 6>>, RIN_MUTE |-> <<1, 7, 1>>, RLIN_BOTH |-> <<1, 8, 1>>,
   LHPVOL |-> <<2, 0, 7>>, LRHP_BOTH |-> <<2, 8, 1>>, RHPVOL |-> <<3, 0, 7>>, RLHP_BOTH |-> <<3, 8, 1>>]
PathFields ==
  [MIC_BOOST |-> <<4, 0, 1>>, MUTE_MIC |-> <<4, 1, 1>>, INSEL |-> <<4, 2, 1>>, BYPASS |-> <<4, 3, 1>>,
   DAC_SEL |-> <<4, 4, 1>>, SIDE_TONE |-> <<4, 5, 1>>, SIDE_ATT |-> <<4, 6, 2>>,
   ADC_HPD |-> <<5, 0, 1>>, DEEMPH |-> <<5, 1, 2>>, DAC_MU |-> <<5, 3, 1>>, HPOR |-> <<5, 4, 1>>]
PowerFields ==
  [LINEINPD |-> <<6, 0, 1>>, MICPD |-> <<6, 1, 1>>, ADCPD |-> <<6, 2, 1>>, DACPD |-> <<6, 3, 1>>,
   OUTPD |-> <<6, 4, 1>>, OSCPD |-> <<6, 5, 1>>, CLKOUTPD |-> <<6, 6, 1>>, PWROFF |-> <<6, 7, 1>>]
FormatFields ==
  [FORMAT |-> <<7, 0, 2>>, IWL |-> <<7, 2, 2>>, LRP |-> <<7, 4, 1>>, LRSWAP |-> <<7, 5, 1>>,
   MS |-> <<7, 6, 1>>, BCLK_INV |-> <<7, 7, 1>>, USB_NORM |-> <<8, 0, 1>>, BOSR |-> <<8, 1, 1>>,
   SR |-> <<8, 2, 4>>, CLKI_DIV2 |-> <<8, 6, 1>>, CLKO_DIV2 |-> <<8, 7, 1>>, ACTIVE |-> <<9, 0, 1>>]
AlcFields ==
  [ALCL |-> <<16, 0, 4>>, MAXGAIN |-> <<16, 4, 3>>, ALCSEL |-> <<16, 7, 2>>,
   ATK |-> <<17, 0, 4>>, DCY |-> <<17, 4, 4>>,
   NGAT |-> <<18, 0, 1>>, NGG |-> <<18, 1, 2>>, NGTH |-> <<18, 3, 5>>]
Fields == LineFields @@ PathFields @@ PowerFields @@ FormatFields @@ AlcFields

CodecRegs == (0..9) \cup {15, 16, 17, 18}
AUD_CODEC_RESET_IDX == 15

\* Field f of the registers regs, and register value old with f set to v.
EXTRACT_FIELD(regs, f) == (regs[Fields[f][1]] \div 2^Fields[f][2]) % 2^Fields[f][3]
UPDATE_FIELD(old, f, v) ==
  LET lo == 2^Fields[f][2] w == 2^Fields[f][3]
  IN  old - ((old \div lo) % w) * lo + (v % w) * lo

update_field(v, f) == [k |-> "cupd", i |-> Fields[f][1], f |-> f, v |-> v]
write_reg(i, v) == [k |-> "cwr", i |-> i, v |-> v]
read_reg(i) == [k |-> "crd", i |-> i]
\* A register of the board: field f of its state takes the value v.
IoWr(f, v) == [k |-> "io", f |-> f, v |-> v]

-----------------------------------------------------------------------------
BPS_24 == 2
FS_T == {"8K", "32K", "44K", "48K", "88K", "96K"}
fs2sr_lookup == [x \in FS_T |-> CASE x = "8K" -> 3 [] x = "32K" -> 6 [] x = "44K" -> 8
                                  [] x = "48K" -> 0 [] x = "88K" -> 15 [] x = "96K" -> 7]
fs2bosr_lookup == [x \in FS_T |-> IF x \in {"44K", "88K"} THEN 1 ELSE 0]
fs2fs_div_lookup == [x \in FS_T |-> CASE x = "8K" -> 1250 [] x = "32K" -> 313 [] x = "44K" -> 227
                                      [] x = "48K" -> 208 [] x = "88K" -> 114 [] x = "96K" -> 104]

\* ssm2603_drvr.c, pcm_bffr.c, fgyrus.c: bits of a control register
disable_dac_drvr == IoWr("dac", 0)
enable_dac_drvr == IoWr("dac", 1)
disable_adc_drvr == IoWr("adc", 0)
enable_adc_drvr == IoWr("adc", 1)
configure_drvr_bps(v) == IoWr("bps", v % 4)
configure_drvr_fs_div(v) == IoWr("fs", v)
configure_drvr_bclk_div(v) == IoWr("bclk", v)
update_acache_mode(mode) == IoWr("mode", mode)
enable_fgyrus == IoWr("fgyrus", 1)
configure_i2c_clk(v) == IoWr("i2c_clk", v)

aud_codec_reset == << write_reg(AUD_CODEC_RESET_IDX, 0) >>
aud_codec_init(bps) ==
  aud_codec_reset
  \o << update_field(0, "PWROFF"), update_field(0, "LINEINPD"), update_field(bps, "IWL"),
        update_field(1, "LRP"), update_field(3, "FORMAT"), update_field(1, "USB_NORM"),
        update_field(1, "DAC_SEL"), update_field(0, "BYPASS"), update_field(0, "DAC_MU"),
        update_field(1, "ACTIVE"), update_field(0, "OUTPD") >>
\* The loop ends at register 9: the cases for 0x10 to 0x12 are never reached.
aud_codec_dump_regs == << >> \o [i \in 1..10 |-> read_reg(i - 1)]

\* init_cortex calls init_acortex without an argument: bps is what the
\* register of the argument held.
init_acortex(bps) ==
  << configure_i2c_clk(255), configure_drvr_bclk_div(10), configure_drvr_bps(bps) >>
init_cortex(junk) == << IoWr("reset", 0), IoWr("reset", \h1f) >> \o init_acortex(junk)

\* Mutant: the codec is not taken off before its format changes.
enable_audio_path_Live(fs, bps) ==
  << update_field(bps, "IWL"), configure_drvr_bps(bps),
     update_field(fs2bosr_lookup[fs], "BOSR"), update_field(fs2sr_lookup[fs], "SR"),
     configure_drvr_fs_div(fs2fs_div_lookup[fs]), update_field(0, "ADCPD"), update_field(0, "DACPD"),
     update_field(1, "ACTIVE"), update_field(0, "OUTPD") >>
enable_audio_path(fs, bps) ==
  << update_field(0, "ACTIVE"), update_field(1, "OUTPD"),
     update_field(0, "LIN_MUTE"), update_field(0, "RIN_MUTE"),
     update_field(bps, "IWL"), configure_drvr_bps(bps),
     update_field(fs2bosr_lookup[fs], "BOSR"), update_field(fs2sr_lookup[fs], "SR"),
     configure_drvr_fs_div(fs2fs_div_lookup[fs]), update_field(0, "ADCPD"), update_field(0, "DACPD"),
     update_field(1, "ACTIVE"), update_field(0, "OUTPD") >>
disable_audio_path ==
  << update_field(0, "ACTIVE"), update_field(1, "OUTPD"),
     update_field(1, "LIN_MUTE"), update_field(1, "RIN_MUTE"),
     update_field(1, "ADCPD"), update_field(1, "DACPD"),
     update_field(1, "ACTIVE"), update_field(0, "OUTPD") >>

\* The two banks are dumped through the address register of the capture RAM.
dump_acache_cap_data == << IoWr("cap_addr", 127 + 128) >>
pcm_cap(fs, bps) ==
  << disable_adc_drvr >> \o disable_audio_path \o << update_acache_mode(1) >>
  \o enable_audio_path(fs, bps) \o << enable_adc_drvr, [k |-> "capwait"] >>
  \o dump_acache_cap_data \o << disable_adc_drvr >> \o disable_audio_path

test_audio_fft ==
  << enable_fgyrus, disable_adc_drvr, disable_dac_drvr >> \o disable_audio_path
  \o << update_acache_mode(0) >> \o enable_audio_path("44K", BPS_24)
  \o << enable_adc_drvr, enable_dac_drvr >>
=============================================================================

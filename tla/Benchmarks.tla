----------------------------- MODULE Benchmarks -----------------------------
(***************************************************************************)
(* The tasks of three published communication graphs, src/applications/    *)
(* MPEG4, MWD and VOPD.  They compute nothing: they send and receive as    *)
(* many words as the graph says, in messages of at most 128.               *)
(***************************************************************************)
EXTENDS Tasks

MPEG4_ADSP_0 == Receives(10, "SDRAM_0") \o Sends(10, "SDRAM_0")
MPEG4_AU_0 == Receives(10, "SDRAM_0")
\* Mutant: the rests of the two tasks SRAM2_0 sends to are swapped.
MPEG4_BAB_0_OthersRest ==
  Receives(22, "SRAM2_0") \o Receive("SRAM2_0", Words(124)) \o Receives(10, "SDRAM_0")
  \o Sends(10, "SDRAM_0")

MPEG4_BAB_0 ==
  Receives(22, "SRAM2_0") \o Receive("SRAM2_0", Words(114)) \o Receives(10, "SDRAM_0")
  \o Sends(10, "SDRAM_0")
MPEG4_IDCT_0 ==
  Receives(32, "SRAM2_0") \o Receive("SRAM2_0", Words(124)) \o Sends(32, "SRAM2_0")
  \o Send("SRAM2_0", Words(124))
MPEG4_MCPU_0 == Receives(10, "SDRAM_0") \o Sends(10, "SRAM1_0")
MPEG4_RAST_0 ==
  Receives(10, "SRAM1_0") \o Receives(79, "SDRAM_0") \o Receive("SDRAM_0", Words(18))
  \o Sends(79, "SDRAM_0") \o Send("SDRAM_0", Words(18))
MPEG4_RISC_0 ==
  Receives(65, "SRAM2_0") \o Receive("SRAM2_0", Words(120)) \o Sends(65, "SRAM2_0")
  \o Send("SRAM2_0", Words(120))
MPEG4_SDRAM_0 ==
  Sends(10, "BAB_0") \o Receives(10, "BAB_0") \o Sends(117, "UPSAMP_0")
  \o Send("UPSAMP_0", Words(24)) \o Receives(117, "UPSAMP_0") \o Receive("UPSAMP_0", Words(24))
  \o Sends(10, "ADSP_0") \o Sends(10, "MCPU_0") \o Receives(10, "ADSP_0") \o Sends(79, "RAST_0")
  \o Send("RAST_0", Words(18)) \o Receives(79, "RAST_0") \o Receive("RAST_0", Words(18))
  \o Sends(10, "AU_0") \o Sends(25, "VU_0") \o Send("VU_0", Words(10))
MPEG4_SRAM1_0 == Receives(10, "MCPU_0") \o Sends(10, "RAST_0")
MPEG4_SRAM2_0 ==
  Sends(65, "RISC_0") \o Send("RISC_0", Words(120)) \o Receives(65, "RISC_0")
  \o Receive("RISC_0", Words(120)) \o Sends(22, "BAB_0") \o Send("BAB_0", Words(114))
  \o Sends(32, "IDCT_0") \o Send("IDCT_0", Words(124)) \o Receives(32, "IDCT_0")
  \o Receive("IDCT_0", Words(124)) \o Sends(88, "UPSAMP_0") \o Send("UPSAMP_0", Words(46))
MPEG4_UPSAMP_0 ==
  Receives(88, "SRAM2_0") \o Receive("SRAM2_0", Words(46)) \o Receives(117, "SDRAM_0")
  \o Receive("SDRAM_0", Words(24)) \o Sends(117, "SDRAM_0") \o Send("SDRAM_0", Words(24))
MPEG4_VU_0 == Receives(25, "SDRAM_0") \o Receive("SDRAM_0", Words(10))

MPEG4 ==
  [ADSP_0 |-> MPEG4_ADSP_0, AU_0 |-> MPEG4_AU_0, BAB_0 |-> MPEG4_BAB_0, IDCT_0 |-> MPEG4_IDCT_0,
   MCPU_0 |-> MPEG4_MCPU_0, RAST_0 |-> MPEG4_RAST_0, RISC_0 |-> MPEG4_RISC_0,
   SDRAM_0 |-> MPEG4_SDRAM_0, SRAM1_0 |-> MPEG4_SRAM1_0, SRAM2_0 |-> MPEG4_SRAM2_0,
   UPSAMP_0 |-> MPEG4_UPSAMP_0, VU_0 |-> MPEG4_VU_0]

MWD_BLEND == Receives(5, "SE")
MWD_HS == Receives(10, "IN") \o Sends(7, "VS") \o Send("VS", Words(64))
MWD_HVS ==
  Receives(7, "MEM2") \o Receive("MEM2", Words(64)) \o Sends(7, "JUG2")
  \o Send("JUG2", Words(64))
MWD_IN == Sends(10, "HS") \o Sends(5, "NR")
MWD_JUG1 ==
  Receives(7, "VS") \o Receive("VS", Words(64)) \o Sends(7, "MEM3") \o Send("MEM3", Words(64))
MWD_JUG2 ==
  Receives(7, "HVS") \o Receive("HVS", Words(64)) \o Sends(7, "MEM3") \o Send("MEM3", Words(64))
MWD_MEM1 == Receives(5, "NR") \o Sends(5, "NR")
MWD_MEM2 ==
  Receives(7, "NR") \o Receive("NR", Words(64)) \o Sends(7, "HVS") \o Send("HVS", Words(64))
MWD_MEM3 ==
  Receives(7, "JUG1") \o Receive("JUG1", Words(64)) \o Receives(7, "JUG2")
  \o Receive("JUG2", Words(64)) \o Sends(5, "SE")
MWD_NR ==
  Receives(5, "IN") \o Sends(5, "MEM1") \o Receives(5, "MEM1") \o Sends(7, "MEM2")
  \o Send("MEM2", Words(64))
MWD_SE == Receives(5, "MEM3") \o Sends(5, "BLEND")
MWD_VS ==
  Receives(7, "HS") \o Receive("HS", Words(64)) \o Sends(7, "JUG1") \o Send("JUG1", Words(64))

MWD ==
  ("IN" :> MWD_IN) @@
  [BLEND |-> MWD_BLEND, HS |-> MWD_HS, HVS |-> MWD_HVS, JUG1 |-> MWD_JUG1, JUG2 |-> MWD_JUG2,
   MEM1 |-> MWD_MEM1, MEM2 |-> MWD_MEM2, MEM3 |-> MWD_MEM3, NR |-> MWD_NR, SE |-> MWD_SE,
   VS |-> MWD_VS]

VOPD_ACDC_0 ==
  Receives(8, "ISCAN_0") \o Receive("ISCAN_0", Words(88)) \o Sends(1, "STRIPEM_0")
  \o Send("STRIPEM_0", Words(22)) \o Sends(8, "IQUANT_0") \o Send("IQUANT_0", Words(88))
VOPD_ARM_0 == Sends(1, "IDCT2_0")
VOPD_IDCT2_0 ==
  Receives(1, "ARM_0") \o Receives(8, "IQUANT_0") \o Receive("IQUANT_0", Words(72))
  \o Sends(8, "UPSAMP_0") \o Send("UPSAMP_0", Words(61))
VOPD_IQUANT_0 ==
  Receives(8, "ACDC_0") \o Receive("ACDC_0", Words(88)) \o Receives(1, "STRIPEM_0")
  \o Sends(8, "IDCT2_0") \o Send("IDCT2_0", Words(72))
VOPD_ISCAN_0 ==
  Receives(8, "RUN_0") \o Receive("RUN_0", Words(88)) \o Sends(8, "ACDC_0")
  \o Send("ACDC_0", Words(88))
VOPD_PAD_0 ==
  Receives(7, "VOPREC_0") \o Receive("VOPREC_0", Words(66)) \o Sends(7, "VOPME_0")
  \o Send("VOPME_0", Words(66)) \o Receives(2, "VOPME_0") \o Receive("VOPME_0", Words(33))
VOPD_RUN_0 ==
  Receives(1, "VLD_0") \o Receive("VLD_0", Words(87)) \o Sends(8, "ISCAN_0")
  \o Send("ISCAN_0", Words(88))
VOPD_STRIPEM_0 == Receives(1, "ACDC_0") \o Receive("ACDC_0", Words(22)) \o Sends(1, "IQUANT_0")
VOPD_UPSAMP_0 ==
  Receives(8, "IDCT2_0") \o Receive("IDCT2_0", Words(61)) \o Sends(7, "VOPREC_0")
  \o Send("VOPREC_0", Words(26))
VOPD_VLD_0 == Sends(1, "RUN_0") \o Send("RUN_0", Words(87))
VOPD_VOPME_0 ==
  Receives(7, "PAD_0") \o Receive("PAD_0", Words(66)) \o Sends(2, "PAD_0")
  \o Send("PAD_0", Words(33)) \o Sends(11, "VOPREC_0") \o Send("VOPREC_0", Words(92))
VOPD_VOPREC_0 ==
  Receives(7, "UPSAMP_0") \o Receive("UPSAMP_0", Words(26)) \o Sends(7, "PAD_0")
  \o Send("PAD_0", Words(66)) \o Receives(11, "VOPME_0") \o Receive("VOPME_0", Words(92))

VOPD ==
  [ACDC_0 |-> VOPD_ACDC_0, ARM_0 |-> VOPD_ARM_0, IDCT2_0 |-> VOPD_IDCT2_0,
   IQUANT_0 |-> VOPD_IQUANT_0, ISCAN_0 |-> VOPD_ISCAN_0, PAD_0 |-> VOPD_PAD_0,
   RUN_0 |-> VOPD_RUN_0, STRIPEM_0 |-> VOPD_STRIPEM_0, UPSAMP_0 |-> VOPD_UPSAMP_0,
   VLD_0 |-> VOPD_VLD_0, VOPME_0 |-> VOPD_VOPME_0, VOPREC_0 |-> VOPD_VOPREC_0]
=============================================================================

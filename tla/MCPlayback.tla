----------------------------- MODULE MCPlayback -----------------------------
(* Small files for Playback: whole ones, one with a gap, damaged ones, one that *)
(* ends with an attitude frame, one without vibration frames, and three that    *)
(* span a restart of the device.                                                *)
EXTENDS Playback

Frame(kind, ts, peak, health) == [kind |-> kind, ts |-> ts, peak |-> peak, health |-> health]
Iis(ts, peak) == Frame("iis", ts, peak, "ok")
Jy(ts)        == Frame("jy", ts, 0, "ok")

MCFiles ==
  {<<Iis(2, 1), Jy(3), Iis(4, 2), Iis(6, 1)>>,
   <<Frame("other", 1, 0, "ok"), Iis(2, 1), Jy(2), Iis(4, 2), Jy(4)>>,
   <<Iis(2, 2), Iis(6, 1), Jy(6)>>,
   <<Iis(2, 1), Frame("iis", 4, 2, "crc"), Iis(6, 1)>>,
   <<Iis(2, 1), Iis(4, 1), Frame("iis", 5, 1, "header"), Iis(6, 1)>>,
   <<Iis(2, 1), Iis(4, 1), Jy(5)>>,
   <<Jy(2)>>,
   <<Iis(2, 1), Jy(4), Iis(1, 1), Jy(2), Iis(6, 1)>>,
   <<Iis(1, 2), Iis(5, 1), Jy(5), Iis(3, 2)>>,
   <<Iis(4, 1), Iis(6, 2), Iis(2, 1), Jy(2)>>}

\* One file is arbitrary, the other one whole.
MCArchives ==
  {[p \in Paths |-> IF p = "a" THEN f ELSE <<Iis(2, 1), Iis(4, 2), Jy(4)>>] : f \in MCFiles}
\* envelope_indices on every curve of up to six samples and three magnitudes.
ASSUME EnvelopeAssumption ==
  \A n \in 1..6 : \A mags \in [1..n -> 0..2] : KeepsPeaks([i \in 1..n |-> [t |-> i, mag |-> mags[i]]])
=============================================================================

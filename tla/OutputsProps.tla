---------------------------- MODULE OutputsProps ----------------------------
(***************************************************************************)
(* The picture and the sound are made in arrears; nobody may notice.        *)
(***************************************************************************)
EXTENDS Outputs

\* Painting in arrears implements the hardware, which draws at once (video.c and
\* its clients, "mid-frame changes land at the true beam position", machine.h):
\* with what is still owed painted now, the frame buffer is what the beam drew.
Owed == IF running /\ fb_live THEN Painted(render_pos, Least(now, FrameT)) ELSE fb
Ula == INSTANCE Raster WITH picture <- Owed, beam <- now, watched <- fb_live
PictureIsRaster == Ula!Spec

\* Synthesis in arrears implements a listener: with what is still owed synthesised
\* now, the samples the device has and those still in the buffer are the sound
\* of every moment, each once and in order (wav.c, sdl.c).
Sounded == (IF keep THEN buf ELSE queued \o buf) \o Synth(0)
Clock == (IF running THEN frames - 1 ELSE frames) * FrameT + now
Ear == INSTANCE Speaker WITH
         clock <- Clock, up <- level, filled <- Position(0), duty <- Integral(0),
         chip <- Clocked(chip, Done(0)), heard <- Sounded, Longest <- FrameT + Overrun
SoundIsSpeaker == Ear!Spec

\* With --wav in a window the device and the file get the same samples.
DeviceHearsTheFile == window /\ keep => queued = SubSeq(buf, 1, sent)

\* A frame in which nothing on display changes is painted in one go by the beam
\* painter as by the renderer that knows no beam (video_render's fallback).
RenderersAgree == [][\A d \in 0 .. FrameT + Overrun :
  FrameDone(d) /\ fb_live /\ render_pos = 0 => Rendered' = Fallback]_vars

\* A window gives back all it buffers, every frame, unless a file asked for it.
BufferDrained == window /\ ~keep /\ ~running => buf = <<>> /\ behind = 0
=============================================================================

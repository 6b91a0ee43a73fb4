------------------------- MODULE MC_ThumbnailBackfill -------------------------
(***************************************************************************)
(* Instances of ThumbnailBackfill for TLC.                                 *)
(***************************************************************************)
EXTENDS ThumbnailBackfill, MC_MediaService

\* All assets are images in the instances; the default is to do videos.
MCTypeFlags == {{"image"}, {"video"}}
=============================================================================

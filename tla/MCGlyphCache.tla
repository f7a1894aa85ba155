---------------------------- MODULE MCGlyphCache ----------------------------
(* GlyphCache with threads, addresses of fonts and pixmaps that are alike.  *)
EXTENDS GlyphCache, TLC
=============================================================================

-------------------------- MODULE MCLauncherBundle --------------------------
(* Three launchers; what may lie at the path before them is whole, or what *)
(* a removal or a crash left of it.                                        *)
EXTENDS LauncherBundle

MCArchive   == <<"programs", "model", "libraries">>
MCLeftovers == {{}, {Marker}, Hashed, {Marker} \cup Hashed, Parts \ {"model"}, Parts}
=============================================================================

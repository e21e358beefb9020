---- MODULE MCSoftRenderer3D ----
EXTENDS SoftRenderer3D
====

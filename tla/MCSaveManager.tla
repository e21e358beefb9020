---- MODULE MCSaveManager ----
EXTENDS SaveManager
CONSTANTS a, b
====

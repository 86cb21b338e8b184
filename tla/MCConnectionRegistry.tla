------------------------ MODULE MCConnectionRegistry ------------------------
EXTENDS ConnectionRegistry
CONSTANTS a, b, x, y

\* What nothing refers to any more has no content.
HeapView ==
    <<config, inited, context, frames, pc, query,
      [s \in Storages |-> IF s \in Live THEN storages[s] ELSE Empty],
      [c \in Clients |-> IF c \in FreeClients THEN Unused ELSE clients[c]]>>
=============================================================================

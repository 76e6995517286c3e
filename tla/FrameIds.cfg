SPECIFICATION LogSpec
CONSTANTS
    Asked <- MCAsked
    Observed <- MCObserved
    Payloads <- MCPayloads
    Foreign <- MCForeign
INVARIANTS SentIsSeen SeenRebuilds ReplayIsSeen ReplayIsStable

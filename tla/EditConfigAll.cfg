SPECIFICATION Spec
CONSTANTS
    ob = ob  proxy = proxy  tool = tool  other = other
    Names <- MCNames
    Installed <- MCInstalled
    Described <- MCDescribed
    Depends <- MCDepends
    Drafts <- MCDrafts
INVARIANTS TypeOK RefusedWritesNothing
PROPERTIES EffectEnough EffectNeeded ComponentsKept
